----------------------------- MODULE LookupProof -----------------------------
(***************************************************************************)
(* Proofs about Lookup, for any number of callers, any lists and any       *)
(* number of updates: the round robin is fair, ErrConnectNotFound is true, *)
(* and a Broadcast has an outcome for every address.                       *)
(***************************************************************************)
EXTENDS Lookup, SequenceTheorems, TLAPS

\* The positions of the last picks are those of a walk round the list, and idx
\* is where it goes on.
RoundInv ==
    /\ connectors \in Seq(Addrs)
    /\ idx \in Nat
    /\ recent \in Seq(Nat)
    /\ Len(recent) <= Len(connectors)
    /\ Len(recent) > 0 => idx = recent[Len(recent)] + 1
    /\ \A i \in 1 .. Len(recent) : recent[i] < Len(connectors)
    /\ \A i, j \in 1 .. Len(recent) : i < j =>
         \/ recent[j] = recent[i] + (j - i)
         \/ recent[j] = recent[i] + (j - i) - Len(connectors)

\* The ErrConnectNotFound told as t is true of the tables T of its call.
TrueOf(t, T) ==
    \/ {} \in T
    \/ /\ t.by \in {"addr", "hash"}
       /\ \E U \in T : t.addr \notin U
       /\ t.by = "hash" => \E U \in T : t.addr \in U

\* What a call knows of the list has been true since it began.
KnownInv ==
    /\ connectors \in Seq(Addrs)
    /\ hasher = Range(connectors)
    /\ tables \in [Callers -> SUBSET SUBSET Addrs]
    /\ told \in [Callers -> SUBSET [by : {"next", "addr", "hash"},
                                    addr : Addrs \cup {None},
                                    outcome : {"ok", "error", "notFound"}]]
    /\ at \in [Callers -> {"idle", "look", "node", "try", "done"}]
    /\ findType \in [Callers -> {"next", "addr", "hash"}]
    /\ key \in [Callers -> Addrs \cup {None}]
    /\ rest \in [Callers -> Seq(Addrs)]
    /\ \A c \in Callers :
         /\ at[c] = "idle" => told[c] = {}
         /\ InProgress(c) => Range(connectors) \in tables[c]
         /\ at[c] = "node" =>
              findType[c] = "hash" /\ \E T \in tables[c] : key[c] \in T
         /\ \A t \in told[c] : t.outcome = "notFound" => TrueOf(t, tables[c])

\* The list of addresses is empty exactly when the list is.
LEMMA RangeOf ==
    ASSUME NEW s \in Seq(Addrs)
    PROVE  /\ Range(s) \in SUBSET Addrs
           /\ (Range(s) = {}) <=> (s = <<>>)
<1>1. DOMAIN s = 1 .. Len(s) /\ Len(s) \in Nat
  OBVIOUS
<1>2. Range(s) \in SUBSET Addrs
  BY <1>1 DEF Range
<1>3. CASE s = <<>>
  BY <1>3 DEF Range
<1>4. CASE s # <<>>
  <2>1. 1 \in DOMAIN s
    BY <1>1, <1>4
  <2>2. s[1] \in Range(s)
    BY <2>1 DEF Range
  <2>. QED BY <1>2, <1>4, <2>2
<1>. QED BY <1>2, <1>3, <1>4

\* The last n elements of a sequence of at most n + 1.
LEMMA LastOfShift ==
    ASSUME NEW s \in Seq(Nat), NEW n \in Nat, n > 0, Len(s) <= n + 1
    PROVE  \E k \in {0, 1} :
             /\ LastOf(s, n) \in Seq(Nat)
             /\ Len(LastOf(s, n)) = Len(s) - k
             /\ Len(s) - k <= n
             /\ Len(s) > 0 => Len(s) - k > 0
             /\ \A i \in 1 .. Len(s) - k : LastOf(s, n)[i] = s[i + k]
<1>1. CASE Len(s) > n
  <2>1. LastOf(s, n) = SubSeq(s, 2, Len(s))
    BY <1>1 DEF LastOf
  <2>2. /\ LastOf(s, n) \in Seq(Nat)
        /\ Len(LastOf(s, n)) = Len(s) - 1
        /\ \A i \in 1 .. Len(s) - 1 : LastOf(s, n)[i] = s[i + 1]
    BY <1>1, <2>1
  <2>. QED BY <1>1, <2>2
<1>2. CASE Len(s) <= n
  <2>. Len(s) \in Nat
    OBVIOUS
  <2>1. LastOf(s, n) = SubSeq(s, 1, Len(s))
    <3>1. ~ (Len(s) > n)
      BY <1>2
    <3>. QED BY <3>1 DEF LastOf
  <2>2. LastOf(s, n) = s
    BY <2>1
  <2>. QED BY <1>2, <2>2
<1>. QED BY <1>1, <1>2

-----------------------------------------------------------------------------

\* The step of the walk from p to the next position, seen from a position q
\* picked d steps before p.
LEMMA WalkStep ==
    ASSUME NEW n \in Nat, NEW p \in Nat, NEW q \in Nat, NEW d \in Nat,
           p < n, q < n, d < n, p = q + d \/ p = q + d - n
    PROVE  LET next == IF p + 1 >= n THEN 0 ELSE p + 1
           IN  next = q + (d + 1) \/ next = q + (d + 1) - n
OBVIOUS

\* A pick goes on with the walk.
LEMMA PickKeepsRound ==
    ASSUME RoundInv, connectors # <<>>, UNCHANGED connectors,
           Advance(Position),
           recent' = LastOf(Append(recent, Position), Len(connectors))
    PROVE  RoundInv'
<1> DEFINE n == Len(connectors)
           s == Append(recent, Position)
<1>1. n \in Nat /\ n > 0
  BY DEF RoundInv
<1>2. Position \in Nat /\ Position < n
  BY <1>1 DEF RoundInv, Position
<1>3. /\ s \in Seq(Nat)
      /\ Len(s) = Len(recent) + 1
      /\ s[Len(s)] = Position
      /\ \A i \in 1 .. Len(recent) : s[i] = recent[i]
  BY <1>2 DEF RoundInv
<1>4. \A i \in 1 .. Len(s) : s[i] \in Nat /\ s[i] < n
  BY <1>2, <1>3 DEF RoundInv
<1>14. Len(recent) \in Nat /\ Len(s) \in Nat
  BY <1>3 DEF RoundInv
<1>15. \A i \in 1 .. Len(recent) : recent[i] \in Nat /\ recent[i] < n
  BY DEF RoundInv
<1>16. \A i, j \in 1 .. Len(recent) : i < j =>
         recent[j] = recent[i] + (j - i) \/ recent[j] = recent[i] + (j - i) - n
  BY DEF RoundInv
<1>17. Len(recent) <= n /\ (Len(recent) > 0 => idx = recent[Len(recent)] + 1)
  BY DEF RoundInv
<1>18. Position = IF idx >= n THEN 0 ELSE idx
  BY DEF Position
<1> HIDE DEF s, n
<1>5. \A i, j \in 1 .. Len(s) : i < j =>
        s[j] = s[i] + (j - i) \/ s[j] = s[i] + (j - i) - n
  <2> SUFFICES ASSUME NEW i \in 1 .. Len(s), NEW j \in 1 .. Len(s), i < j
               PROVE  s[j] = s[i] + (j - i) \/ s[j] = s[i] + (j - i) - n
    OBVIOUS
  <2>1. i \in Int /\ j \in Int /\ i \in 1 .. Len(recent) /\ s[i] = recent[i]
    BY <1>3, <1>14
  <2>2. CASE j <= Len(recent)
    <3>1. j \in 1 .. Len(recent) /\ s[j] = recent[j]
      BY <1>3, <1>14, <2>1, <2>2
    <3>. QED BY <1>16, <2>1, <3>1
  <2>3. CASE j > Len(recent)
    <3> DEFINE l == Len(recent)
    <3>1. j = l + 1 /\ s[j] = Position
      BY <1>3, <1>14, <2>1, <2>3
    <3>2. l \in 1 .. l /\ idx = recent[l] + 1 /\ recent[l] \in Nat
      BY <1>14, <1>15, <1>17, <2>1
    <3>3. \/ recent[l] = recent[i] + (l - i)
          \/ recent[l] = recent[i] + (l - i) - n
      <4>1. CASE i = l
        BY <3>2, <4>1
      <4>2. CASE i < l
        BY <1>16, <2>1, <3>2, <4>2
      <4>. QED BY <1>14, <2>1, <4>1, <4>2
    <3>4. recent[i] \in Nat /\ recent[i] < n /\ recent[l] < n /\ l <= n
      BY <1>15, <1>17, <2>1, <3>2
    <3>5. l \in Nat /\ i \in Int /\ 1 <= i /\ i <= l
      BY <1>14, <2>1
    <3> HIDE DEF l
    <3>6. (l - i) \in Nat /\ l - i < n /\ (l - i) + 1 = j - i
      BY <1>1, <3>1, <3>4, <3>5
    <3>7. Position = IF recent[l] + 1 >= n THEN 0 ELSE recent[l] + 1
      BY <1>18, <3>2
    <3> DEFINE p == recent[l]
               q == recent[i]
               d == l - i
    <3>8. p \in Nat /\ q \in Nat /\ d \in Nat /\ p < n /\ q < n /\ d < n
      BY <3>2, <3>4, <3>6
    <3>9. p = q + d \/ p = q + d - n
      BY <3>3
    <3>10. s[j] = IF p + 1 >= n THEN 0 ELSE p + 1
      BY <3>1, <3>7
    <3>11. s[i] = q /\ d + 1 = j - i
      BY <2>1, <3>6
    <3> HIDE DEF p, q, d
    <3>12. s[j] = q + (d + 1) \/ s[j] = q + (d + 1) - n
      BY <1>1, <3>8, <3>9, <3>10, WalkStep
    <3>. QED BY <3>11, <3>12
  <2>. QED BY <1>14, <2>1, <2>2, <2>3
<1>6. Len(s) <= n + 1
  BY <1>1, <1>3, <1>14, <1>17
<1>19. recent' = LastOf(s, n)
  BY DEF s, n
<1>7. PICK k \in {0, 1} :
        /\ recent' \in Seq(Nat)
        /\ Len(recent') = Len(s) - k
        /\ Len(s) - k <= n
        /\ Len(s) > 0 => Len(s) - k > 0
        /\ \A i \in 1 .. Len(s) - k : recent'[i] = s[i + k]
  <2>1. /\ s \in Seq(Nat) /\ n \in Nat /\ n > 0 /\ Len(s) <= n + 1
    BY <1>1, <1>3, <1>6
  <2>2. \E k \in {0, 1} :
          /\ LastOf(s, n) \in Seq(Nat)
          /\ Len(LastOf(s, n)) = Len(s) - k
          /\ Len(s) - k <= n
          /\ Len(s) > 0 => Len(s) - k > 0
          /\ \A i \in 1 .. Len(s) - k : LastOf(s, n)[i] = s[i + k]
    BY ONLY <2>1, LastOfShift
  <2>. QED BY ONLY <1>19, <2>2
<1>8. Len(s) \in Nat /\ Len(s) > 0 /\ idx' = s[Len(s)] + 1
  BY <1>3, <1>14 DEF Advance
<1>9. Len(recent') > 0 /\ recent'[Len(recent')] = s[Len(s)]
  BY <1>7, <1>8
<1>10. \A i \in 1 .. Len(recent') : recent'[i] < n
  <2> SUFFICES ASSUME NEW i \in 1 .. Len(recent') PROVE recent'[i] < n
    OBVIOUS
  <2>1. i + k \in 1 .. Len(s) /\ recent'[i] = s[i + k]
    BY <1>7, <1>8
  <2>. QED BY <1>4, <2>1
<1>11. \A i, j \in 1 .. Len(recent') : i < j =>
         recent'[j] = recent'[i] + (j - i) \/ recent'[j] = recent'[i] + (j - i) - n
  <2> SUFFICES ASSUME NEW i \in 1 .. Len(recent'), NEW j \in 1 .. Len(recent'),
                      i < j
               PROVE  \/ recent'[j] = recent'[i] + (j - i)
                      \/ recent'[j] = recent'[i] + (j - i) - n
    OBVIOUS
  <2>1. /\ i \in Int /\ j \in Int /\ k \in Int
        /\ i + k \in 1 .. Len(s) /\ j + k \in 1 .. Len(s) /\ i + k < j + k
    BY <1>7, <1>8
  <2>2. recent'[i] = s[i + k] /\ recent'[j] = s[j + k]
    BY <1>7
  <2>3. (j + k) - (i + k) = j - i
    BY <2>1
  <2>4. \/ s[j + k] = s[i + k] + ((j + k) - (i + k))
        \/ s[j + k] = s[i + k] + ((j + k) - (i + k)) - n
    BY <1>5, <2>1
  <2>. QED BY <2>2, <2>3, <2>4
<1>12. idx' \in Nat
  BY <1>4, <1>8
<1>. QED BY <1>7, <1>8, <1>9, <1>10, <1>11, <1>12 DEF RoundInv, n

LEMMA RoundStep == RoundInv /\ [Next]_vars => RoundInv'
<1> SUFFICES ASSUME RoundInv, [Next]_vars PROVE RoundInv'
  OBVIOUS
<1>1. ASSUME NEW list \in Lists, UpdateConnector(list) PROVE RoundInv'
  BY <1>1, LookupAssumption DEF UpdateConnector, RoundInv
<1>2. ASSUME NEW c \in Callers, NextConnector(c) PROVE RoundInv'
  <2>1. CASE connectors = <<>>
    BY <1>2, <2>1 DEF NextConnector, RoundInv
  <2>2. CASE connectors # <<>>
    BY <1>2, <2>2, PickKeepsRound DEF NextConnector
  <2>. QED BY <2>1, <2>2
<1>3. ASSUME UNCHANGED <<connectors, idx, recent>> PROVE RoundInv'
  BY <1>3 DEF RoundInv
<1>4. ASSUME NEW c \in Callers,
             \/ Invoke(c) \/ Broadcast(c) \/ FindConnector(c) \/ GetNode(c)
             \/ Answered(c) \/ AttemptFails(c)
      PROVE  UNCHANGED <<connectors, idx, recent>>
  BY <1>4 DEF Invoke, Broadcast, Start, FindConnector, GetNode, Answered,
              AttemptFails
<1>5. CASE UNCHANGED vars
  BY <1>3, <1>5 DEF vars
<1>. QED BY <1>1, <1>2, <1>3, <1>4, <1>5 DEF Next, CallStep

\* While the list stays as it is, as many picks as there are connectors take
\* each of them once, whoever picks.
THEOREM RoundRobinFair == Spec => []NextIsFair
<1>1. Init => RoundInv
  BY DEF Init, RoundInv
<1>2. RoundInv => NextIsFair
  <2> SUFFICES ASSUME RoundInv,
                      NEW i \in 1 .. Len(recent), NEW j \in 1 .. Len(recent),
                      i < j
               PROVE  recent[i] # recent[j]
    <3>1. DOMAIN recent = 1 .. Len(recent)
      BY DEF RoundInv
    <3>. QED BY <3>1 DEF NextIsFair
  <2>1. /\ Len(recent) \in Nat /\ Len(connectors) \in Nat /\ recent[i] \in Nat
        /\ i \in Int /\ j \in Int /\ 1 <= i /\ j <= Len(recent)
    BY DEF RoundInv
  <2>2. Len(recent) <= Len(connectors)
    BY DEF RoundInv
  <2>3. \/ recent[j] = recent[i] + (j - i)
        \/ recent[j] = recent[i] + (j - i) - Len(connectors)
    BY DEF RoundInv
  <2>. QED BY <2>1, <2>2, <2>3
<1>. QED BY <1>1, <1>2, RoundStep, PTL DEF Spec


-----------------------------------------------------------------------------

\* What a call is told when it ends an Invoke, or goes on with its Broadcast.
LEMMA EndKeepsKnown ==
    ASSUME KnownInv, NEW c \in Callers, InProgress(c),
           NEW o \in {"ok", "error", "notFound"}, End(c, o),
           UNCHANGED <<connectors, hasher, tables>>,
           o = "notFound" =>
             TrueOf([by |-> findType[c], addr |-> key[c], outcome |-> o],
                    tables[c])
    PROVE  KnownInv'
<1> DEFINE t == [by |-> findType[c], addr |-> key[c], outcome |-> o]
<1>1. told' = [told EXCEPT ![c] = @ \cup {t}]
  BY DEF End, Tell
<1>2. t \in [by : {"next", "addr", "hash"}, addr : Addrs \cup {None},
             outcome : {"ok", "error", "notFound"}]
  BY DEF KnownInv
<1>3. t.outcome = o
  OBVIOUS
<1>4. o = "notFound" => TrueOf(t, tables[c])
  OBVIOUS
<1> HIDE DEF t
<1>5. told' \in [Callers -> SUBSET [by : {"next", "addr", "hash"},
                                   addr : Addrs \cup {None},
                                   outcome : {"ok", "error", "notFound"}]]
  BY <1>1, <1>2 DEF KnownInv
<1>6. \A d \in Callers : \A u \in told'[d] :
        u.outcome = "notFound" => TrueOf(u, tables[d])
  BY <1>1, <1>3, <1>4 DEF KnownInv
<1>7. /\ at' \in [Callers -> {"idle", "look", "node", "try", "done"}]
      /\ at'[c] \in {"look", "done"}
      /\ \A d \in Callers \ {c} : at'[d] = at[d] /\ told'[d] = told[d] /\ key'[d] = key[d]
  BY <1>1 DEF End, KnownInv
<1>8. /\ key' \in [Callers -> Addrs \cup {None}]
      /\ rest' \in [Callers -> Seq(Addrs)]
  <2>1. rest[c] \in Seq(Addrs)
    BY DEF KnownInv
  <2>2. CASE rest[c] = <<>>
    BY <2>2 DEF End, KnownInv
  <2>3. CASE rest[c] # <<>>
    <3>1. Head(rest[c]) \in Addrs /\ Tail(rest[c]) \in Seq(Addrs)
      BY <2>1, <2>3
    <3>2. /\ key' = [key EXCEPT ![c] = Head(rest[c])]
          /\ rest' = [rest EXCEPT ![c] = Tail(rest[c])]
      BY <2>3 DEF End
    <3>3. key' \in [Callers -> Addrs \cup {None}]
      BY <3>1, <3>2 DEF KnownInv
    <3>4. rest' \in [Callers -> Seq(Addrs)]
      BY <3>1, <3>2 DEF KnownInv
    <3>. QED BY <3>3, <3>4
  <2>. QED BY <2>2, <2>3
<1>9. findType' = findType
  BY DEF End
<1>10. \A d \in Callers :
         /\ at'[d] = "idle" => told'[d] = {}
         /\ InProgress(d)' => Range(connectors) \in tables[d]
         /\ at'[d] = "node" =>
              findType[d] = "hash" /\ \E T \in tables[d] : key'[d] \in T
  <2> TAKE d \in Callers
  <2>1. CASE d = c
    BY <1>7, <2>1 DEF KnownInv, InProgress
  <2>2. CASE d # c
    BY <1>7, <2>2 DEF KnownInv, InProgress
  <2>. QED BY <2>1, <2>2
<1>. QED BY <1>5, <1>6, <1>7, <1>8, <1>9, <1>10 DEF KnownInv, TrueOf

\* A call that goes on with an attempt, or to the next.
LEMMA MoveKeepsKnown ==
    ASSUME KnownInv, NEW c \in Callers, InProgress(c),
           NEW s \in {"look", "try"}, at' = [at EXCEPT ![c] = s],
           findType' \in [Callers -> {"next", "addr", "hash"}],
           \A d \in Callers \ {c} : findType'[d] = findType[d],
           UNCHANGED <<connectors, hasher, tables, key, rest, told>>
    PROVE  KnownInv'
<1>1. /\ at' \in [Callers -> {"idle", "look", "node", "try", "done"}]
      /\ at'[c] \in {"look", "try"}
      /\ \A d \in Callers \ {c} : at'[d] = at[d]
  BY DEF KnownInv
<1>2. \A d \in Callers :
        /\ at'[d] = "idle" => told'[d] = {}
        /\ InProgress(d)' => Range(connectors) \in tables[d]
        /\ at'[d] = "node" =>
             findType'[d] = "hash" /\ \E T \in tables[d] : key[d] \in T
  <2> TAKE d \in Callers
  <2>1. CASE d = c
    BY <1>1, <2>1 DEF KnownInv, InProgress
  <2>2. CASE d # c
    BY <1>1, <2>2 DEF KnownInv, InProgress
  <2>. QED BY <2>1, <2>2
<1>. QED BY <1>1, <1>2 DEF KnownInv, TrueOf

\* A call that found a connector, or did not.
LEMMA ChosenKeepsKnown ==
    ASSUME KnownInv, NEW c \in Callers, InProgress(c), NEW found \in BOOLEAN,
           Chosen(c, found), UNCHANGED <<connectors, hasher, tables>>,
           ~ found =>
             TrueOf([by |-> findType[c], addr |-> key[c],
                     outcome |-> "notFound"], tables[c])
    PROVE  KnownInv'
<1>1. CASE found
  <2>1. /\ at' = [at EXCEPT ![c] = "try"]
        /\ UNCHANGED <<findType, key, rest, told>>
    BY <1>1 DEF Chosen
  <2>2. findType' \in [Callers -> {"next", "addr", "hash"}]
    BY <2>1 DEF KnownInv
  <2>. QED BY <2>1, <2>2, MoveKeepsKnown
<1>2. CASE ~ found
  BY <1>2, EndKeepsKnown DEF Chosen
<1>. QED BY <1>1, <1>2

LEMMA StartKeepsKnown ==
    ASSUME KnownInv, NEW c \in Callers, NEW by \in {"next", "addr", "hash"},
           NEW addr \in Addrs \cup {None}, NEW addrs \in Seq(Addrs),
           Start(c, by, addr, addrs)
    PROVE  KnownInv'
<1>1. Range(connectors) \in SUBSET Addrs
  BY RangeOf DEF KnownInv
<1>2. told[c] = {}
  BY DEF Start, KnownInv
<1>. QED BY <1>1, <1>2 DEF Start, KnownInv, InProgress, TrueOf

LEMMA KnownStep == KnownInv /\ [Next]_vars => KnownInv'
<1> SUFFICES ASSUME KnownInv, [Next]_vars PROVE KnownInv'
  OBVIOUS
<1>1. ASSUME NEW list \in Lists, UpdateConnector(list) PROVE KnownInv'
  <2>1. list \in Seq(Addrs) /\ Range(list) \in SUBSET Addrs
    BY LookupAssumption, RangeOf
  <2>2. /\ connectors' = list /\ hasher' = Range(list)
        /\ UNCHANGED <<at, findType, key, rest, told>>
    BY <1>1 DEF UpdateConnector, Ring, callVars
  <2>3. /\ tables' \in [Callers -> SUBSET SUBSET Addrs]
        /\ \A c \in Callers : tables[c] \subseteq tables'[c]
        /\ \A c \in Callers : InProgress(c) => Range(list) \in tables'[c]
    BY <1>1, <2>1 DEF UpdateConnector, KnownInv
  <2>4. \A c \in Callers :
          /\ at'[c] = "node" =>
               findType'[c] = "hash" /\ \E T \in tables'[c] : key'[c] \in T
          /\ \A t \in told'[c] :
               t.outcome = "notFound" => TrueOf(t, tables'[c])
    BY <2>2, <2>3 DEF KnownInv, TrueOf
  <2>5. \A c \in Callers :
          /\ at'[c] = "idle" => told'[c] = {}
          /\ InProgress(c)' => Range(list) \in tables'[c]
    BY <2>2, <2>3 DEF KnownInv, InProgress
  <2>. QED BY <2>1, <2>2, <2>3, <2>4, <2>5 DEF KnownInv, TrueOf
<1>2. ASSUME NEW c \in Callers, CallStep(c) PROVE KnownInv'
  <2>1. CASE Invoke(c)
    <3>1. ASSUME NEW by \in {"next", "hash"}, Start(c, by, None, <<>>)
          PROVE  KnownInv'
      <4>1. <<>> \in Seq(Addrs) /\ None \in Addrs \cup {None}
        OBVIOUS
      <4>2. by \in {"next", "addr", "hash"}
        OBVIOUS
      <4>. QED BY <3>1, <4>1, <4>2, StartKeepsKnown
    <3>2. ASSUME NEW a \in Addrs, Start(c, "addr", a, <<>>) PROVE KnownInv'
      <4>1. <<>> \in Seq(Addrs) /\ a \in Addrs \cup {None}
        OBVIOUS
      <4>. QED BY <3>2, <4>1, StartKeepsKnown
    <3>. QED BY <2>1, <3>1, <3>2 DEF Invoke
  <2>2. CASE Broadcast(c)
    <3>1. Head(connectors) \in Addrs /\ Tail(connectors) \in Seq(Addrs)
      BY <2>2 DEF Broadcast, KnownInv
    <3>. QED BY <2>2, <3>1, StartKeepsKnown DEF Broadcast
  <2>3. CASE NextConnector(c)
    <3>1. InProgress(c) /\ Range(connectors) \in tables[c]
      BY <2>3 DEF NextConnector, KnownInv, InProgress
    <3>2. connectors = <<>> => {} \in tables[c]
      BY <3>1, RangeOf DEF KnownInv
    <3>. QED BY <2>3, <3>1, <3>2, ChosenKeepsKnown DEF NextConnector, TrueOf
  <2>4. CASE FindConnector(c)
    <3>1. InProgress(c) /\ Range(connectors) \in tables[c]
      BY <2>4 DEF FindConnector, KnownInv, InProgress
    <3>2. /\ findType[c] \in {"addr", "hash"}
          /\ findType[c] = "hash" => \E T \in tables[c] : key[c] \in T
      BY <2>4 DEF FindConnector, KnownInv
    <3> DEFINE found == key[c] \in Range(connectors)
               t == [by |-> findType[c], addr |-> key[c], outcome |-> "notFound"]
    <3>3. Chosen(c, found) /\ UNCHANGED <<connectors, hasher, tables>>
      BY <2>4 DEF FindConnector
    <3>4. found \in BOOLEAN
      OBVIOUS
    <3>5. ~ found => TrueOf(t, tables[c])
      <4>1. t.by = findType[c] /\ t.addr = key[c]
        OBVIOUS
      <4>2. ~ found => key[c] \notin Range(connectors)
        OBVIOUS
      <4> HIDE DEF t, found
      <4>. QED BY <3>1, <3>2, <4>1, <4>2 DEF TrueOf
    <3> HIDE DEF found
    <3>. QED BY <3>1, <3>3, <3>4, <3>5, ChosenKeepsKnown
  <2>5. CASE GetNode(c)
    <3>1. InProgress(c) /\ Range(connectors) \in tables[c]
      BY <2>5 DEF GetNode, KnownInv, InProgress
    <3>2. CASE hasher = {} /\ End(c, "notFound")
      <4>1. {} \in tables[c]
        BY <3>1, <3>2 DEF KnownInv
      <4>. QED BY <2>5, <3>1, <3>2, <4>1, EndKeepsKnown DEF GetNode, TrueOf
    <3>3. ASSUME NEW a \in hasher, key' = [key EXCEPT ![c] = a],
                 at' = [at EXCEPT ![c] = "node"],
                 UNCHANGED <<findType, tries, rest, told>>
          PROVE  KnownInv'
      <4>1. a \in Addrs /\ \E T \in tables[c] : a \in T
        BY <3>1, <3>3, RangeOf DEF KnownInv
      <4>2. findType[c] = "hash" /\ UNCHANGED <<connectors, hasher, tables>>
        BY <2>5 DEF GetNode
      <4>. QED BY <3>1, <3>3, <4>1, <4>2 DEF KnownInv, InProgress, TrueOf
    <3>. QED BY <2>5, <3>2, <3>3 DEF GetNode
  <2>6. CASE Answered(c)
    <3>1. InProgress(c)
      BY <2>6 DEF Answered, InProgress
    <3>. QED BY <2>6, <3>1, EndKeepsKnown DEF Answered
  <2>7. CASE AttemptFails(c)
    <3>1. InProgress(c)
      BY <2>7 DEF AttemptFails, InProgress
    <3>2. CASE tries[c] + 1 = TryTime
      BY <2>7, <3>1, <3>2, EndKeepsKnown DEF AttemptFails
    <3>3. CASE tries[c] + 1 # TryTime
      <4>1. /\ at' = [at EXCEPT ![c] = "look"]
            /\ findType' = [findType EXCEPT
                 ![c] = IF @ = "addr" THEN @ ELSE "next"]
            /\ UNCHANGED <<connectors, hasher, tables, key, rest, told>>
        BY <2>7, <3>3 DEF AttemptFails
      <4>2. /\ findType' \in [Callers -> {"next", "addr", "hash"}]
            /\ \A d \in Callers \ {c} : findType'[d] = findType[d]
        BY <4>1 DEF KnownInv
      <4>. QED BY <3>1, <4>1, <4>2, MoveKeepsKnown
    <3>. QED BY <3>2, <3>3
  <2>. QED BY <1>2, <2>1, <2>2, <2>3, <2>4, <2>5, <2>6, <2>7 DEF CallStep
<1>3. CASE UNCHANGED vars
  BY <1>3 DEF vars, callVars, KnownInv, InProgress, TrueOf
<1>. QED BY <1>1, <1>2, <1>3 DEF Next

LEMMA KnownInit == Init => KnownInv
<1> SUFFICES ASSUME Init PROVE KnownInv
  OBVIOUS
<1>1. Range(<<>>) = {}
  BY DEF Range
<1>. QED BY <1>1 DEF Init, KnownInv, InProgress, TrueOf

\* ErrConnectNotFound is true: during the call the list was empty or lacked
\* the address, and a node the hash gave was listed at another moment of it.
THEOREM NotFoundIsTold == Spec => []NotFoundIsTrue
<1>1. KnownInv => NotFoundIsTrue
  BY DEF KnownInv, NotFoundIsTrue, TrueOf
<1>. QED BY <1>1, KnownInit, KnownStep, PTL DEF Spec


-----------------------------------------------------------------------------
(* Broadcast.                                                              *)

\* A Broadcast of the addresses s that was told T has finished the calls of
\* the first n.
ToldOf(T, s, n) ==
    /\ {t.addr : t \in T} = {s[i] : i \in 1 .. n}
    /\ \A t, u \in T :
         t # u /\ t.addr = u.addr =>
             \E i, j \in 1 .. n : i # j /\ s[i] = t.addr /\ s[j] = t.addr

\* It is in the n-th call: what is left to call are the addresses after it.
InCall(c, n) ==
    /\ findType[c] = "addr"
    /\ key[c] = listed[c][n]
    /\ Len(rest[c]) = Len(listed[c]) - n
    /\ \A i \in 1 .. Len(rest[c]) : rest[c][i] = listed[c][n + i]
    /\ ToldOf(told[c], listed[c], n - 1)

ProgressInv(c) ==
    /\ at[c] = "idle" => listed[c] = <<>>
    /\ listed[c] # <<>> =>
         /\ at[c] = "done" => ToldOf(told[c], listed[c], Len(listed[c]))
         /\ InProgress(c) => \E n \in 1 .. Len(listed[c]) : InCall(c, n)

BroadcastInv ==
    /\ listed \in [Callers -> Seq(Addrs)]
    /\ \A c \in Callers : ProgressInv(c)

LEMMA ToldNothing == ASSUME NEW s PROVE ToldOf({}, s, 0)
  BY DEF ToldOf

\* One more call is told of.
LEMMA ToldOneMore ==
    ASSUME NEW T, NEW s, NEW n \in Nat, n > 0, ToldOf(T, s, n - 1),
           NEW t, t.addr = s[n]
    PROVE  ToldOf(T \cup {t}, s, n)
<1>1. 1 .. n = (1 .. n - 1) \cup {n} /\ n \notin 1 .. n - 1
  OBVIOUS
<1>2. {u.addr : u \in T \cup {t}} = {s[i] : i \in 1 .. n}
  <2>1. {u.addr : u \in T \cup {t}} = {u.addr : u \in T} \cup {s[n]}
    OBVIOUS
  <2>2. {s[i] : i \in 1 .. n} = {s[i] : i \in 1 .. n - 1} \cup {s[n]}
    BY <1>1
  <2>. QED BY <2>1, <2>2 DEF ToldOf
<1>3. ASSUME NEW u \in T, u.addr = t.addr
      PROVE  \E i \in 1 .. n - 1 : s[i] = s[n]
  BY <1>3 DEF ToldOf
<1>4. ASSUME NEW u \in T \cup {t}, NEW v \in T \cup {t}, u # v,
             u.addr = v.addr
      PROVE  \E i, j \in 1 .. n : i # j /\ s[i] = u.addr /\ s[j] = u.addr
  <2>1. CASE u \in T /\ v \in T
    <3>1. PICK i \in 1 .. n - 1, j \in 1 .. n - 1 :
            i # j /\ s[i] = u.addr /\ s[j] = u.addr
      BY <1>4, <2>1 DEF ToldOf
    <3>. QED BY <1>1, <3>1
  <2>2. CASE u = t \/ v = t
    <3>1. PICK i \in 1 .. n - 1 : s[i] = s[n]
      BY <1>3, <1>4, <2>2
    <3>2. i # n /\ i \in 1 .. n /\ n \in 1 .. n /\ u.addr = s[n]
      BY <1>1, <1>4, <2>2
    <3>. QED BY <3>1, <3>2
  <2>. QED BY <1>4, <2>1, <2>2
<1>. QED BY <1>2, <1>4 DEF ToldOf

\* What a caller has not done itself does not change its Broadcast.
LEMMA ProgressFrame ==
    ASSUME NEW c, ProgressInv(c), at'[c] = at[c], findType'[c] = findType[c],
           key'[c] = key[c], rest'[c] = rest[c], told'[c] = told[c],
           listed'[c] = listed[c]
    PROVE  ProgressInv(c)'
<1>1. InProgress(c)' <=> InProgress(c)
  BY DEF InProgress
<1>2. ASSUME NEW n, InCall(c, n) PROVE InCall(c, n)'
  BY <1>2 DEF InCall
<1>. QED BY <1>1, <1>2 DEF ProgressInv

LEMMA OthersProgress ==
    ASSUME KnownInv, BroadcastInv, NEW c \in Callers, ProgressInv(c)',
           listed' \in [Callers -> Seq(Addrs)],
           \A d \in Callers \ {c} :
             /\ at'[d] = at[d] /\ findType'[d] = findType[d]
             /\ key'[d] = key[d] /\ rest'[d] = rest[d] /\ told'[d] = told[d]
             /\ listed'[d] = listed[d]
    PROVE  BroadcastInv'
<1> SUFFICES ASSUME NEW d \in Callers PROVE ProgressInv(d)'
  BY DEF BroadcastInv
<1>1. CASE d = c
  BY <1>1
<1>2. CASE d # c
  BY <1>2, ProgressFrame DEF BroadcastInv
<1>. QED BY <1>1, <1>2

\* An Invoke of a Broadcast returns: the next address is called, or it ends.
LEMMA EndProgress ==
    ASSUME KnownInv, BroadcastInv, NEW c \in Callers, InProgress(c), NEW o,
           End(c, o), UNCHANGED listed
    PROVE  BroadcastInv'
<1> DEFINE t == [by |-> findType[c], addr |-> key[c], outcome |-> o]
<1>1. /\ told' = [told EXCEPT ![c] = @ \cup {t}] /\ t.addr = key[c]
      /\ findType' = findType
  BY DEF End, Tell
<1> HIDE DEF t
<1>2. told'[c] = told[c] \cup {t}
  BY <1>1 DEF KnownInv
<1>3. /\ rest[c] \in Seq(Addrs) /\ listed[c] \in Seq(Addrs)
      /\ Len(rest[c]) \in Nat /\ Len(listed[c]) \in Nat
  BY DEF KnownInv, BroadcastInv
<1>4. \A d \in Callers \ {c} :
        /\ at'[d] = at[d] /\ findType'[d] = findType[d]
        /\ key'[d] = key[d] /\ rest'[d] = rest[d] /\ told'[d] = told[d]
        /\ listed'[d] = listed[d]
  BY <1>1 DEF End, KnownInv
<1>5. at'[c] # "idle"
  BY DEF End, KnownInv
<1>6. ASSUME listed[c] # <<>>
      PROVE  /\ at'[c] = "done" => ToldOf(told'[c], listed[c], Len(listed[c]))
             /\ InProgress(c)' => \E n \in 1 .. Len(listed[c]) : InCall(c, n)'
  <2>1. PICK n \in 1 .. Len(listed[c]) : InCall(c, n)
    BY <1>6 DEF BroadcastInv, ProgressInv
  <2>2. n \in Nat /\ n > 0 /\ Len(listed[c]) = n + Len(rest[c])
    BY <1>3, <2>1 DEF InCall
  <2>3. ToldOf(told'[c], listed[c], n)
    <3>1. ToldOf(told[c], listed[c], n - 1) /\ t.addr = listed[c][n]
      BY <1>1, <2>1 DEF InCall
    <3>. QED BY ONLY <1>2, <2>2, <3>1, ToldOneMore
  <2>4. CASE rest[c] = <<>>
    <3>1. n = Len(listed[c])
      BY <2>2, <2>4
    <3>2. at'[c] = "done"
      BY <2>4 DEF End, KnownInv
    <3>. QED BY <2>3, <3>1, <3>2 DEF InProgress
  <2>5. CASE rest[c] # <<>>
    <3>1. /\ at'[c] = "look" /\ key'[c] = Head(rest[c])
          /\ rest'[c] = Tail(rest[c])
      BY <2>5 DEF End, KnownInv
    <3>2. /\ Len(rest[c]) > 0 /\ Head(rest[c]) = rest[c][1]
          /\ Len(Tail(rest[c])) = Len(rest[c]) - 1
          /\ \A i \in 1 .. Len(rest[c]) - 1 : Tail(rest[c])[i] = rest[c][i + 1]
      BY <1>3, <2>5
    <3>3. n + 1 \in 1 .. Len(listed[c])
      BY <1>3, <2>2, <3>2
    <3>4. key'[c] = listed[c][n + 1]
      <4>1. 1 \in 1 .. Len(rest[c])
        BY <1>3, <3>2
      <4>. QED BY <2>1, <3>1, <3>2, <4>1 DEF InCall
    <3>5. ASSUME NEW i \in 1 .. Len(rest'[c])
          PROVE  rest'[c][i] = listed[c][n + 1 + i]
      <4>1. /\ i \in 1 .. Len(rest[c]) - 1 /\ i + 1 \in 1 .. Len(rest[c])
            /\ n + (i + 1) = n + 1 + i
        BY <1>3, <2>2, <3>1, <3>2, <3>5
      <4>. QED BY <2>1, <3>1, <3>2, <4>1 DEF InCall
    <3>6. Len(rest'[c]) = Len(listed[c]) - (n + 1)
      BY <1>3, <2>2, <3>1, <3>2
    <3>7. ToldOf(told'[c], listed[c], (n + 1) - 1)
      <4>1. (n + 1) - 1 = n
        BY <2>2
      <4>. QED BY <2>3, <4>1
    <3>8. findType'[c] = "addr"
      BY <1>1, <2>1 DEF InCall
    <3>9. InCall(c, n + 1)'
      BY <3>4, <3>5, <3>6, <3>7, <3>8 DEF InCall
    <3>. QED BY <3>1, <3>3, <3>9
  <2>. QED BY <2>4, <2>5
<1>7. ProgressInv(c)'
  BY <1>5, <1>6 DEF ProgressInv
<1>8. listed' \in [Callers -> Seq(Addrs)]
  BY DEF BroadcastInv
<1>. QED BY <1>4, <1>7, <1>8, OthersProgress

\* A call that goes on with an attempt stays in the same call of its Broadcast.
LEMMA MoveProgress ==
    ASSUME KnownInv, BroadcastInv, NEW c \in Callers, InProgress(c),
           NEW s \in {"look", "node", "try"}, at' = [at EXCEPT ![c] = s],
           findType[c] = "addr" => findType' = findType /\ key' = key,
           \A d \in Callers \ {c} :
             findType'[d] = findType[d] /\ key'[d] = key[d],
           UNCHANGED <<rest, told, listed>>
    PROVE  BroadcastInv'
<1>1. at'[c] = s /\ \A d \in Callers \ {c} : at'[d] = at[d]
  BY DEF KnownInv
<1>2. ASSUME listed[c] # <<>>
      PROVE  \E n \in 1 .. Len(listed[c]) : InCall(c, n)'
  <2>1. PICK n \in 1 .. Len(listed[c]) : InCall(c, n)
    BY <1>2 DEF BroadcastInv, ProgressInv
  <2>2. InCall(c, n)'
    BY <2>1 DEF InCall
  <2>. QED BY <2>2
<1>3. ProgressInv(c)'
  BY <1>1, <1>2 DEF ProgressInv
<1>4. listed' \in [Callers -> Seq(Addrs)]
  BY DEF BroadcastInv
<1>. QED BY <1>1, <1>3, <1>4, OthersProgress

LEMMA ChosenProgress ==
    ASSUME KnownInv, BroadcastInv, NEW c \in Callers, InProgress(c),
           NEW found \in BOOLEAN, Chosen(c, found), UNCHANGED listed
    PROVE  BroadcastInv'
<1>1. CASE found
  BY <1>1, MoveProgress DEF Chosen
<1>2. CASE ~ found
  BY <1>2, EndProgress DEF Chosen
<1>. QED BY <1>1, <1>2

LEMMA BroadcastBegins ==
    ASSUME KnownInv, BroadcastInv, NEW c \in Callers, Broadcast(c)
    PROVE  BroadcastInv'
<1>1. /\ at[c] = "idle" /\ connectors # <<>> /\ told' = told
      /\ at' = [at EXCEPT ![c] = "look"]
      /\ findType' = [findType EXCEPT ![c] = "addr"]
      /\ key' = [key EXCEPT ![c] = Head(connectors)]
      /\ rest' = [rest EXCEPT ![c] = Tail(connectors)]
      /\ listed' = [listed EXCEPT ![c] = connectors]
  BY DEF Broadcast, Start
<1>2. /\ at'[c] = "look" /\ findType'[c] = "addr"
      /\ key'[c] = Head(connectors) /\ rest'[c] = Tail(connectors)
      /\ listed'[c] = connectors /\ told'[c] = {}
  BY <1>1 DEF KnownInv, BroadcastInv
<1>3. /\ connectors \in Seq(Addrs) /\ Len(connectors) \in Nat
      /\ Len(connectors) > 0 /\ Head(connectors) = connectors[1]
      /\ Len(Tail(connectors)) = Len(connectors) - 1
      /\ \A i \in 1 .. Len(connectors) - 1 :
           Tail(connectors)[i] = connectors[i + 1]
  BY <1>1 DEF KnownInv
<1>4. \A i \in 1 .. Len(rest'[c]) : rest'[c][i] = connectors[1 + i]
  BY <1>2, <1>3
<1>5. InCall(c, 1)'
  BY <1>2, <1>3, <1>4, ToldNothing DEF InCall
<1>6. 1 \in 1 .. Len(listed'[c])
  BY <1>2, <1>3
<1>7. ProgressInv(c)'
  BY <1>2, <1>5, <1>6 DEF ProgressInv
<1>8. listed' \in [Callers -> Seq(Addrs)]
  BY <1>1, <1>3 DEF BroadcastInv
<1>9. \A d \in Callers \ {c} :
        /\ at'[d] = at[d] /\ findType'[d] = findType[d]
        /\ key'[d] = key[d] /\ rest'[d] = rest[d] /\ told'[d] = told[d]
        /\ listed'[d] = listed[d]
  BY <1>1 DEF KnownInv, BroadcastInv
<1>. QED BY <1>7, <1>8, <1>9, OthersProgress

LEMMA BroadcastStep ==
    KnownInv /\ BroadcastInv /\ [Next]_vars => BroadcastInv'
<1> SUFFICES ASSUME KnownInv, BroadcastInv, [Next]_vars PROVE BroadcastInv'
  OBVIOUS
<1>1. ASSUME UNCHANGED callVars PROVE BroadcastInv'
  BY <1>1, ProgressFrame DEF callVars, BroadcastInv
<1>2. ASSUME NEW list \in Lists, UpdateConnector(list) PROVE BroadcastInv'
  BY <1>1, <1>2 DEF UpdateConnector
<1>3. ASSUME NEW c \in Callers, CallStep(c) PROVE BroadcastInv'
  <2>1. CASE Invoke(c)
    <3>1. /\ at[c] = "idle" /\ at' = [at EXCEPT ![c] = "look"]
          /\ listed' = listed /\ told' = told
          /\ \A d \in Callers \ {c} :
               /\ findType'[d] = findType[d]
               /\ key'[d] = key[d] /\ rest'[d] = rest[d]
      BY <2>1 DEF Invoke, Start, KnownInv
    <3>2. /\ \A d \in Callers \ {c} : at'[d] = at[d]
          /\ at'[c] = "look" /\ listed'[c] = <<>>
      BY <3>1 DEF KnownInv, BroadcastInv, ProgressInv
    <3>3. ProgressInv(c)'
      BY <3>2 DEF ProgressInv
    <3>. QED BY <3>1, <3>2, <3>3, OthersProgress DEF BroadcastInv
  <2>2. CASE Broadcast(c)
    BY <2>2, BroadcastBegins
  <2>3. CASE NextConnector(c)
    <3>1. InProgress(c) /\ listed' = listed /\ (connectors # <<>>) \in BOOLEAN
      BY <2>3 DEF NextConnector, InProgress
    <3>. QED BY <2>3, <3>1, ChosenProgress DEF NextConnector
  <2>4. CASE FindConnector(c)
    <3>1. /\ InProgress(c) /\ listed' = listed
          /\ (key[c] \in Range(connectors)) \in BOOLEAN
      BY <2>4 DEF FindConnector, InProgress
    <3>. QED BY <2>4, <3>1, ChosenProgress DEF FindConnector
  <2>5. CASE GetNode(c)
    <3>1. InProgress(c) /\ findType[c] = "hash" /\ listed' = listed
      BY <2>5 DEF GetNode, InProgress
    <3>2. CASE End(c, "notFound")
      BY <3>1, <3>2, EndProgress
    <3>3. ASSUME NEW a, key' = [key EXCEPT ![c] = a],
                 at' = [at EXCEPT ![c] = "node"],
                 UNCHANGED <<findType, tries, rest, told>>
          PROVE  BroadcastInv'
      <4>1. \A d \in Callers \ {c} : key'[d] = key[d]
        BY <3>3 DEF KnownInv
      <4>. QED BY <3>1, <3>3, <4>1, MoveProgress
    <3>. QED BY <2>5, <3>2, <3>3 DEF GetNode
  <2>6. CASE Answered(c)
    BY <2>6, EndProgress DEF Answered, InProgress
  <2>7. CASE AttemptFails(c)
    <3>1. InProgress(c) /\ listed' = listed
      BY <2>7 DEF AttemptFails, InProgress
    <3>2. CASE tries[c] + 1 = TryTime
      BY <2>7, <3>1, <3>2, EndProgress DEF AttemptFails
    <3>3. CASE tries[c] + 1 # TryTime
      <4>1. /\ at' = [at EXCEPT ![c] = "look"]
            /\ findType' = [findType EXCEPT
                 ![c] = IF @ = "addr" THEN @ ELSE "next"]
            /\ UNCHANGED <<key, rest, told>>
        BY <2>7, <3>3 DEF AttemptFails
      <4>2. /\ findType[c] = "addr" => findType' = findType
            /\ \A d \in Callers \ {c} : findType'[d] = findType[d]
        BY <4>1 DEF KnownInv
      <4>. QED BY <3>1, <4>1, <4>2, MoveProgress
    <3>. QED BY <3>2, <3>3
  <2>. QED BY <1>3, <2>1, <2>2, <2>3, <2>4, <2>5, <2>6, <2>7 DEF CallStep
<1>4. CASE UNCHANGED vars
  BY <1>1, <1>4 DEF vars
<1>. QED BY <1>2, <1>3, <1>4 DEF Next

\* A Broadcast that ends has a response or an error for every address that was
\* listed when it began, and both only for one that was listed twice, whatever
\* updateConnector and the other callers do meanwhile.
THEOREM BroadcastAnswersAll == Spec => []BroadcastComplete
<1>2. Init => BroadcastInv
  BY DEF Init, BroadcastInv, ProgressInv, InProgress
<1>3. KnownInv /\ BroadcastInv => BroadcastComplete
  <2> SUFFICES ASSUME KnownInv, BroadcastInv, NEW c \in Callers,
                      at[c] = "done", listed[c] # <<>>
               PROVE  /\ {t.addr : t \in told[c]} = Range(listed[c])
                      /\ \A t, u \in told[c] :
                           t # u /\ t.addr = u.addr =>
                             \E i, j \in DOMAIN listed[c] :
                               /\ i # j /\ listed[c][i] = t.addr
                               /\ listed[c][j] = t.addr
    BY DEF BroadcastComplete
  <2>1. DOMAIN listed[c] = 1 .. Len(listed[c])
    BY DEF BroadcastInv
  <2>2. ToldOf(told[c], listed[c], Len(listed[c]))
    BY DEF BroadcastInv, ProgressInv
  <2>3. Range(listed[c]) = {listed[c][i] : i \in 1 .. Len(listed[c])}
    BY <2>1 DEF Range
  <2>. QED BY <2>1, <2>2, <2>3 DEF ToldOf
<1>. QED BY <1>2, <1>3, KnownInit, KnownStep, BroadcastStep, PTL DEF Spec

=============================================================================
