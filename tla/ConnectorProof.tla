--------------------------- MODULE ConnectorProof ---------------------------
(***************************************************************************)
(* Proofs about Connector, for any number of senders and dials, any limit  *)
(* of the pool, with and without expiry: its pool stays within the limit,  *)
(* a running connection is read, an open socket has a reader, and none is  *)
(* closed without a cause; and about Framing, for any sizes and any number *)
(* of packets: the reader of a connection hands its messages over whole    *)
(* and in order.                                                           *)
(***************************************************************************)
EXTENDS Connector, Framing, FiniteSetTheorems, SequenceTheorems, TLAPS

-----------------------------------------------------------------------------
(* The loop of removeConn.                                                 *)

\* Induction over Nat, for a set: a set of naturals without a smallest element
\* is empty, because the intervals 0 .. n are finite.
LEMMA NatSetInduction ==
  ASSUME NEW T, 0 \in T, \A n \in Nat : n \in T => n + 1 \in T
  PROVE  Nat \subseteq T
<1> DEFINE F == {0 .. n : n \in Nat \ T}
<1>1. SUFFICES ASSUME Nat \ T # {} PROVE FALSE
  OBVIOUS
<1>2. F \subseteq FiniteSubsetsOf(Nat)
  <2>1. \A n \in Nat : 0 .. n \subseteq Nat
    BY SMT
  <2>2. \A n \in Nat : IsFiniteSet(0 .. n)
    BY FS_Interval
  <2>. QED BY <2>1, <2>2 DEF FiniteSubsetsOf
<1>3. F # {}
  BY <1>1
<1>4. \E X \in F : \A Y \in F : <<Y, X>> \notin StrictSubsetOrdering(Nat)
  <2> HIDE DEF F
  <2>. QED BY <1>2, <1>3, FS_StrictSubsetOrderingWellFounded, WFMin
<1>5. PICK m \in Nat \ T :
        \A Y \in F : <<Y, 0 .. m>> \notin StrictSubsetOrdering(Nat)
  BY <1>4
<1>6. m # 0 /\ m - 1 \in Nat /\ m - 1 \notin T
  <2>1. m # 0 /\ m - 1 \in Nat /\ (m - 1) + 1 = m
    BY <1>5
  <2>. QED BY <1>5, <2>1
<1>7. /\ 0 .. m - 1 \in SUBSET Nat
      /\ 0 .. m \in SUBSET Nat
      /\ 0 .. m - 1 \subseteq 0 .. m
      /\ 0 .. m - 1 # 0 .. m
  <2>1. m \in 0 .. m /\ m \notin 0 .. m - 1
    BY <1>6
  <2>. QED BY <1>6, <2>1
<1>8. <<0 .. m - 1, 0 .. m>> \in StrictSubsetOrdering(Nat)
  BY ONLY Zenon, <1>7 DEF StrictSubsetOrdering
<1>. QED BY <1>5, <1>6, <1>8

\* g[n] is what the loop of removeConn has kept of s after n elements.
IsKept(g, s, k, l) ==
    /\ g = [n \in 0 .. l |-> g[n]]
    /\ g[0] = <<>>
    /\ \A n \in 1 .. l :
         g[n] = IF s[n] = k THEN g[n - 1] ELSE Append(g[n - 1], s[n])

\* The recursion is well founded: there is such a function.
LEMMA FilterExists ==
  ASSUME NEW s, NEW k, NEW l \in Nat
  PROVE  \E g : IsKept(g, s, k, l)
<1> DEFINE Step(g, n) == IF s[n] = k THEN g[n - 1] ELSE Append(g[n - 1], s[n])
           Fits(g, m) == /\ g = [n \in 0 .. m |-> g[n]]
                         /\ g[0] = <<>>
                         /\ \A n \in 1 .. m : g[n] = Step(g, n)
           T == {m \in Nat : \E g : Fits(g, m)}
<1>1. 0 \in T
  <2>1. Fits([n \in 0 .. 0 |-> <<>>], 0)
    OBVIOUS
  <2>. QED BY <2>1
<1>2. ASSUME NEW m \in Nat, m \in T PROVE m + 1 \in T
  <2>1. PICK g : Fits(g, m)
    BY <1>2
  <2> DEFINE h == [n \in 0 .. m + 1 |-> IF n <= m THEN g[n] ELSE Step(g, n)]
  <2>2. ASSUME NEW n \in 1 .. m + 1
        PROVE  h[n] = Step(h, n)
    <3>1. n - 1 \in 0 .. m /\ n - 1 \in 0 .. m + 1
      BY <2>2
    <3>2. h[n - 1] = g[n - 1]
      BY <3>1
    <3>3. Step(h, n) = Step(g, n)
      BY <3>2
    <3>4. n <= m => g[n] = Step(g, n)
      <4>1. n <= m => n \in 1 .. m
        BY <2>2
      <4>. QED BY <2>1, <4>1
    <3>. QED BY <3>3, <3>4
  <2>3. h[0] = <<>>
    <3>1. 0 \in 0 .. m + 1 /\ 0 <= m
      OBVIOUS
    <3>. QED BY <2>1, <3>1
  <2>4. h = [n \in 0 .. m + 1 |-> h[n]]
    OBVIOUS
  <2>5. Fits(h, m + 1)
    <3> HIDE DEF h, Step
    <3>. QED BY <2>2, <2>3, <2>4
  <2> HIDE DEF h
  <2>. QED BY <2>5
<1>3. l \in T
  <2> HIDE DEF T
  <2>. QED BY <1>1, <1>2, NatSetInduction
<1>. QED BY <1>3 DEF IsKept

\* Without is the last value of that function.
LEMMA WithoutIsFilter ==
  ASSUME NEW S, conns \in Seq(S), NEW k
  PROVE  \E g : /\ IsKept(g, conns, k, Len(conns))
                /\ Without(k) = g[Len(conns)]
<1> DEFINE Loop(g) == [n \in 0 .. Len(conns) |->
                         IF n = 0 THEN <<>>
                         ELSE IF conns[n] = k THEN g[n - 1]
                         ELSE Append(g[n - 1], conns[n])]
           kept == CHOOSE g : g = Loop(g)
<1>1. Len(conns) \in Nat
  OBVIOUS
<1>2. \E g : g = Loop(g)
  <2>1. PICK g : IsKept(g, conns, k, Len(conns))
    BY <1>1, FilterExists
  <2>2. \A n \in 0 .. Len(conns) : n = 0 \/ n \in 1 .. Len(conns)
    BY <1>1
  <2>. QED BY <2>1, <2>2 DEF IsKept
<1>3. kept = Loop(kept)
  <2> HIDE DEF Loop
  <2>. QED BY <1>2
<1>4. Without(k) = kept[Len(conns)]
  BY DEF Without
<1> HIDE DEF kept
<1>5. kept[0] = <<>>
  BY <1>1, <1>3
<1>6. \A n \in 1 .. Len(conns) :
        kept[n] = IF conns[n] = k THEN kept[n - 1]
                  ELSE Append(kept[n - 1], conns[n])
  <2>1. \A n \in 1 .. Len(conns) : n \in 0 .. Len(conns) /\ n # 0
    BY <1>1
  <2>. QED BY Zenon, <1>3, <2>1
<1>7. kept = [n \in 0 .. Len(conns) |-> kept[n]]
  BY <1>3
<1>. QED BY <1>4, <1>5, <1>6, <1>7 DEF IsKept

\* No connection twice.
Distinct(s) == \A i, j \in 1 .. Len(s) : s[i] = s[j] => i = j

\* What the loop has kept after n elements: some of them, in order.
LEMMA KeptFacts ==
  ASSUME NEW S, NEW s \in Seq(S), NEW k, NEW g, IsKept(g, s, k, Len(s)),
         NEW n \in 0 .. Len(s)
  PROVE  /\ g[n] \in Seq(S)
         /\ Len(g[n]) <= n
         /\ \A i \in 1 .. Len(g[n]) : \E j \in 1 .. n : g[n][i] = s[j]
         /\ \A i \in 1 .. Len(g[n]) : g[n][i] # k
         /\ Distinct(s) => Distinct(g[n])
<1> DEFINE P(m) == /\ g[m] \in Seq(S)
                   /\ Len(g[m]) <= m
                   /\ \A i \in 1 .. Len(g[m]) :
                        \E j \in 1 .. m : g[m][i] = s[j]
                   /\ \A i \in 1 .. Len(g[m]) : g[m][i] # k
                   /\ Distinct(s) => Distinct(g[m])
           T == {m \in Nat : m <= Len(s) => P(m)}
<1>0. Len(s) \in Nat
  OBVIOUS
<1>1. 0 \in T
  <2>1. g[0] = <<>>
    BY DEF IsKept
  <2>2. P(0)
    BY <2>1, EmptySeq DEF Distinct
  <2>. QED BY <2>2
<1>2. ASSUME NEW m \in Nat, m \in T PROVE m + 1 \in T
  <2>1. SUFFICES ASSUME m + 1 <= Len(s) PROVE P(m + 1)
    <3> HIDE DEF P
    <3>. QED OBVIOUS
  <2>2. P(m)
    BY <1>0, <1>2, <2>1
  <2>3. m + 1 \in 1 .. Len(s) /\ s[m + 1] \in S
    BY <1>0, <2>1
  <2>4. g[m + 1] = IF s[m + 1] = k THEN g[m] ELSE Append(g[m], s[m + 1])
    <3>1. (m + 1) - 1 = m
      OBVIOUS
    <3>. QED BY <2>3, <3>1 DEF IsKept
  <2>5. Len(g[m]) \in Nat /\ Len(g[m]) <= m
    BY <2>2
  <2>6. \A i \in 1 .. Len(g[m]) : \E j \in 1 .. m + 1 : g[m][i] = s[j]
    <3>1. \A j \in 1 .. m : j \in 1 .. m + 1
      OBVIOUS
    <3>. QED BY <2>2, <3>1
  <2>7. CASE s[m + 1] = k
    <3>1. g[m + 1] = g[m]
      BY <2>7, <2>4
    <3>2. Len(g[m]) <= m + 1
      BY <2>5
    <3>. QED BY ONLY <2>2, <2>6, <3>1, <3>2
  <2>8. CASE s[m + 1] # k
    <3>1. g[m + 1] = Append(g[m], s[m + 1])
      BY <2>8, <2>4
    <3>2. /\ g[m + 1] \in Seq(S)
          /\ Len(g[m]) \in Nat
          /\ Len(g[m + 1]) = Len(g[m]) + 1
          /\ \A i \in 1 .. Len(g[m]) : g[m + 1][i] = g[m][i]
          /\ g[m + 1][Len(g[m]) + 1] = s[m + 1]
      BY <2>2, <2>3, <3>1, AppendProperties
    <3>3. \A i \in 1 .. Len(g[m + 1]) :
            i \in 1 .. Len(g[m]) \/ i = Len(g[m]) + 1
      BY <3>2
    <3>4. \A i \in 1 .. Len(g[m + 1]) : \E j \in 1 .. m + 1 :
            g[m + 1][i] = s[j]
      <4>1. m + 1 \in 1 .. m + 1
        OBVIOUS
      <4>. QED BY ONLY <2>6, <3>2, <3>3, <4>1
    <3>5. ASSUME Distinct(s) PROVE Distinct(g[m + 1])
      <4>1. \A i \in 1 .. Len(g[m]) : g[m][i] # s[m + 1]
        <5>1. SUFFICES ASSUME NEW i \in 1 .. Len(g[m]), g[m][i] = s[m + 1]
                       PROVE  FALSE
          OBVIOUS
        <5>2. PICK j \in 1 .. m : g[m][i] = s[j]
          BY <2>2
        <5>3. j \in 1 .. Len(s) /\ j # m + 1
          BY <1>0, <2>1
        <5>. QED BY <2>3, <3>5, <5>1, <5>2, <5>3 DEF Distinct
      <4>2. Distinct(g[m])
        BY <2>2, <3>5
      <4>. QED BY <3>2, <3>3, <4>1, <4>2 DEF Distinct
    <3>6. \A i \in 1 .. Len(g[m + 1]) : g[m + 1][i] # k
      BY <2>2, <2>8, <3>2, <3>3
    <3>. QED BY <2>2, <3>2, <3>4, <3>5, <3>6
  <2>. QED BY <2>7, <2>8
<1>3. n \in T
  <2> HIDE DEF T
  <2>. QED BY <1>0, <1>1, <1>2, NatSetInduction
<1>. QED BY <1>0, <1>3

\* removeConn leaves some of the connections of the pool, none twice, and not
\* the one it removes.
LEMMA WithoutFacts ==
  ASSUME NEW S, conns \in Seq(S), NEW k
  PROVE  /\ Without(k) \in Seq(S)
         /\ Len(Without(k)) <= Len(conns)
         /\ \A i \in 1 .. Len(Without(k)) : \E j \in 1 .. Len(conns) :
              Without(k)[i] = conns[j]
         /\ \A i \in 1 .. Len(Without(k)) : Without(k)[i] # k
         /\ Distinct(conns) => Distinct(Without(k))
<1>1. PICK g : /\ IsKept(g, conns, k, Len(conns))
               /\ Without(k) = g[Len(conns)]
  BY WithoutIsFilter
<1>2. Len(conns) \in 0 .. Len(conns)
  BY LenProperties
<1>. QED BY <1>1, <1>2, KeptFacts

\* The old array with the length of the new one.
LEMMA FrontFacts ==
  ASSUME NEW S, NEW s \in Seq(S)
  PROVE  /\ Front(s) \in Seq(S)
         /\ \A i \in 1 .. Len(Front(s)) :
              i \in 1 .. Len(s) /\ Front(s)[i] = s[i]
<1>1. Len(s) \in Nat /\ \A i \in 1 .. Len(s) : s[i] \in S
  OBVIOUS
<1>2. \A i \in 1 .. Len(s) - 1 : i \in 1 .. Len(s)
  BY <1>1
<1>3. /\ Front(s) \in Seq(S)
      /\ Len(Front(s)) = IF 1 <= Len(s) - 1 THEN (Len(s) - 1) - 1 + 1 ELSE 0
      /\ \A i \in 1 .. (Len(s) - 1) - 1 + 1 : Front(s)[i] = s[1 + i - 1]
  BY <1>1, <1>2, SubSeqProperties DEF Front
<1>. QED BY <1>1, <1>3

-----------------------------------------------------------------------------
(* The pool grows.                                                         *)

\* The old connections keep their places, the new ones come after them.
LEMMA GrownFacts ==
  ASSUME conns \in Seq(ConnIds), nextId \in Nat, MaxDials \in Nat,
         NEW n \in Nat, nextId + n <= MaxDials
  PROVE  /\ Grown(n) \in Seq(ConnIds)
         /\ Len(Grown(n)) = Len(conns) + n
         /\ \A i \in 1 .. Len(conns) : Grown(n)[i] = conns[i]
         /\ \A i \in 1 .. n : Grown(n)[Len(conns) + i] = nextId + i
<1> DEFINE new == [i \in 1 .. n |-> nextId + i]
<1>1. \A i \in 1 .. n : nextId + i \in ConnIds
  BY DEF ConnIds
<1>2. new \in Seq(ConnIds) /\ Len(new) = n
  BY <1>1
<1>3. Len(conns) \in Nat
  OBVIOUS
<1>4. /\ Grown(n) \in Seq(ConnIds)
      /\ Len(Grown(n)) = Len(conns) + n
      /\ \A i \in 1 .. Len(conns) + n :
           Grown(n)[i] = IF i <= Len(conns) THEN conns[i]
                         ELSE new[i - Len(conns)]
  <2> HIDE DEF new
  <2>1. Grown(n) = conns \o new
    BY DEF Grown, new
  <2>2. /\ conns \o new \in Seq(ConnIds)
        /\ Len(conns \o new) = Len(conns) + Len(new)
        /\ \A i \in 1 .. Len(conns) + Len(new) :
             (conns \o new)[i] = IF i <= Len(conns) THEN conns[i]
                                 ELSE new[i - Len(conns)]
    BY <1>2, ConcatProperties
  <2>. QED BY <1>2, <2>1, <2>2
<1>5. \A i \in 1 .. Len(conns) : Grown(n)[i] = conns[i]
  <2> HIDE DEF new
  <2>1. \A i \in 1 .. Len(conns) : i \in 1 .. Len(conns) + n /\ i <= Len(conns)
    BY <1>3
  <2>. QED BY <1>4, <2>1
<1>6. \A i \in 1 .. n : Grown(n)[Len(conns) + i] = nextId + i
  <2> TAKE i \in 1 .. n
  <2>1. /\ Len(conns) + i \in 1 .. Len(conns) + n
        /\ ~(Len(conns) + i <= Len(conns))
        /\ (Len(conns) + i) - Len(conns) = i
    BY <1>3
  <2>. QED BY <1>4, <2>1
<1>. QED BY <1>4, <1>5, <1>6

\* How getConn changes the pool and which connection it hands out.
LEMMA GetConnFacts ==
  ASSUME TypeOK, NEW t \in Senders, GetConn(t)
  PROVE  \E n \in {0, 1, 2}, at \in Nat :
           /\ conns = <<>> => n >= 1
           /\ Len(conns) + n > 1 /\ n > 0 => Len(conns) + n <= MaxConn
           /\ AddConns(n)
           /\ conns' = Grown(n)
           /\ at < Len(conns) + n
           /\ using' = [using EXCEPT ![t] = Grown(n)[at + 1]]
           /\ idx' = at + 1
           /\ nextId + n <= MaxDials
<1> USE DEF TypeOK
<1>1. PICK extra \in IF MayGrow THEN {0, 1} ELSE {0} :
        LET n == Needed + extra
            at == IF idx >= Len(conns) + n THEN 0 ELSE idx
        IN /\ AddConns(n)
           /\ conns' = Grown(n)
           /\ using' = [using EXCEPT ![t] = Grown(n)[at + 1]]
           /\ idx' = at + 1
  BY DEF GetConn
<1> DEFINE n == Needed + extra
           at == IF idx >= Len(conns) + n THEN 0 ELSE idx
<1>2. extra \in {0, 1} /\ (extra = 1 => MayGrow)
  OBVIOUS
<1>3. Len(conns) \in Nat /\ (conns = <<>> <=> Len(conns) = 0)
  BY EmptySeq
<1>4. Needed = IF Len(conns) = 0 THEN 1 ELSE 0
  BY <1>3 DEF Needed
<1>5. n \in {0, 1, 2} /\ (Len(conns) = 0 => n >= 1)
  BY <1>2, <1>4
<1>6. at \in Nat /\ at < Len(conns) + n
  BY <1>3, <1>5
<1>7. Len(conns) + n > 1 /\ n > 0 => Len(conns) + n <= MaxConn
  BY <1>2, <1>3, <1>4, ConnectorAssumption DEF MayGrow, ConnNum
<1>8. AddConns(n)
  BY <1>1
<1>9. nextId + n <= MaxDials
  BY <1>5, <1>8, ConnectorAssumption DEF AddConns, OpenSockets
<1>10. /\ conns' = Grown(n)
       /\ using' = [using EXCEPT ![t] = Grown(n)[at + 1]]
       /\ idx' = at + 1
  BY <1>1
<1> HIDE DEF n, at
<1>. QED BY <1>3, <1>5, <1>6, <1>7, <1>8, <1>9, <1>10

-----------------------------------------------------------------------------
(* Types.                                                                  *)

\* connector.close holds a connection while it closes it.
TypeInv == TypeOK /\ (closer \in {"closeRw", "remove"} => closing # <<>>)

LEMMA TypeInit == Init => TypeInv
  BY ConnectorAssumption, EmptySeq
  DEF Init, TypeInv, TypeOK, ReaderStates, CloseStates, ConnIds, Sockets

\* A dial opens the sockets that follow, each with its reader.
LEMMA OpenTypes ==
  ASSUME TypeOK, NEW n \in Nat, OpenSockets(n)
  PROVE  /\ dials' = dials + n
         /\ dials + n \in 0 .. MaxDials
         /\ socket' \in [Sockets -> {"unused", "open", "broken", "closed"}]
         /\ reader' \in [Sockets -> ReaderStates]
  BY ConnectorAssumption DEF TypeOK, OpenSockets, ReaderStates

LEMMA TypeStep == TypeInv /\ [Next]_vars => TypeInv'
<1> SUFFICES ASSUME TypeInv, [Next]_vars PROVE TypeInv'
  OBVIOUS
<1> USE ConnectorAssumption
<1> USE DEF poolVars, socketVars, connVars, senderVars, closerVars, TypeInv
<1>1. ASSUME NEW t \in Senders, GetConn(t) PROVE TypeInv'
  <2>1. PICK n \in {0, 1, 2}, at \in Nat :
           /\ AddConns(n)
           /\ conns' = Grown(n)
           /\ at < Len(conns) + n
           /\ using' = [using EXCEPT ![t] = Grown(n)[at + 1]]
           /\ idx' = at + 1
           /\ nextId + n <= MaxDials
    BY <1>1, GetConnFacts
  <2>2. /\ Grown(n) \in Seq(ConnIds)
        /\ Len(Grown(n)) = Len(conns) + n
    BY <2>1, GrownFacts DEF TypeOK
  <2>3. OpenSockets(n)
    BY <2>1 DEF AddConns
  <2>4. /\ dials' = dials + n
        /\ dials + n \in 0 .. MaxDials
        /\ socket' \in [Sockets -> {"unused", "open", "broken", "closed"}]
        /\ reader' \in [Sockets -> ReaderStates]
    BY <2>3, OpenTypes
  <2>5. Grown(n)[at + 1] \in 0 .. MaxDials
    <3>1. at + 1 \in 1 .. Len(Grown(n))
      BY <2>1, <2>2 DEF TypeOK
    <3>. QED BY <2>2, <3>1, ElementOfSeq DEF ConnIds
  <2>6. using' \in [Senders -> 0 .. MaxDials]
    BY <2>1, <2>5 DEF TypeOK
  <2>7. nextId' \in 0 .. dials'
    BY <2>1, <2>4 DEF AddConns, TypeOK
  <2>8. running' \in [ConnIds -> BOOLEAN]
    <3>1. running' = [k \in ConnIds |->
                        running[k] \/ k \in nextId + 1 .. nextId + n]
      BY <2>1 DEF AddConns
    <3>. QED BY <3>1
  <2>14. rw' \in [ConnIds -> 0 .. MaxDials]
    <3>1. rw' = [k \in ConnIds |->
                   IF k \in nextId + 1 .. nextId + n
                   THEN dials + (k - nextId) ELSE rw[k]]
      BY <2>1 DEF AddConns
    <3>2. ASSUME NEW k \in ConnIds, k \in nextId + 1 .. nextId + n
          PROVE  dials + (k - nextId) \in 0 .. MaxDials
      <4>1. nextId \in Nat /\ dials \in Nat
        BY DEF TypeOK
      <4>. QED BY <3>2, <4>1, <2>1, <2>4
    <3>3. \A k \in ConnIds : rw[k] \in 0 .. MaxDials
      BY DEF TypeOK
    <3>. QED BY ONLY <3>1, <3>2, <3>3
  <2>9. owner' \in [Sockets -> 0 .. MaxDials]
    BY <2>1, <2>4 DEF AddConns, TypeOK, Fresh, Sockets
  <2>10. sender' \in [Senders -> {"idle", "picked", "got", "ready"}]
    BY <1>1 DEF GetConn, TypeOK
  <2>11. UNCHANGED <<retired, closing, closer, broken>>
    BY <1>1 DEF GetConn
  <2>12. conns' \in Seq(ConnIds) /\ idx' \in Nat
    BY <2>1, <2>2
  <2>13. TypeOK'
    BY <2>4, <2>6, <2>7, <2>8, <2>14, <2>9, <2>10, <2>11, <2>12 DEF TypeOK
  <2>. QED BY <2>11, <2>13
<1>2. ASSUME NEW t \in Senders, Reconnect(t) PROVE TypeInv'
  <2>1. OpenSockets(1)
    BY <1>2 DEF Reconnect
  <2>2. /\ dials' = dials + 1
        /\ dials + 1 \in 0 .. MaxDials
        /\ socket' \in [Sockets -> {"unused", "open", "broken", "closed"}]
        /\ reader' \in [Sockets -> ReaderStates]
    BY <2>1, OpenTypes
  <2>3. nextId' \in 0 .. dials'
    BY <1>2, <2>2 DEF Reconnect, TypeOK
  <2>. QED BY <1>2, <2>2, <2>3 DEF Reconnect, TypeOK
<1>3. ASSUME NEW t \in Senders,
             \/ Pick(t) \/ GetConnFails(t) \/ ReconnectNotNeeded(t)
             \/ ReconnectFails(t) \/ Write(t)
      PROVE  TypeInv'
  <2>1. /\ sender' \in [Senders -> {"idle", "picked", "got", "ready"}]
        /\ using' \in [Senders -> 0 .. MaxDials]
    <3>1. /\ \E where \in {"idle", "picked", "ready"} :
               sender' = [sender EXCEPT ![t] = where]
          /\ using' = using \/ using' = [using EXCEPT ![t] = 0]
      BY <1>3
      DEF Pick, GetConnFails, ReconnectNotNeeded, ReconnectFails,
          MustReconnect, Write
    <3>. QED BY <3>1 DEF TypeOK
  <2>2. UNCHANGED <<poolVars, socketVars, connVars, closerVars, broken>>
    BY <1>3
    DEF Pick, GetConnFails, ReconnectNotNeeded, ReconnectFails, Write
  <2>. QED BY <2>1, <2>2 DEF TypeOK
<1>4. ASSUME NEW s \in Sockets, ReaderRemove(s) PROVE TypeInv'
  <2>1. Without(owner[s]) \in Seq(ConnIds)
    BY WithoutFacts DEF TypeOK
  <2>. QED BY <1>4, <2>1 DEF ReaderRemove, ReaderGoes, TypeOK, ReaderStates
<1>5. ASSUME NEW s \in Sockets,
             \/ ReaderTop(s) \/ ReaderData(s) \/ ReaderError(s)
             \/ ReaderClose(s) \/ ReaderCloseRw(s) \/ ReaderCloseOwn(s)
      PROVE  TypeInv'
  BY <1>5
  DEF ReaderTop, ReaderData, ReaderError, ReaderClose, ReaderCloseRw,
      ReaderCloseOwn, ReaderGoes, TypeOK, ReaderStates, CloseStates
<1>6. ASSUME NEW s \in Sockets, PeerBreaks(s) PROVE TypeInv'
  BY <1>6 DEF PeerBreaks, TypeOK
<1>7. CASE CloserStart
  <2>1. closing' \in Seq(ConnIds)
    <3>1. CASE closing' = conns
      BY <3>1 DEF TypeOK
    <3>2. CASE RemovalDue /\ closing' = Front(conns)
      BY <3>2, FrontFacts DEF TypeOK
    <3>. QED BY <1>7, <3>1, <3>2 DEF CloserStart
  <2>. QED BY <1>7, <2>1 DEF CloserStart, TypeOK, CloseStates
<1>8. CASE CloserClose
  <2>1. Tail(closing) \in Seq(ConnIds)
    BY <1>8, HeadTailProperties DEF CloserClose, TypeOK
  <2>. QED BY <1>8, <2>1 DEF CloserClose, TypeOK, CloseStates
<1>9. CASE CloserCloseRw
  BY <1>9 DEF CloserCloseRw, TypeOK, CloseStates
<1>10. CASE CloserRemove
  <2>1. Without(Head(closing)) \in Seq(ConnIds)
    BY WithoutFacts DEF TypeOK
  <2>. QED BY <1>10, <2>1 DEF CloserRemove, TypeOK, CloseStates
<1>11. ASSUME NEW how \in {"replaced", "removed"}, Retire(how) PROVE TypeInv'
  BY <1>11 DEF Retire, TypeOK
<1>12. CASE UNCHANGED vars
  BY <1>12 DEF vars, TypeOK
<1>. QED BY <1>1, <1>2, <1>3, <1>4, <1>5, <1>6, <1>7, <1>8, <1>9, <1>10,
            <1>11, <1>12 DEF Next, SenderStep, ReaderStep, CloserStep

\* Types of the pool, its connections, sockets and goroutines.
THEOREM ConnectorTyped == Spec => []TypeOK
<1>1. TypeInv => TypeOK
  BY DEF TypeInv
<1>. QED BY <1>1, TypeInit, TypeStep, PTL DEF Spec

-----------------------------------------------------------------------------
(* The inductive invariant.                                                *)

\* The sockets 1 .. dials have a connection and a reader, the others nothing,
\* and a reader ends by closing its own.
SocketInv(s) ==
    /\ s <= dials => /\ owner[s] \in 1 .. nextId
                     /\ socket[s] # "unused"
                     /\ reader[s] # "none"
    /\ s > dials => socket[s] = "unused" /\ reader[s] = "none"
    /\ reader[s] = "exited" => socket[s] = "closed"
    /\ socket[s] = "broken" => s \in broken
    /\ s \in broken => s <= dials

SocketsInv == \A s \in Sockets : SocketInv(s)

\* Where a reader is that has not begun to close.
Reading == {"top", "read", "close"}

\* The connections 1 .. nextId each hold a socket of their own; the socket of
\* a running one is read.
ConnInv(k) ==
    /\ k <= nextId => rw[k] \in 1 .. dials /\ owner[rw[k]] = k
    /\ running[k] => k <= nextId /\ reader[rw[k]] \in Reading

ConnsInv == \A k \in ConnIds : ConnInv(k)

\* The pool, the list of connector.close and the senders name connections
\* that exist.
UsersInv ==
    /\ \A i \in 1 .. Len(conns) : conns[i] <= nextId
    /\ \A i \in 1 .. Len(closing) : closing[i] <= nextId
    /\ \A t \in Senders : sender[t] \in {"got", "ready"} =>
         using[t] \in 1 .. nextId

\* Why the client may close the sockets of connection k.
Cause(k) == retired = "removed" \/ \E x \in broken : owner[x] = k

\* Nobody begins to close before there is a cause.
CauseInv ==
    /\ closer # "idle" => retired = "removed"
    /\ \A k \in ConnIds : k <= nextId /\ ~running[k] => Cause(k)
    /\ \A s \in Sockets :
         reader[s] \in CloseStates \cup {"closeOwn", "exited"}
           => Cause(owner[s])
    /\ \A s \in Sockets : socket[s] = "closed" => Cause(owner[s])

-----------------------------------------------------------------------------
(* What dials change.                                                      *)

\* The sockets of a dial are open and read, the others as they were.
LEMMA OpenFacts ==
  ASSUME TypeOK, NEW n \in Nat, OpenSockets(n)
  PROVE  /\ dials' = dials + n
         /\ \A s \in Sockets : s \in dials + 1 .. dials + n =>
              socket'[s] = "open" /\ reader'[s] = "top"
         /\ \A s \in Sockets : s \notin dials + 1 .. dials + n =>
              socket'[s] = socket[s] /\ reader'[s] = reader[s]
  BY DEF OpenSockets, Fresh

\* newClientConn: connection nextId + i gets socket dials + i.
LEMMA AddConnsFacts ==
  ASSUME TypeOK, NEW n \in Nat, AddConns(n)
  PROVE  /\ nextId' = nextId + n
         /\ \A s \in Sockets :
              owner'[s] = IF s \in dials + 1 .. dials + n
                          THEN nextId + (s - dials) ELSE owner[s]
         /\ \A k \in ConnIds : k \in nextId + 1 .. nextId + n =>
              running'[k] /\ rw'[k] = dials + (k - nextId)
         /\ \A k \in ConnIds : k \notin nextId + 1 .. nextId + n =>
              running'[k] = running[k] /\ rw'[k] = rw[k]
  BY DEF AddConns, Fresh, TypeOK

-----------------------------------------------------------------------------
(* Sockets.                                                                *)

\* Nothing is dialled in the first state.
LEMMA InvInit == Init => SocketsInv /\ ConnsInv /\ UsersInv /\ CauseInv
  BY ConnectorAssumption
  DEF Init, SocketsInv, SocketInv, ConnsInv, ConnInv, UsersInv, CauseInv,
      Sockets, ConnIds, CloseStates

\* Dials, readers, connector.close and the peer keep SocketsInv.
LEMMA SocketsStep ==
  ASSUME TypeInv, SocketsInv, ConnsInv, UsersInv, [Next]_vars
  PROVE  SocketsInv'
<1> USE ConnectorAssumption
<1> USE DEF poolVars, socketVars, connVars, senderVars, closerVars
<1>0. TypeOK
  BY DEF TypeInv
<1>1. ASSUME NEW t \in Senders, GetConn(t), NEW s \in Sockets
      PROVE  SocketInv(s)'
  <2>1. PICK n \in {0, 1, 2} : AddConns(n)
    BY <1>0, <1>1, GetConnFacts
  <2>2. OpenSockets(n) /\ broken' = broken
    BY <1>1, <2>1 DEF GetConn, AddConns
  <2>3. SocketInv(s)
    BY DEF SocketsInv
  <2>4. CASE s \in dials + 1 .. dials + n
    <3>1. /\ dials' = dials + n /\ nextId' = nextId + n
          /\ socket'[s] = "open" /\ reader'[s] = "top"
          /\ owner'[s] = nextId + (s - dials)
      BY <1>0, <2>1, <2>2, <2>4, OpenFacts, AddConnsFacts
    <3>2. s \notin broken /\ dials \in Nat /\ nextId \in Nat
      BY <1>0, <2>3, <2>4 DEF SocketInv, TypeOK
    <3>. QED BY <2>2, <2>4, <3>1, <3>2 DEF SocketInv
  <2>5. CASE s \notin dials + 1 .. dials + n
    <3>1. /\ dials' = dials + n /\ nextId' = nextId + n
          /\ socket'[s] = socket[s] /\ reader'[s] = reader[s]
          /\ owner'[s] = owner[s]
      BY <1>0, <2>1, <2>2, <2>5, OpenFacts, AddConnsFacts
    <3>2. dials \in Nat /\ nextId \in Nat /\ s \in Nat
      BY <1>0 DEF TypeOK, Sockets
    <3>. QED BY <2>2, <2>3, <2>5, <3>1, <3>2 DEF SocketInv
  <2>. QED BY <2>4, <2>5
<1>2. ASSUME NEW t \in Senders, Reconnect(t), NEW s \in Sockets
      PROVE  SocketInv(s)'
  <2>1. /\ OpenSockets(1) /\ broken' = broken /\ nextId' = nextId
        /\ owner' = [owner EXCEPT ![dials + 1] = using[t]]
        /\ using[t] \in 1 .. nextId
    BY <1>2 DEF Reconnect, MustReconnect, UsersInv
  <2>2. SocketInv(s) /\ dials \in Nat /\ nextId \in Nat /\ s \in Nat
    BY <1>0 DEF SocketsInv, TypeOK, Sockets
  <2>3. CASE s = dials + 1
    <3>1. /\ dials' = dials + 1 /\ socket'[s] = "open" /\ reader'[s] = "top"
          /\ owner'[s] = using[t]
      BY <1>0, <2>1, <2>3, OpenFacts DEF TypeOK
    <3>. QED BY <2>1, <2>2, <2>3, <3>1 DEF SocketInv
  <2>4. CASE s # dials + 1
    <3>1. /\ dials' = dials + 1
          /\ socket'[s] = socket[s] /\ reader'[s] = reader[s]
          /\ owner'[s] = owner[s]
      <4>1. s \notin dials + 1 .. dials + 1
        BY <2>4, <2>2
      <4>. QED BY <1>0, <2>1, <2>4, <4>1, OpenFacts DEF TypeOK
    <3>. QED BY <2>1, <2>2, <2>4, <3>1 DEF SocketInv
  <2>. QED BY <2>3, <2>4
<1>3. ASSUME NEW r \in Sockets,
             \/ ReaderTop(r) \/ ReaderData(r) \/ ReaderError(r)
             \/ ReaderClose(r) \/ ReaderRemove(r),
             NEW s \in Sockets
      PROVE  SocketInv(s)'
  <2>1. /\ UNCHANGED <<nextId, dials, socket, owner, broken>>
        /\ reader[r] \notin {"none", "exited"}
        /\ \E where \in {"top", "read", "closeOwn"} \cup CloseStates :
             reader' = [reader EXCEPT ![r] = where]
    BY <1>3
    DEF ReaderTop, ReaderData, ReaderError, ReaderClose, ReaderRemove,
        ReaderGoes, CloseStates
  <2>2. SocketInv(s)
    BY DEF SocketsInv
  <2>3. CASE s = r
    <3>1. reader'[s] \notin {"none", "exited"}
      BY <1>0, <2>1, <2>3 DEF TypeOK, CloseStates
    <3>. QED BY <2>1, <2>2, <2>3, <3>1 DEF SocketInv
  <2>4. CASE s # r
    BY <1>0, <2>1, <2>2, <2>4 DEF SocketInv, TypeOK
  <2>. QED BY <2>3, <2>4
<1>4. ASSUME NEW x \in Sockets, x <= dials, NEW s \in Sockets,
             socket' = [socket EXCEPT ![x] = "closed"],
             UNCHANGED <<nextId, dials, owner, broken>>,
             \/ reader'[s] = reader[s]
             \/ reader[s] # "none" /\ reader'[s] = "remove"
             \/ s = x /\ reader'[s] = "exited"
      PROVE  SocketInv(s)'
  <2>1. SocketInv(s) /\ dials \in Nat /\ s \in Nat
    BY <1>0 DEF SocketsInv, TypeOK, Sockets
  <2>2. socket'[s] = IF s = x THEN "closed" ELSE socket[s]
    BY <1>0, <1>4 DEF TypeOK
  <2>. QED BY <1>4, <2>1, <2>2 DEF SocketInv
<1>5. ASSUME NEW k \in ConnIds, k <= nextId
      PROVE  rw[k] \in Sockets /\ rw[k] <= dials
  BY <1>0, <1>5 DEF ConnsInv, ConnInv, TypeOK, Sockets
<1>6. ASSUME NEW r \in Sockets, ReaderCloseRw(r), NEW s \in Sockets
      PROVE  SocketInv(s)'
  <2>1. SocketInv(r) /\ SocketInv(s)
    BY DEF SocketsInv
  <2>2. owner[r] \in ConnIds /\ owner[r] <= nextId
    BY <1>0, <1>6, <2>1
    DEF ReaderCloseRw, SocketInv, TypeOK, ConnIds, Sockets
  <2>3. reader'[s] = IF s = r THEN "remove" ELSE reader[s]
    BY <1>0, <1>6 DEF ReaderCloseRw, ReaderGoes, TypeOK
  <2>. QED BY <1>4, <1>5, <1>6, <2>2, <2>3 DEF ReaderCloseRw
<1>7. ASSUME NEW r \in Sockets, ReaderCloseOwn(r), NEW s \in Sockets
      PROVE  SocketInv(s)'
  <2>1. r <= dials
    BY <1>0, <1>7 DEF ReaderCloseOwn, SocketsInv, SocketInv, TypeOK, Sockets
  <2>2. reader'[s] = IF s = r THEN "exited" ELSE reader[s]
    BY <1>0, <1>7 DEF ReaderCloseOwn, ReaderGoes, TypeOK
  <2>. QED BY <1>4, <1>7, <2>1, <2>2 DEF ReaderCloseOwn
<1>8. ASSUME CloserCloseRw, NEW s \in Sockets PROVE SocketInv(s)'
  <2>1. Head(closing) \in ConnIds /\ Head(closing) <= nextId
    <3>1. closing # <<>> /\ closing \in Seq(ConnIds)
      BY <1>8 DEF CloserCloseRw, TypeInv, TypeOK
    <3>2. 1 \in 1 .. Len(closing) /\ Head(closing) = closing[1]
      BY <3>1, EmptySeq
    <3>. QED BY <3>1, <3>2 DEF UsersInv
  <2>. QED BY <1>4, <1>5, <1>8, <2>1 DEF CloserCloseRw
<1>9. ASSUME NEW r \in Sockets, PeerBreaks(r), NEW s \in Sockets
      PROVE  SocketInv(s)'
  <2>1. SocketInv(s) /\ SocketInv(r) /\ dials \in Nat /\ s \in Nat
    BY <1>0 DEF SocketsInv, TypeOK, Sockets
  <2>2. socket'[s] = IF s = r THEN "broken" ELSE socket[s]
    BY <1>0, <1>9 DEF PeerBreaks, TypeOK
  <2>. QED BY <1>9, <2>1, <2>2 DEF SocketInv, PeerBreaks
<1>10. ASSUME UNCHANGED <<nextId, dials, socket, owner, reader, broken>>
       PROVE  SocketsInv'
  BY <1>10 DEF SocketsInv, SocketInv
<1>11. ASSUME NEW t \in Senders,
             \/ Pick(t) \/ GetConnFails(t) \/ ReconnectNotNeeded(t)
             \/ ReconnectFails(t) \/ Write(t)
      PROVE  SocketsInv'
  BY <1>10, <1>11
  DEF Pick, GetConnFails, ReconnectNotNeeded, ReconnectFails, Write
<1>12. CASE CloserStart \/ CloserClose \/ CloserRemove
  BY <1>10, <1>12 DEF CloserStart, CloserClose, CloserRemove
<1>13. ASSUME NEW how \in {"replaced", "removed"}, Retire(how)
       PROVE  SocketsInv'
  BY <1>10, <1>13 DEF Retire
<1>14. CASE UNCHANGED vars
  BY <1>10, <1>14 DEF vars
<1>. QED BY <1>1, <1>2, <1>3, <1>6, <1>7, <1>8, <1>9, <1>11, <1>12, <1>13,
            <1>14 DEF SocketsInv, Next, SenderStep, ReaderStep, CloserStep

-----------------------------------------------------------------------------
(* Connections.                                                            *)

\* Nothing that ConnInv speaks of changes for the worse.
LEMMA ConnFrame ==
  ASSUME NEW k \in ConnIds, ConnInv(k), UNCHANGED <<nextId, rw, dials, owner>>,
         running'[k] => running[k],
         running'[k] /\ reader[rw[k]] \in Reading => reader'[rw[k]] \in Reading
  PROVE  ConnInv(k)'
  BY DEF ConnInv

\* getConn, reconnect and the readers keep ConnsInv.
LEMMA ConnsStep ==
  ASSUME TypeInv, SocketsInv, ConnsInv, UsersInv, [Next]_vars
  PROVE  ConnsInv'
<1> USE ConnectorAssumption
<1> USE DEF poolVars, socketVars, connVars, senderVars, closerVars
<1>0. TypeOK
  BY DEF TypeInv
<1>1. ASSUME NEW t \in Senders, GetConn(t), NEW k \in ConnIds
      PROVE  ConnInv(k)'
  <2>1. PICK n \in {0, 1, 2} : AddConns(n) /\ nextId + n <= MaxDials
    BY <1>0, <1>1, GetConnFacts
  <2>2. OpenSockets(n)
    BY <2>1 DEF AddConns
  <2>3. /\ dials' = dials + n /\ nextId' = nextId + n
        /\ dials + n \in 0 .. MaxDials
        /\ dials \in Nat /\ nextId \in Nat /\ k \in Nat /\ nextId <= dials
    <3>1. dials' = dials + n /\ dials + n \in 0 .. MaxDials
      BY <1>0, <2>2, OpenTypes
    <3>2. nextId' = nextId + n
      BY <1>0, <2>1, AddConnsFacts
    <3>. QED BY <1>0, <3>1, <3>2 DEF TypeOK, ConnIds
  <2>4. CASE k \in nextId + 1 .. nextId + n
    <3>1. rw'[k] = dials + (k - nextId)
      BY <1>0, <2>1, <2>4, AddConnsFacts
    <3>2. /\ rw'[k] \in Sockets /\ rw'[k] \in dials + 1 .. dials + n
          /\ nextId + (rw'[k] - dials) = k
      BY <2>3, <2>4, <3>1 DEF Sockets
    <3>3. owner'[rw'[k]] = k /\ reader'[rw'[k]] = "top"
      BY <1>0, <2>1, <2>2, <3>2, OpenFacts, AddConnsFacts
    <3>4. k <= nextId' /\ rw'[k] \in 1 .. dials'
      BY <2>3, <2>4, <3>2
    <3>. QED BY <3>3, <3>4 DEF ConnInv, Reading
  <2>5. CASE k \notin nextId + 1 .. nextId + n
    <3>1. running'[k] = running[k] /\ rw'[k] = rw[k]
      BY <1>0, <2>1, <2>5, AddConnsFacts
    <3>2. k <= nextId + n <=> k <= nextId
      BY <2>3, <2>5
    <3>3. CASE k <= nextId
      <4>1. rw[k] \in Sockets /\ rw[k] \notin dials + 1 .. dials + n
        BY <2>3, <3>3 DEF ConnsInv, ConnInv, Sockets
      <4>2. owner'[rw[k]] = owner[rw[k]] /\ reader'[rw[k]] = reader[rw[k]]
        BY <1>0, <2>1, <2>2, <4>1, OpenFacts, AddConnsFacts
      <4>3. rw[k] \in 1 .. dials => rw[k] \in 1 .. dials'
        BY <2>3
      <4>. QED BY <2>3, <3>1, <3>2, <3>3, <4>2, <4>3 DEF ConnsInv, ConnInv
    <3>4. CASE ~(k <= nextId)
      BY <2>3, <3>1, <3>2, <3>4 DEF ConnsInv, ConnInv
    <3>. QED BY <3>3, <3>4
  <2>. QED BY <2>4, <2>5
<1>2. ASSUME NEW t \in Senders, Reconnect(t), NEW k \in ConnIds
      PROVE  ConnInv(k)'
  <2>1. /\ OpenSockets(1) /\ nextId' = nextId
        /\ owner' = [owner EXCEPT ![dials + 1] = using[t]]
        /\ rw' = [rw EXCEPT ![using[t]] = dials + 1]
        /\ running' = [running EXCEPT ![using[t]] = TRUE]
        /\ using[t] \in 1 .. nextId
    BY <1>2 DEF Reconnect, MustReconnect, UsersInv
  <2>2. /\ dials' = dials + 1 /\ dials + 1 \in Sockets
        /\ dials \in Nat /\ nextId \in Nat /\ k \in Nat
        /\ using[t] \in ConnIds
    BY <1>0, <2>1, OpenFacts, OpenTypes DEF TypeOK, ConnIds, Sockets
  <2>3. CASE k = using[t]
    <3>1. rw'[k] = dials + 1 /\ owner'[dials + 1] = k
      BY <1>0, <2>1, <2>2, <2>3 DEF TypeOK
    <3>2. reader'[dials + 1] = "top"
      BY <1>0, <2>1, <2>2, OpenFacts
    <3>. QED BY <2>1, <2>2, <2>3, <3>1, <3>2 DEF ConnInv, Reading
  <2>4. CASE k # using[t]
    <3>1. rw'[k] = rw[k] /\ running'[k] = running[k]
      BY <1>0, <2>1, <2>4 DEF TypeOK
    <3>2. ConnInv(k)
      BY DEF ConnsInv
    <3>3. CASE k <= nextId
      <4>1. rw[k] \in Sockets /\ rw[k] # dials + 1 /\ rw[k] \in 1 .. dials'
        BY <2>2, <3>2, <3>3 DEF ConnInv, Sockets
      <4>2. owner'[rw[k]] = owner[rw[k]]
        BY <1>0, <2>1, <4>1 DEF TypeOK
      <4>3. reader'[rw[k]] = reader[rw[k]]
        <5>1. rw[k] \notin dials + 1 .. dials + 1
          BY <2>2, <4>1 DEF Sockets
        <5>. QED BY <1>0, <2>1, <4>1, <5>1, OpenFacts
      <4>. QED BY <2>1, <3>1, <3>2, <3>3, <4>1, <4>2, <4>3 DEF ConnInv
    <3>4. CASE ~(k <= nextId)
      BY <2>1, <3>1, <3>2, <3>4 DEF ConnInv
    <3>. QED BY <3>3, <3>4
  <2>. QED BY <2>3, <2>4
<1>3. ASSUME NEW r \in Sockets, ReaderTop(r), NEW k \in ConnIds
      PROVE  ConnInv(k)'
  <2>1. /\ UNCHANGED <<nextId, rw, running, dials, owner>>
        /\ \A s \in Sockets :
             reader'[s] # reader[s] =>
               s = r /\ reader'[s] \in {"read", "close"}
    BY <1>0, <1>3 DEF ReaderTop, ReaderGoes, TypeOK
  <2>2. running[k] => rw[k] \in Sockets
    BY <1>0 DEF ConnsInv, ConnInv, TypeOK, Sockets, Reading
  <2>. QED BY <2>1, <2>2, ConnFrame DEF ConnsInv, ConnInv, Reading
<1>4. ASSUME NEW r \in Sockets, ReaderData(r) \/ ReaderError(r),
             NEW k \in ConnIds
      PROVE  ConnInv(k)'
  <2>1. /\ UNCHANGED <<nextId, rw, running, dials, owner>>
        /\ \A s \in Sockets :
             reader'[s] # reader[s] => s = r /\ reader'[s] \in {"top", "close"}
    BY <1>0, <1>4 DEF ReaderData, ReaderError, ReaderGoes, TypeOK
  <2>2. running[k] => rw[k] \in Sockets
    BY <1>0 DEF ConnsInv, ConnInv, TypeOK, Sockets, Reading
  <2>. QED BY <2>1, <2>2, ConnFrame DEF ConnsInv, ConnInv, Reading
<1>5. ASSUME NEW r \in Sockets, ReaderClose(r), NEW k \in ConnIds
      PROVE  ConnInv(k)'
  <2>1. /\ UNCHANGED <<nextId, rw, dials, owner>>
        /\ running'[k] = (running[k] /\ k # owner[r])
        /\ \A s \in Sockets : s # r => reader'[s] = reader[s]
    BY <1>0, <1>5 DEF ReaderClose, ReaderGoes, TypeOK
  <2>2. running[k] => rw[k] \in Sockets /\ owner[rw[k]] = k
    BY <1>0 DEF ConnsInv, ConnInv, TypeOK, Sockets, Reading
  <2>. QED BY <2>1, <2>2, ConnFrame DEF ConnsInv, ConnInv, Reading
<1>6. ASSUME NEW r \in Sockets,
             ReaderCloseRw(r) \/ ReaderRemove(r) \/ ReaderCloseOwn(r),
             NEW k \in ConnIds
      PROVE  ConnInv(k)'
  <2>1. /\ UNCHANGED <<nextId, rw, running, dials, owner>>
        /\ reader[r] \notin Reading
        /\ \A s \in Sockets : s # r => reader'[s] = reader[s]
    BY <1>0, <1>6
    DEF ReaderCloseRw, ReaderRemove, ReaderCloseOwn, ReaderGoes, TypeOK,
        Reading
  <2>2. running[k] => rw[k] \in Sockets
    BY <1>0 DEF ConnsInv, ConnInv, TypeOK, Sockets, Reading
  <2>. QED BY <2>1, <2>2, ConnFrame DEF ConnsInv, ConnInv
<1>7. ASSUME CloserClose, NEW k \in ConnIds PROVE ConnInv(k)'
  <2>1. /\ UNCHANGED <<nextId, rw, dials, owner, reader>>
        /\ running'[k] => running[k]
    BY <1>0, <1>7 DEF CloserClose, TypeOK
  <2>. QED BY <2>1, ConnFrame DEF ConnsInv
<1>8. ASSUME UNCHANGED <<nextId, rw, running, dials, owner, reader>>
      PROVE  ConnsInv'
  BY <1>8 DEF ConnsInv, ConnInv
<1>9. ASSUME NEW r \in Sockets, PeerBreaks(r) PROVE ConnsInv'
  BY <1>8, <1>9 DEF PeerBreaks
<1>10. CASE CloserStart \/ CloserCloseRw \/ CloserRemove
  BY <1>8, <1>10 DEF CloserStart, CloserCloseRw, CloserRemove
<1>11. ASSUME NEW t \in Senders,
              \/ Pick(t) \/ GetConnFails(t) \/ ReconnectNotNeeded(t)
              \/ ReconnectFails(t) \/ Write(t)
       PROVE  ConnsInv'
  BY <1>8, <1>11
  DEF Pick, GetConnFails, ReconnectNotNeeded, ReconnectFails, Write
<1>12. ASSUME NEW how \in {"replaced", "removed"}, Retire(how)
       PROVE  ConnsInv'
  BY <1>8, <1>12 DEF Retire
<1>13. CASE UNCHANGED vars
  BY <1>8, <1>13 DEF vars
<1>. QED BY <1>1, <1>2, <1>3, <1>4, <1>5, <1>6, <1>7, <1>9, <1>10, <1>11,
            <1>12, <1>13 DEF ConnsInv, Next, SenderStep, ReaderStep, CloserStep

-----------------------------------------------------------------------------
(* Those who name connections.                                             *)

\* No step forgets a connection or names one that does not exist.
LEMMA UsersStep ==
  ASSUME TypeInv, UsersInv, [Next]_vars
  PROVE  UsersInv'
<1> USE ConnectorAssumption
<1> USE DEF poolVars, socketVars, connVars, senderVars, closerVars
<1>0. TypeOK
  BY DEF TypeInv
<1>1. ASSUME NEW t \in Senders, GetConn(t) PROVE UsersInv'
  <2>1. PICK n \in {0, 1, 2}, at \in Nat :
           /\ AddConns(n)
           /\ conns' = Grown(n)
           /\ at < Len(conns) + n
           /\ using' = [using EXCEPT ![t] = Grown(n)[at + 1]]
           /\ nextId + n <= MaxDials
    BY <1>0, <1>1, GetConnFacts
  <2>2. /\ nextId' = nextId + n /\ nextId \in Nat /\ Len(conns) \in Nat
        /\ Len(Grown(n)) = Len(conns) + n
        /\ Grown(n) \in Seq(ConnIds)
        /\ \A i \in 1 .. Len(conns) : Grown(n)[i] = conns[i]
        /\ \A i \in 1 .. n : Grown(n)[Len(conns) + i] = nextId + i
    <3>1. conns \in Seq(ConnIds) /\ nextId \in Nat
      BY <1>0 DEF TypeOK
    <3>2. Len(conns) \in Nat
      BY <3>1
    <3>3. nextId' = nextId + n
      BY <1>0, <2>1, AddConnsFacts
    <3>4. /\ Len(Grown(n)) = Len(conns) + n
          /\ Grown(n) \in Seq(ConnIds)
          /\ \A i \in 1 .. Len(conns) : Grown(n)[i] = conns[i]
          /\ \A i \in 1 .. n : Grown(n)[Len(conns) + i] = nextId + i
      <4>1. n \in Nat
        OBVIOUS
      <4>. QED BY <2>1, <3>1, <4>1, GrownFacts
    <3>. QED BY <3>1, <3>2, <3>3, <3>4
  <2>3. ASSUME NEW i \in 1 .. Len(Grown(n))
        PROVE  Grown(n)[i] \in 1 .. nextId + n
    <3>1. Grown(n)[i] \in ConnIds
      BY <2>2, ElementOfSeq
    <3>2. CASE i <= Len(conns)
      <4>1. i \in 1 .. Len(conns)
        BY <2>2, <3>2
      <4>2. Grown(n)[i] = conns[i] /\ conns[i] <= nextId
        BY <2>2, <4>1 DEF UsersInv
      <4>. QED BY <2>2, <3>1, <4>2 DEF ConnIds
    <3>3. CASE i > Len(conns)
      <4>1. i - Len(conns) \in 1 .. n /\ Len(conns) + (i - Len(conns)) = i
        BY <2>2, <3>3
      <4>2. Grown(n)[i] = nextId + (i - Len(conns))
        BY <2>2, <4>1
      <4>. QED BY <2>2, <4>1, <4>2
    <3>. QED BY <2>2, <3>2, <3>3
  <2>4. at + 1 \in 1 .. Len(Grown(n))
    BY <2>1, <2>2
  <2>5. \A u \in Senders :
          sender'[u] \in {"got", "ready"} => using'[u] \in 1 .. nextId'
    <3> SUFFICES ASSUME NEW u \in Senders, sender'[u] \in {"got", "ready"}
                 PROVE  using'[u] \in 1 .. nextId'
      OBVIOUS
    <3>1. CASE u = t
      <4>1. using'[u] = Grown(n)[at + 1]
        BY <1>0, <2>1, <3>1 DEF TypeOK
      <4>. QED BY <2>2, <2>3, <2>4, <4>1
    <3>2. CASE u # t
      <4>1. using'[u] = using[u] /\ sender'[u] = sender[u]
        BY <1>0, <1>1, <2>1, <3>2 DEF GetConn, TypeOK
      <4>2. using[u] \in 1 .. nextId
        BY <4>1 DEF UsersInv
      <4>. QED BY <2>2, <4>1, <4>2
    <3>. QED BY <3>1, <3>2
  <2>6. \A i \in 1 .. Len(closing') : closing'[i] <= nextId'
    <3>1. closing' = closing /\ closing \in Seq(ConnIds)
      BY <1>0, <1>1 DEF GetConn, TypeOK
    <3>2. \A i \in 1 .. Len(closing) :
            closing[i] \in ConnIds /\ closing[i] <= nextId
      BY <3>1, ElementOfSeq DEF UsersInv
    <3>. QED BY <2>2, <3>1, <3>2 DEF ConnIds
  <2>7. \A i \in 1 .. Len(conns') : conns'[i] <= nextId'
    BY <2>1, <2>2, <2>3
  <2>. QED BY <2>5, <2>6, <2>7 DEF UsersInv
<1>2. ASSUME NEW t \in Senders,
             \/ Pick(t) \/ GetConnFails(t) \/ ReconnectNotNeeded(t)
             \/ ReconnectFails(t) \/ Reconnect(t) \/ Write(t)
      PROVE  UsersInv'
  <2>1. UNCHANGED <<conns, closing, nextId>>
    BY <1>2
    DEF Pick, GetConnFails, ReconnectNotNeeded, ReconnectFails, Reconnect,
        Write
  <2>2. \A u \in Senders : sender'[u] \in {"got", "ready"} =>
          sender[u] \in {"got", "ready"} /\ using'[u] = using[u]
    BY <1>0, <1>2
    DEF Pick, GetConnFails, ReconnectNotNeeded, ReconnectFails, Reconnect,
        MustReconnect, Write, TypeOK
  <2>. QED BY <2>1, <2>2 DEF UsersInv
<1>3. ASSUME NEW k,
             conns' = Without(k),
             UNCHANGED <<nextId, sender, using>>,
             closing' = closing \/ (closing # <<>> /\ closing' = Tail(closing))
      PROVE  UsersInv'
  <2>1. \A i \in 1 .. Len(conns') : conns'[i] <= nextId
    <3>1. conns \in Seq(ConnIds)
      BY <1>0 DEF TypeOK
    <3>. QED BY <1>3, <3>1, WithoutFacts DEF UsersInv
  <2>2. \A i \in 1 .. Len(closing') : closing'[i] <= nextId
    <3>1. CASE closing # <<>> /\ closing' = Tail(closing)
      <4>1. closing \in Seq(ConnIds)
        BY <1>0 DEF TypeOK
      <4>2. \A i \in 1 .. Len(Tail(closing)) :
              i + 1 \in 1 .. Len(closing) /\ Tail(closing)[i] = closing[i + 1]
        BY <3>1, <4>1, HeadTailProperties, LenProperties
      <4>. QED BY <3>1, <4>2 DEF UsersInv
    <3>. QED BY <1>3, <3>1 DEF UsersInv
  <2>. QED BY <1>3, <2>1, <2>2 DEF UsersInv
<1>4. ASSUME NEW r \in Sockets, ReaderRemove(r) PROVE UsersInv'
  BY <1>3, <1>4 DEF ReaderRemove
<1>5. CASE CloserRemove
  BY <1>3, <1>5 DEF CloserRemove, TypeInv
<1>6. ASSUME NEW r \in Sockets,
             \/ ReaderTop(r) \/ ReaderData(r) \/ ReaderError(r)
             \/ ReaderClose(r) \/ ReaderCloseRw(r) \/ ReaderCloseOwn(r)
             \/ PeerBreaks(r)
      PROVE  UsersInv'
  <2>1. UNCHANGED <<conns, closing, nextId, sender, using>>
    BY <1>6
    DEF ReaderTop, ReaderData, ReaderError, ReaderClose, ReaderCloseRw,
        ReaderCloseOwn, PeerBreaks
  <2>. QED BY <2>1 DEF UsersInv
<1>7. CASE CloserStart
  <2>1. conns \in Seq(ConnIds) /\ UNCHANGED <<conns, nextId, sender, using>>
    BY <1>0, <1>7 DEF TypeOK, CloserStart
  <2>2. CASE closing' = conns
    BY <2>1, <2>2 DEF UsersInv
  <2>3. CASE closing' = Front(conns)
    BY <2>1, <2>3, FrontFacts DEF UsersInv
  <2>. QED BY <1>7, <2>2, <2>3 DEF CloserStart
<1>8. CASE CloserClose
  <2>1. /\ UNCHANGED <<conns, nextId, sender, using>>
        /\ closing \in Seq(ConnIds) /\ closing # <<>>
        /\ closing' = closing \/ closing' = Tail(closing)
    BY <1>0, <1>8 DEF CloserClose, TypeOK
  <2>2. \A i \in 1 .. Len(Tail(closing)) :
          i + 1 \in 1 .. Len(closing) /\ Tail(closing)[i] = closing[i + 1]
    BY <2>1, HeadTailProperties, LenProperties
  <2>. QED BY <2>1, <2>2 DEF UsersInv
<1>9. CASE CloserCloseRw
  BY <1>9 DEF CloserCloseRw, UsersInv
<1>10. ASSUME NEW how \in {"replaced", "removed"}, Retire(how)
       PROVE  UsersInv'
  BY <1>10 DEF Retire, UsersInv
<1>11. CASE UNCHANGED vars
  BY <1>11 DEF vars, UsersInv
<1>. QED BY <1>1, <1>2, <1>4, <1>5, <1>6, <1>7, <1>8, <1>9, <1>10, <1>11
         DEF Next, SenderStep, ReaderStep, CloserStep

-----------------------------------------------------------------------------
(* Causes.                                                                 *)

\* A cause is never taken back.
LEMMA CauseStays ==
  ASSUME TypeOK, SocketsInv, NEW k, Cause(k),
         retired = "removed" => retired' = "removed",
         broken \subseteq broken',
         \A s \in Sockets : s <= dials => owner'[s] = owner[s]
  PROVE  Cause(k)'
<1>1. CASE retired = "removed"
  BY <1>1 DEF Cause
<1>2. ASSUME NEW x \in broken, owner[x] = k PROVE Cause(k)'
  <2>1. x \in Sockets /\ x <= dials /\ x \in broken'
    BY DEF TypeOK, SocketsInv, SocketInv
  <2>. QED BY <1>2, <2>1 DEF Cause
<1>. QED BY <1>1, <1>2 DEF Cause

\* Nobody begins to close, and no cause goes.
LEMMA CauseFrame ==
  ASSUME TypeOK, SocketsInv, ConnsInv, CauseInv,
         UNCHANGED <<nextId, dials, owner>>,
         retired = "removed" => retired' = "removed",
         broken \subseteq broken',
         closer' # "idle" => closer # "idle" \/ retired' = "removed",
         \A k \in ConnIds : running[k] => running'[k] \/ Cause(k)',
         \A s \in Sockets :
           reader'[s] \in CloseStates \cup {"closeOwn", "exited"} =>
             \/ reader[s] \in CloseStates \cup {"closeOwn", "exited"}
             \/ Cause(owner[s])',
         \A s \in Sockets :
           socket'[s] = "closed" => socket[s] = "closed" \/ Cause(owner[s])'
  PROVE  CauseInv'
<1>1. \A k : Cause(k) => Cause(k)'
  BY CauseStays
<1>2. closer' # "idle" => retired' = "removed"
  BY DEF CauseInv
<1>3. \A k \in ConnIds : k <= nextId' /\ ~running'[k] => Cause(k)'
  BY <1>1 DEF CauseInv
<1>4. \A s \in Sockets :
        reader'[s] \in CloseStates \cup {"closeOwn", "exited"}
          => Cause(owner[s])'
  BY <1>1 DEF CauseInv
<1>5. \A s \in Sockets : socket'[s] = "closed" => Cause(owner[s])'
  BY <1>1 DEF CauseInv
<1>. QED BY <1>2, <1>3, <1>4, <1>5 DEF CauseInv

\* The first to begin to close a socket of a connection is a reader that found
\* a socket of it broken, or connector.close.
LEMMA CauseStep ==
  ASSUME TypeInv, SocketsInv, ConnsInv, UsersInv, CauseInv, [Next]_vars
  PROVE  CauseInv'
<1> USE ConnectorAssumption
<1> USE DEF poolVars, socketVars, connVars, senderVars, closerVars
<1>0. TypeOK
  BY DEF TypeInv
<1>1. ASSUME NEW t \in Senders, GetConn(t) PROVE CauseInv'
  <2>1. PICK n \in {0, 1, 2} : AddConns(n)
    BY <1>0, <1>1, GetConnFacts
  <2>2. OpenSockets(n) /\ UNCHANGED <<retired, closer, broken>>
    BY <1>1, <2>1 DEF GetConn, AddConns
  <2>3. dials \in Nat /\ nextId \in Nat /\ nextId' = nextId + n
    BY <1>0, <2>1, AddConnsFacts DEF TypeOK
  <2>4. \A s \in Sockets : s \notin dials + 1 .. dials + n =>
          /\ owner'[s] = owner[s] /\ socket'[s] = socket[s]
          /\ reader'[s] = reader[s]
    BY <1>0, <2>1, <2>2, OpenFacts, AddConnsFacts
  <2>5. \A s \in Sockets : s \in dials + 1 .. dials + n =>
          socket'[s] = "open" /\ reader'[s] = "top"
    BY <1>0, <2>2, OpenFacts
  <2>6. \A k : Cause(k) => Cause(k)'
    <3>1. \A s \in Sockets : s <= dials => owner'[s] = owner[s]
      BY <2>3, <2>4 DEF Sockets
    <3>. QED BY <1>0, <2>2, <3>1, CauseStays
  <2>7. \A k \in ConnIds : k <= nextId' /\ ~running'[k] => Cause(k)'
    <3>1. \A k \in ConnIds : k \in nextId + 1 .. nextId + n => running'[k]
      BY <1>0, <2>1, AddConnsFacts
    <3>2. \A k \in ConnIds : k \notin nextId + 1 .. nextId + n =>
            running'[k] = running[k]
      BY <1>0, <2>1, AddConnsFacts
    <3>3. \A k \in ConnIds :
            k <= nextId' => k <= nextId \/ k \in nextId + 1 .. nextId + n
      BY <2>3 DEF ConnIds
    <3>4. \A k \in ConnIds : k <= nextId => k \notin nextId + 1 .. nextId + n
      BY <2>3 DEF ConnIds
    <3>. QED BY <2>6, <3>1, <3>2, <3>3, <3>4 DEF CauseInv
  <2>8. \A s \in Sockets :
          reader'[s] \in CloseStates \cup {"closeOwn", "exited"}
            => Cause(owner[s]) /\ owner'[s] = owner[s]
    BY <2>4, <2>5 DEF CauseInv, CloseStates
  <2>9. \A s \in Sockets : socket'[s] = "closed" =>
          Cause(owner[s]) /\ owner'[s] = owner[s]
    BY <2>4, <2>5 DEF CauseInv
  <2>10. \A s \in Sockets :
           Cause(owner[s]) /\ owner'[s] = owner[s] => Cause(owner[s])'
    BY <2>6 DEF Cause
  <2>. QED BY <2>2, <2>7, <2>8, <2>9, <2>10 DEF CauseInv
<1>2. ASSUME NEW t \in Senders, Reconnect(t) PROVE CauseInv'
  <2>1. /\ OpenSockets(1) /\ UNCHANGED <<nextId, retired, closer, broken>>
        /\ owner' = [owner EXCEPT ![dials + 1] = using[t]]
        /\ running' = [running EXCEPT ![using[t]] = TRUE]
    BY <1>2 DEF Reconnect
  <2>2. dials \in Nat
    BY <1>0 DEF TypeOK
  <2>3. \A s \in Sockets : s # dials + 1 =>
          /\ owner'[s] = owner[s] /\ socket'[s] = socket[s]
          /\ reader'[s] = reader[s]
    <3> TAKE s \in Sockets
    <3> HAVE s # dials + 1
    <3>1. s \notin dials + 1 .. dials + 1
      BY <2>2 DEF Sockets
    <3>. QED BY <1>0, <2>1, <3>1, OpenFacts DEF TypeOK
  <2>4. \A s \in Sockets : s = dials + 1 =>
          socket'[s] = "open" /\ reader'[s] = "top"
    BY <1>0, <2>1, <2>2, OpenFacts
  <2>5. \A k : Cause(k) => Cause(k)'
    <3>1. \A s \in Sockets : s <= dials => owner'[s] = owner[s]
      BY <2>2, <2>3 DEF Sockets
    <3>. QED BY <1>0, <2>1, <3>1, CauseStays
  <2>6. \A k \in ConnIds : k <= nextId' /\ ~running'[k] => Cause(k)'
    <3>1. \A k \in ConnIds : running[k] => running'[k]
      BY <1>0, <2>1 DEF TypeOK
    <3>. QED BY <2>1, <2>5, <3>1 DEF CauseInv
  <2>7. \A s \in Sockets :
          reader'[s] \in CloseStates \cup {"closeOwn", "exited"}
            => Cause(owner[s]) /\ owner'[s] = owner[s]
    BY <2>3, <2>4 DEF CauseInv, CloseStates
  <2>8. \A s \in Sockets : socket'[s] = "closed" =>
          Cause(owner[s]) /\ owner'[s] = owner[s]
    BY <2>3, <2>4 DEF CauseInv
  <2>9. \A s \in Sockets :
          Cause(owner[s]) /\ owner'[s] = owner[s] => Cause(owner[s])'
    BY <2>5 DEF Cause
  <2>. QED BY <2>1, <2>6, <2>7, <2>8, <2>9 DEF CauseInv
\* A reader that has left its loop had a cause to.
<1>3. ASSUME NEW s \in Sockets, reader[s] \notin {"none", "top", "read"}
      PROVE  Cause(owner[s])
  BY <1>0, <1>3 DEF CauseInv, TypeOK, ReaderStates
<1>4. ASSUME NEW s \in Sockets, reader[s] # "none"
      PROVE  owner[s] \in ConnIds /\ owner[s] <= nextId
  BY <1>0, <1>4 DEF SocketsInv, SocketInv, TypeOK, ConnIds, Sockets
<1>5. ASSUME NEW r \in Sockets,
             \/ ReaderTop(r) \/ ReaderData(r) \/ ReaderError(r)
             \/ ReaderClose(r) \/ ReaderCloseRw(r) \/ ReaderRemove(r)
             \/ ReaderCloseOwn(r)
      PROVE  CauseInv'
  <2>1. UNCHANGED <<nextId, dials, owner, retired, closer, broken>>
    BY <1>5
    DEF ReaderTop, ReaderData, ReaderError, ReaderClose, ReaderCloseRw,
        ReaderRemove, ReaderCloseOwn
  <2>2. \A k : Cause(k)' <=> Cause(k)
    BY <2>1 DEF Cause
  <2>3. CASE Cause(owner[r])
    <3>1. \A k \in ConnIds : running[k] => running'[k] \/ k = owner[r]
      BY <1>0, <1>5
      DEF ReaderTop, ReaderData, ReaderError, ReaderClose, ReaderCloseRw,
          ReaderRemove, ReaderCloseOwn, TypeOK
    <3>2. \A s \in Sockets : s # r => reader'[s] = reader[s]
      BY <1>0, <1>5
      DEF ReaderTop, ReaderData, ReaderError, ReaderClose, ReaderCloseRw,
          ReaderRemove, ReaderCloseOwn, ReaderGoes, TypeOK
    <3>3. \A s \in Sockets : socket'[s] = "closed" =>
            socket[s] = "closed" \/ owner[s] = owner[r]
      <4>1. CASE ReaderCloseRw(r)
        <5>1. owner[rw[owner[r]]] = owner[r]
          BY <1>4, <4>1 DEF ReaderCloseRw, ConnsInv, ConnInv
        <5>. QED BY <1>0, <4>1, <5>1 DEF ReaderCloseRw, TypeOK
      <4>2. CASE ReaderCloseOwn(r)
        BY <1>0, <4>2 DEF ReaderCloseOwn, TypeOK
      <4>. QED BY <1>5, <4>1, <4>2
           DEF ReaderTop, ReaderData, ReaderError, ReaderClose, ReaderRemove
    <3>4. \A s \in Sockets : owner[s] = owner[r] => Cause(owner[s])'
      BY <2>1, <2>3 DEF Cause
    <3>5. \A k \in ConnIds : running[k] => running'[k] \/ Cause(k)'
      BY <2>2, <2>3, <3>1
    <3>. QED BY <1>0, <2>1, <3>2, <3>3, <3>4, <3>5, CauseFrame
  <2>4. CASE ~Cause(owner[r])
    <3>1. reader[r] \in {"top", "read"}
      BY <1>3, <1>5, <2>4
      DEF ReaderTop, ReaderData, ReaderError, ReaderClose, ReaderCloseRw,
          ReaderRemove, ReaderCloseOwn
    <3>2. ~ReaderError(r)
      <4>1. ASSUME ReaderError(r) PROVE FALSE
        <5>1. socket[r] = "broken"
          BY <2>4, <4>1 DEF ReaderError, CauseInv
        <5>2. r \in broken
          BY <5>1 DEF SocketsInv, SocketInv
        <5>. QED BY <2>4, <5>2 DEF Cause
      <4>. QED BY <4>1
    <3>3. ReaderTop(r) => running[owner[r]]
      BY <1>4, <2>4, <3>1 DEF CauseInv
    <3>4. /\ UNCHANGED <<running, socket>>
          /\ \E where \in {"top", "read"} :
               reader' = [reader EXCEPT ![r] = where]
      BY <1>5, <3>1, <3>2, <3>3
      DEF ReaderTop, ReaderData, ReaderClose, ReaderCloseRw,
          ReaderRemove, ReaderCloseOwn, ReaderGoes
    <3>5. \A s \in Sockets :
            reader'[s] \in CloseStates \cup {"closeOwn", "exited"}
              => reader[s] \in CloseStates \cup {"closeOwn", "exited"}
      BY <1>0, <3>4 DEF TypeOK, CloseStates
    <3>. QED BY <1>0, <2>1, <3>4, <3>5, CauseFrame
  <2>. QED BY <2>3, <2>4
<1>6. ASSUME NEW r \in Sockets, PeerBreaks(r) PROVE CauseInv'
  <2>1. /\ UNCHANGED <<nextId, dials, owner, retired, closer, running, reader>>
        /\ broken \subseteq broken'
        /\ \A s \in Sockets : socket'[s] = "closed" => socket[s] = "closed"
    BY <1>0, <1>6 DEF PeerBreaks, TypeOK
  <2>. QED BY <1>0, <2>1, CauseFrame
<1>7. CASE CloserClose \/ CloserCloseRw
  <2>1. /\ UNCHANGED <<nextId, dials, owner, retired, broken, reader>>
        /\ closer # "idle"
    BY <1>7 DEF CloserClose, CloserCloseRw
  <2>2. retired = "removed" /\ retired' = "removed"
    BY <2>1 DEF CauseInv
  <2>3. \A k : Cause(k)'
    BY <2>2 DEF Cause
  <2>. QED BY <1>0, <2>1, <2>2, <2>3, CauseFrame
<1>8. CASE CloserStart \/ CloserRemove
  <2>1. /\ UNCHANGED <<nextId, dials, owner, retired, broken, reader, socket,
                       running>>
        /\ closer # "idle"
    BY <1>8 DEF CloserStart, CloserRemove
  <2>. QED BY <1>0, <2>1, CauseFrame
<1>9. ASSUME NEW how \in {"replaced", "removed"}, Retire(how) PROVE CauseInv'
  <2>1. /\ UNCHANGED <<nextId, dials, owner, broken, reader, socket, running>>
        /\ retired # "removed"
        /\ closer' # "idle" => retired' = "removed"
    BY <1>9 DEF Retire
  <2>. QED BY <1>0, <2>1, CauseFrame
<1>10. ASSUME NEW t \in Senders,
              \/ Pick(t) \/ GetConnFails(t) \/ ReconnectNotNeeded(t)
              \/ ReconnectFails(t) \/ Write(t)
       PROVE  CauseInv'
  <2>1. UNCHANGED <<nextId, dials, owner, retired, closer, broken, reader,
                    socket, running>>
    BY <1>10
    DEF Pick, GetConnFails, ReconnectNotNeeded, ReconnectFails, Write
  <2>. QED BY <1>0, <2>1, CauseFrame
<1>11. CASE UNCHANGED vars
  <2>1. UNCHANGED <<nextId, dials, owner, retired, closer, broken, reader,
                    socket, running>>
    BY <1>11 DEF vars
  <2>. QED BY <1>0, <2>1, CauseFrame
<1>. QED BY <1>1, <1>2, <1>5, <1>6, <1>7, <1>8, <1>9, <1>10, <1>11
         DEF Next, SenderStep, ReaderStep, CloserStep

-----------------------------------------------------------------------------
(* The pool.                                                               *)

\* The pool is empty at first.
LEMMA PoolInit == Init => PoolWithinLimit
  BY ConnectorAssumption, EmptySeq DEF Init, PoolWithinLimit

\* getConn stays below the limit and numbers afresh, removeConn only removes.
LEMMA PoolStep ==
  ASSUME TypeInv, UsersInv, PoolWithinLimit, [Next]_vars
  PROVE  PoolWithinLimit'
<1> USE ConnectorAssumption
<1> USE DEF poolVars, socketVars, connVars, senderVars, closerVars
<1>0. TypeOK /\ conns \in Seq(ConnIds) /\ Len(conns) \in Nat
  BY DEF TypeInv, TypeOK
<1>1. ASSUME NEW t \in Senders, GetConn(t) PROVE PoolWithinLimit'
  <2>1. PICK n \in {0, 1, 2} :
          /\ Len(conns) + n > 1 /\ n > 0 => Len(conns) + n <= MaxConn
          /\ AddConns(n)
          /\ conns' = Grown(n)
          /\ nextId + n <= MaxDials
    BY <1>0, <1>1, GetConnFacts
  <2>2. /\ Len(Grown(n)) = Len(conns) + n
        /\ Grown(n) \in Seq(ConnIds)
        /\ \A i \in 1 .. Len(conns) : Grown(n)[i] = conns[i]
        /\ \A i \in 1 .. n : Grown(n)[Len(conns) + i] = nextId + i
    <3>1. nextId \in Nat /\ n \in Nat
      BY <1>0 DEF TypeOK
    <3>. QED BY <1>0, <2>1, <3>1, GrownFacts
  <2>3. Len(Grown(n)) <= IF MaxConn > 1 THEN MaxConn ELSE 1
    BY <1>0, <2>1, <2>2 DEF PoolWithinLimit
  <2>4. \A i \in 1 .. Len(Grown(n)) :
          \/ /\ i \in 1 .. Len(conns)
             /\ Grown(n)[i] = conns[i] /\ conns[i] <= nextId
          \/ /\ i - Len(conns) \in 1 .. n
             /\ Grown(n)[i] = nextId + (i - Len(conns))
    <3> TAKE i \in 1 .. Len(Grown(n))
    <3>1. CASE i <= Len(conns)
      <4>1. i \in 1 .. Len(conns)
        BY <1>0, <2>2, <3>1
      <4>. QED BY <2>2, <4>1 DEF UsersInv
    <3>2. CASE ~(i <= Len(conns))
      <4>1. i - Len(conns) \in 1 .. n /\ Len(conns) + (i - Len(conns)) = i
        BY <1>0, <2>2, <3>2
      <4>. QED BY <2>2, <4>1
    <3>. QED BY <3>1, <3>2
  <2>5. ASSUME NEW i \in 1 .. Len(Grown(n)), NEW j \in 1 .. Len(Grown(n)),
               Grown(n)[i] = Grown(n)[j]
        PROVE  i = j
    <3>1. nextId \in Nat /\ \A x \in 1 .. Len(conns) : conns[x] \in Nat
      BY <1>0, ElementOfSeq DEF TypeOK, ConnIds
    <3>2. CASE i \in 1 .. Len(conns) /\ j \in 1 .. Len(conns)
      BY <2>2, <2>5, <3>2 DEF PoolWithinLimit
    <3>3. CASE i \in 1 .. Len(conns) /\ j \notin 1 .. Len(conns)
      <4>1. /\ Grown(n)[i] <= nextId /\ Grown(n)[j] > nextId
            /\ Grown(n)[i] \in Nat
        BY <1>0, <2>4, <3>1, <3>3
      <4>. QED BY <2>5, <3>1, <4>1
    <3>4. CASE i \notin 1 .. Len(conns) /\ j \in 1 .. Len(conns)
      <4>1. /\ Grown(n)[j] <= nextId /\ Grown(n)[i] > nextId
            /\ Grown(n)[j] \in Nat
        BY <1>0, <2>4, <3>1, <3>4
      <4>. QED BY <2>5, <3>1, <4>1
    <3>5. CASE i \notin 1 .. Len(conns) /\ j \notin 1 .. Len(conns)
      <4>1. /\ Grown(n)[i] = nextId + (i - Len(conns))
            /\ Grown(n)[j] = nextId + (j - Len(conns))
        BY <2>4, <3>5
      <4>2. i \in Int /\ j \in Int /\ Len(conns) \in Nat /\ nextId \in Nat
        BY <1>0, <3>1
      <4>3. nextId + (i - Len(conns)) = nextId + (j - Len(conns))
        BY <2>5, <4>1
      <4>. QED BY ONLY <4>2, <4>3
    <3>. QED BY <3>2, <3>3, <3>4, <3>5
  <2>. QED BY <2>1, <2>3, <2>5 DEF PoolWithinLimit
<1>2. ASSUME NEW k, conns' = Without(k) PROVE PoolWithinLimit'
  <2>1. /\ Without(k) \in Seq(ConnIds)
        /\ Len(Without(k)) <= Len(conns)
        /\ Distinct(conns) => Distinct(Without(k))
    BY <1>0, WithoutFacts
  <2>2. Len(Without(k)) \in Nat
    BY <2>1
  <2>. QED BY <1>0, <1>2, <2>1, <2>2 DEF PoolWithinLimit, Distinct
<1>3. ASSUME NEW r \in Sockets, ReaderRemove(r) PROVE PoolWithinLimit'
  BY <1>2, <1>3 DEF ReaderRemove
<1>4. CASE CloserRemove
  BY <1>2, <1>4 DEF CloserRemove
<1>5. ASSUME UNCHANGED conns PROVE PoolWithinLimit'
  BY <1>5 DEF PoolWithinLimit
<1>6. ASSUME NEW t \in Senders,
             \/ Pick(t) \/ GetConnFails(t) \/ ReconnectNotNeeded(t)
             \/ ReconnectFails(t) \/ Reconnect(t) \/ Write(t)
      PROVE  PoolWithinLimit'
  BY <1>5, <1>6
  DEF Pick, GetConnFails, ReconnectNotNeeded, ReconnectFails, Reconnect, Write
<1>7. ASSUME NEW r \in Sockets,
             \/ ReaderTop(r) \/ ReaderData(r) \/ ReaderError(r)
             \/ ReaderClose(r) \/ ReaderCloseRw(r) \/ ReaderCloseOwn(r)
             \/ PeerBreaks(r)
      PROVE  PoolWithinLimit'
  BY <1>5, <1>7
  DEF ReaderTop, ReaderData, ReaderError, ReaderClose, ReaderCloseRw,
      ReaderCloseOwn, PeerBreaks
<1>8. CASE CloserStart \/ CloserClose \/ CloserCloseRw
  BY <1>5, <1>8 DEF CloserStart, CloserClose, CloserCloseRw
<1>9. ASSUME NEW how \in {"replaced", "removed"}, Retire(how)
      PROVE  PoolWithinLimit'
  BY <1>5, <1>9 DEF Retire
<1>10. CASE UNCHANGED vars
  BY <1>5, <1>10 DEF vars
<1>. QED BY <1>1, <1>3, <1>4, <1>6, <1>7, <1>8, <1>9, <1>10
         DEF Next, SenderStep, ReaderStep, CloserStep

-----------------------------------------------------------------------------
(* The clientConns that leave the pool.                                    *)

\* Only the goroutine that takes a clientConn out of the pool lets go of it.
LEMMA LeavingStays ==
  ASSUME closer' = closer, closing' = closing, NEW k,
         \A s \in Sockets : reader[s] \in {"closeRw", "remove"} =>
           reader'[s] \in {"closeRw", "remove"} /\ owner'[s] = owner[s]
  PROVE  Leaving(k) => Leaving(k)'
  BY DEF Leaving

\* The same pool: a connection that stops running gets somebody to remove it.
LEMMA LeavingFrame ==
  ASSUME ClosedConnIsLeaving, conns' = conns, conns \in Seq(ConnIds),
         \A k \in ConnIds : running[k] => running'[k] \/ Leaving(k)',
         \A k \in ConnIds : Leaving(k) => Leaving(k)'
  PROVE  ClosedConnIsLeaving'
<1>1. \A i \in 1 .. Len(conns) : conns[i] \in ConnIds
  BY ElementOfSeq
<1>. QED BY <1>1 DEF ClosedConnIsLeaving

\* removeConn: those that stay keep whoever is to remove them.
LEMMA LeavingRemove ==
  ASSUME TypeOK, ClosedConnIsLeaving, NEW k, conns' = Without(k),
         running' = running,
         \A l \in ConnIds : l # k /\ Leaving(l) => Leaving(l)'
  PROVE  ClosedConnIsLeaving'
<1>1. /\ conns \in Seq(ConnIds)
      /\ \A j \in 1 .. Len(conns) : conns[j] \in ConnIds
  BY ElementOfSeq DEF TypeOK
<1>2. \A i \in 1 .. Len(Without(k)) :
        /\ Without(k)[i] # k
        /\ \E j \in 1 .. Len(conns) : Without(k)[i] = conns[j]
  BY <1>1, WithoutFacts
<1>. QED BY <1>1, <1>2 DEF ClosedConnIsLeaving

\* close marks a clientConn as closed on the way to removeConn only, and only
\* removeConn ends that way.
LEMMA LeavingStep ==
  ASSUME TypeInv, SocketsInv, CauseInv, ClosedConnIsLeaving, [Next]_vars
  PROVE  ClosedConnIsLeaving'
<1> USE ConnectorAssumption
<1> USE DEF poolVars, socketVars, connVars, senderVars, closerVars
<1>0. /\ TypeOK /\ conns \in Seq(ConnIds) /\ Len(conns) \in Nat
      /\ dials \in Nat /\ nextId \in Nat
      /\ running \in [ConnIds -> BOOLEAN]
      /\ reader \in [Sockets -> ReaderStates]
  BY DEF TypeInv, TypeOK
\* Sockets that were not dialled have no reader.
<1>1. \A s \in Sockets : reader[s] \in {"closeRw", "remove"} => s <= dials
  BY <1>0 DEF SocketsInv, SocketInv, Sockets
<1>2. ASSUME NEW t \in Senders, GetConn(t) PROVE ClosedConnIsLeaving'
  <2>1. PICK n \in {0, 1, 2} :
          AddConns(n) /\ conns' = Grown(n) /\ nextId + n <= MaxDials
    BY <1>0, <1>2, GetConnFacts
  <2>2. OpenSockets(n) /\ UNCHANGED <<closer, closing>>
    BY <1>2, <2>1 DEF GetConn, AddConns
  <2>3. \A s \in Sockets : reader[s] \in {"closeRw", "remove"} =>
          reader'[s] = reader[s] /\ owner'[s] = owner[s]
    <3>1. \A s \in Sockets : s <= dials => s \notin dials + 1 .. dials + n
      BY <1>0 DEF Sockets
    <3>. QED BY <1>0, <1>1, <2>1, <2>2, <3>1, OpenFacts, AddConnsFacts
  <2>4. \A k : Leaving(k) => Leaving(k)'
    BY <2>2, <2>3, LeavingStays
  <2>5. /\ Len(Grown(n)) = Len(conns) + n
        /\ \A i \in 1 .. Len(conns) : Grown(n)[i] = conns[i]
        /\ \A i \in 1 .. n : Grown(n)[Len(conns) + i] = nextId + i
    <3>1. n \in Nat
      BY <2>1
    <3>. QED BY <1>0, <2>1, <3>1, GrownFacts
  <2>6. \A k \in ConnIds : running[k] => running'[k]
    BY <1>0, <2>1, AddConnsFacts
  <2>7. \A j \in 1 .. n : running'[nextId + j]
    <3>1. \A j \in 1 .. n :
            /\ nextId + j \in ConnIds
            /\ nextId + j \in nextId + 1 .. nextId + n
      BY <1>0, <2>1 DEF ConnIds
    <3>. QED BY <1>0, <2>1, <3>1, AddConnsFacts
  <2>8. ASSUME NEW i \in 1 .. Len(Grown(n)), NEW k, k = Grown(n)[i]
        PROVE  running'[k] \/ Leaving(k)'
    <3>1. CASE i <= Len(conns)
      <4>1. i \in 1 .. Len(conns) /\ conns[i] \in ConnIds
        BY <1>0, <2>5, <3>1, ElementOfSeq
      <4>. QED BY <2>4, <2>5, <2>6, <2>8, <4>1 DEF ClosedConnIsLeaving
    <3>2. CASE i > Len(conns)
      <4>1. i - Len(conns) \in 1 .. n /\ Len(conns) + (i - Len(conns)) = i
        BY <1>0, <2>5, <3>2
      <4>. QED BY <2>5, <2>7, <2>8, <4>1
    <3>. QED BY <1>0, <2>5, <3>1, <3>2
  <2>. QED BY <2>1, <2>8 DEF ClosedConnIsLeaving
<1>3. ASSUME NEW t \in Senders, Reconnect(t) PROVE ClosedConnIsLeaving'
  <2>1. /\ OpenSockets(1) /\ UNCHANGED <<conns, closer, closing>>
        /\ owner' = [owner EXCEPT ![dials + 1] = using[t]]
        /\ running' = [running EXCEPT ![using[t]] = TRUE]
    BY <1>3 DEF Reconnect
  <2>2. \A s \in Sockets : reader[s] \in {"closeRw", "remove"} =>
          reader'[s] = reader[s] /\ owner'[s] = owner[s]
    <3>1. \A s \in Sockets : s <= dials =>
            s \notin dials + 1 .. dials + 1 /\ s # dials + 1
      BY <1>0 DEF Sockets
    <3>. QED BY <1>0, <1>1, <2>1, <3>1, OpenFacts DEF TypeOK
  <2>3. \A k : Leaving(k) => Leaving(k)'
    BY <2>1, <2>2, LeavingStays
  <2>4. \A k \in ConnIds : running[k] => running'[k]
    BY <1>0, <2>1
  <2>. QED BY <1>0, <2>1, <2>3, <2>4, LeavingFrame
<1>4. ASSUME NEW r \in Sockets,
             \/ ReaderTop(r) \/ ReaderData(r) \/ ReaderError(r)
             \/ ReaderClose(r) \/ ReaderCloseRw(r) \/ ReaderCloseOwn(r)
             \/ PeerBreaks(r)
      PROVE  ClosedConnIsLeaving'
  <2>1. UNCHANGED <<conns, owner, closer, closing>>
    BY <1>4
    DEF ReaderTop, ReaderData, ReaderError, ReaderClose, ReaderCloseRw,
        ReaderCloseOwn, PeerBreaks
  <2>2. \A s \in Sockets : reader[s] \in {"closeRw", "remove"} =>
          reader'[s] \in {"closeRw", "remove"}
    BY <1>0, <1>4
    DEF ReaderTop, ReaderData, ReaderError, ReaderClose, ReaderCloseRw,
        ReaderCloseOwn, PeerBreaks, ReaderGoes
  <2>3. \A k : Leaving(k) => Leaving(k)'
    BY <2>1, <2>2, LeavingStays
  <2>4. \A k \in ConnIds : running[k] => running'[k] \/ Leaving(k)'
    <3>1. CASE ReaderClose(r)
      <4>1. \A k \in ConnIds : running[k] /\ ~running'[k] =>
              k = owner[r] /\ reader'[r] = "closeRw"
        BY <1>0, <3>1 DEF ReaderClose, ReaderGoes
      <4>. QED BY <2>1, <4>1 DEF Leaving
    <3>2. CASE ~ReaderClose(r)
      BY <1>4, <3>2
      DEF ReaderTop, ReaderData, ReaderError, ReaderCloseRw, ReaderCloseOwn,
          PeerBreaks
    <3>. QED BY <3>1, <3>2
  <2>. QED BY <1>0, <2>1, <2>3, <2>4, LeavingFrame
<1>5. ASSUME NEW r \in Sockets, ReaderRemove(r) PROVE ClosedConnIsLeaving'
  <2>1. /\ conns' = Without(owner[r])
        /\ UNCHANGED <<owner, running, closer, closing>>
        /\ \A s \in Sockets : s # r => reader'[s] = reader[s]
    BY <1>0, <1>5 DEF ReaderRemove, ReaderGoes
  <2>2. \A k \in ConnIds : k # owner[r] /\ Leaving(k) => Leaving(k)'
    BY <2>1 DEF Leaving
  <2>. QED BY <1>0, <2>1, <2>2, LeavingRemove
<1>6. CASE CloserClose
  <2>1. UNCHANGED <<conns, owner, reader>> /\ closer = "close"
    BY <1>6 DEF CloserClose
  <2>2. \A k : Leaving(k) => Leaving(k)'
    BY <2>1 DEF Leaving
  <2>3. \A k \in ConnIds : running[k] /\ ~running'[k] =>
          /\ k = Head(closing) /\ closer' = "closeRw" /\ closing' = closing
    BY <1>0, <1>6 DEF CloserClose
  <2>4. \A k \in ConnIds : running[k] => running'[k] \/ Leaving(k)'
    BY <2>3 DEF Leaving
  <2>. QED BY <1>0, <2>1, <2>2, <2>4, LeavingFrame
<1>7. CASE CloserCloseRw
  <2>1. /\ UNCHANGED <<conns, owner, reader, running, closing>>
        /\ closer' = "remove"
    BY <1>7 DEF CloserCloseRw
  <2>2. \A k : Leaving(k) => Leaving(k)'
    BY <2>1 DEF Leaving
  <2>. QED BY <1>0, <2>1, <2>2, LeavingFrame
<1>8. CASE CloserRemove
  <2>1. /\ conns' = Without(Head(closing))
        /\ UNCHANGED <<owner, running, reader>>
    BY <1>8 DEF CloserRemove
  <2>2. \A k \in ConnIds : k # Head(closing) /\ Leaving(k) => Leaving(k)'
    BY <2>1 DEF Leaving
  <2>. QED BY <1>0, <2>1, <2>2, LeavingRemove
<1>9. ASSUME \/ CloserStart
             \/ \E how \in {"replaced", "removed"} : Retire(how)
      PROVE  ClosedConnIsLeaving'
  <2>1. UNCHANGED <<conns, owner, reader, running>>
    BY <1>9 DEF CloserStart, Retire
  <2>2. closer \notin {"closeRw", "remove"}
    <3>1. CASE CloserStart
      BY <3>1 DEF CloserStart
    <3>2. CASE \E how \in {"replaced", "removed"} : Retire(how)
      BY <3>2 DEF Retire, CauseInv
    <3>. QED BY <1>9, <3>1, <3>2
  <2>3. \A k : Leaving(k) => Leaving(k)'
    BY <2>1, <2>2 DEF Leaving
  <2>. QED BY <1>0, <2>1, <2>3, LeavingFrame
<1>10. ASSUME \/ \E t \in Senders :
                   \/ Pick(t) \/ GetConnFails(t) \/ ReconnectNotNeeded(t)
                   \/ ReconnectFails(t) \/ Write(t)
              \/ UNCHANGED vars
       PROVE  ClosedConnIsLeaving'
  <2>1. UNCHANGED <<conns, owner, reader, running, closer, closing>>
    BY <1>10
    DEF Pick, GetConnFails, ReconnectNotNeeded, ReconnectFails, Write, vars
  <2>. QED BY <2>1 DEF ClosedConnIsLeaving, Leaving
<1>. QED BY <1>2, <1>3, <1>4, <1>5, <1>6, <1>7, <1>8, <1>9, <1>10
         DEF Next, SenderStep, ReaderStep, CloserStep

-----------------------------------------------------------------------------

\* What the proofs below rest on, together.
ConnectorInv ==
    /\ TypeInv /\ SocketsInv /\ ConnsInv /\ UsersInv /\ CauseInv
    /\ PoolWithinLimit /\ ClosedConnIsLeaving

\* The invariant of the connector, of all its sockets and goroutines.
THEOREM ConnectorAlways == Spec => []ConnectorInv
<1>1. Init => ConnectorInv
  <2>1. Init => ClosedConnIsLeaving
    BY EmptySeq DEF Init, ClosedConnIsLeaving
  <2>. QED BY <2>1, TypeInit, InvInit, PoolInit DEF ConnectorInv
<1>2. ConnectorInv /\ [Next]_vars => ConnectorInv'
  BY TypeStep, SocketsStep, ConnsStep, UsersStep, CauseStep, PoolStep,
     LeavingStep
  DEF ConnectorInv
<1>. QED BY <1>1, <1>2, PTL DEF Spec

\* A connection that senders may use as it is has a recv goroutine on its
\* socket that has not begun to close it, whatever readers of older sockets do.
THEOREM RunningIsRead == Spec => []RunningConnIsRead
<1>1. ConnectorInv => RunningConnIsRead
  BY DEF ConnectorInv, ConnsInv, ConnInv, RunningConnIsRead, Reading
<1>. QED BY <1>1, ConnectorAlways, PTL

\* An open socket always has a recv goroutine that will close it, however often
\* reconnect replaced it.
THEOREM OpenIsOwned == Spec => []OpenSocketHasReader
<1>1. ConnectorInv => OpenSocketHasReader
  <2> SUFFICES ASSUME ConnectorInv, NEW s \in Sockets,
                      socket[s] \in {"open", "broken"}
               PROVE  reader[s] \notin {"none", "exited"}
    BY DEF OpenSocketHasReader
  <2>1. SocketInv(s) /\ dials \in Nat /\ s \in Nat
    BY DEF ConnectorInv, SocketsInv, TypeInv, TypeOK, Sockets
  <2>. QED BY <2>1 DEF SocketInv
<1>. QED BY <1>1, ConnectorAlways, PTL

\* getConn and removeConn keep the pool within max(1, maxConn), without
\* duplicates.
THEOREM PoolIsLimited == Spec => []PoolWithinLimit
<1>1. ConnectorInv => PoolWithinLimit
  BY DEF ConnectorInv
<1>. QED BY <1>1, ConnectorAlways, PTL

\* A closed connection in the pool has a goroutine on its way to remove it,
\* however the closes of its readers and its reconnects overlap.
THEOREM ClosedIsLeaving == Spec => []ClosedConnIsLeaving
<1>1. ConnectorInv => ClosedConnIsLeaving
  BY DEF ConnectorInv
<1>. QED BY <1>1, ConnectorAlways, PTL

\* recv and close cut off no socket unless the peer broke one of its connection
\* or discovery removed the address.
THEOREM ClosesForCause == Spec => []ClosedForCause
<1>1. ConnectorInv => ClosedForCause
  BY DEF ConnectorInv, CauseInv, Cause, ClosedForCause
<1>. QED BY <1>1, ConnectorAlways, PTL

-----------------------------------------------------------------------------
(* What the recv goroutine of a socket makes of its bytes (Framing).       *)

Bytes == [packet : Nat, at : Nat]

\* The bytes that are neither handed over nor lost.
Unsplit == buf \o wire

WellFormed(k) == declared[k] > HeaderSize

\* Byte c may come after byte b: in the same packet, or as the first one of the
\* next.  Where a malformed packet ends is not known from its header.
Follows(b, c) ==
    \/ /\ c = [packet |-> b.packet, at |-> b.at + 1]
       /\ WellFormed(b.packet) => b.at < declared[b.packet]
    \/ /\ c = [packet |-> b.packet + 1, at |-> 1]
       /\ WellFormed(b.packet) => b.at = declared[b.packet]

StreamTypes ==
    /\ declared \in Seq(Nat)
    /\ wire \in Seq(Bytes)
    /\ buf \in Seq(Bytes)
    /\ cut \in BOOLEAN
    /\ pc \in {"read", "split", "returned"}
    /\ Len(invoked) <= Len(declared)
    /\ invoked \in Seq(Seq(Bytes))

\* The bytes s of packets with these headers, in the order they were written.
IsChain(s) ==
    /\ \A i \in 1 .. Len(s) : s[i].packet \in 1 .. Len(declared)
    /\ \A i \in 1 .. Len(s) - 1 : Follows(s[i], s[i + 1])

\* s ends with the last byte of the last packet.
EndsWhole(s) ==
    /\ s[Len(s)].packet = Len(declared)
    /\ WellFormed(Len(declared)) =>
         s[Len(s)].at = declared[Len(declared)]

\* The stream begins where the last message that was handed over ends, and
\* ends, on a connection that is up, with what was written last.
StreamInv ==
    /\ StreamTypes
    /\ IsChain(Unsplit)
    /\ pc # "returned" /\ Unsplit # <<>> =>
         Unsplit[1] = [packet |-> Len(invoked) + 1, at |-> 1]
    /\ ~cut /\ Unsplit # <<>> => EndsWhole(Unsplit)
    /\ ~cut /\ Unsplit = <<>> /\ pc # "returned" =>
         Len(invoked) = Len(declared)
    /\ InvokedInOrder

LEMMA StreamInit == FramingInit => StreamInv
<1> SUFFICES ASSUME FramingInit PROVE StreamInv
  OBVIOUS
<1>1. /\ declared = <<>> /\ wire = <<>> /\ buf = <<>> /\ invoked = <<>>
      /\ cut = FALSE /\ pc = "read"
  BY DEF FramingInit
<1>2. Unsplit = <<>> /\ Len(Unsplit) = 0
  BY <1>1 DEF Unsplit
<1>3. IsChain(Unsplit)
  BY <1>2 DEF IsChain
<1>4. InvokedInOrder
  BY <1>1 DEF InvokedInOrder
<1>5. StreamTypes
  <2>1. /\ <<>> \in Seq(Nat) /\ <<>> \in Seq(Bytes) /\ <<>> \in Seq(Seq(Bytes))
        /\ Len(<<>>) <= Len(<<>>)
    OBVIOUS
  <2>. QED BY <1>1, <2>1 DEF StreamTypes
<1>. QED BY <1>1, <1>2, <1>3, <1>4, <1>5 DEF StreamInv

\* The bytes at the head of a chain, up to the end of the packet they are of.
LEMMA HeadPacket ==
  ASSUME NEW s \in Seq(Bytes), IsChain(s), NEW k \in Nat, declared[k] \in Nat,
         Len(s) > 0, s[1] = [packet |-> k, at |-> 1], WellFormed(k)
  PROVE  /\ \A i \in 1 .. Len(s) :
              i <= declared[k] => s[i] = [packet |-> k, at |-> i]
         /\ Len(s) > declared[k] =>
              s[declared[k] + 1] = [packet |-> k + 1, at |-> 1]
<1> DEFINE d == declared[k]
           T == {n \in Nat : n + 1 <= Len(s) /\ n + 1 <= d =>
                               s[n + 1] = [packet |-> k, at |-> n + 1]}
<1>0. Len(s) \in Nat /\ d \in Nat /\ d > 4
  BY DEF WellFormed, HeaderSize
<1>1. 0 \in T
  OBVIOUS
<1>2. ASSUME NEW n \in Nat, n \in T PROVE n + 1 \in T
  <2> SUFFICES ASSUME n + 2 <= Len(s), n + 2 <= d
               PROVE  s[n + 2] = [packet |-> k, at |-> n + 2]
    <3>1. n + 1 \in Nat /\ (n + 1) + 1 = n + 2
      OBVIOUS
    <3>. QED BY <3>1
  <2>1. s[n + 1] = [packet |-> k, at |-> n + 1]
    BY <1>0, <1>2
  <2>2. Follows(s[n + 1], s[n + 2])
    <3>1. n + 1 \in 1 .. Len(s) - 1 /\ (n + 1) + 1 = n + 2
      BY <1>0
    <3>. QED BY <3>1 DEF IsChain
  <2>3. s[n + 1].packet = k /\ s[n + 1].at = n + 1
    BY <2>1
  <2>4. n + 1 # d /\ (n + 1) + 1 = n + 2
    BY <1>0
  <2>. QED BY <2>2, <2>3, <2>4 DEF Follows
<1>3. Nat \subseteq T
  <2> HIDE DEF T
  <2>. QED BY ONLY <1>1, <1>2, NatSetInduction
<1>4. ASSUME NEW i \in 1 .. Len(s), i <= d
      PROVE  s[i] = [packet |-> k, at |-> i]
  <2>1. i - 1 \in Nat /\ (i - 1) + 1 = i
    BY <1>0
  <2>2. i - 1 \in T
    BY <1>3, <2>1
  <2>. QED BY <1>0, <1>4, <2>1, <2>2
<1>5. ASSUME Len(s) > d PROVE s[d + 1] = [packet |-> k + 1, at |-> 1]
  <2>1. d \in 1 .. Len(s) - 1 /\ d \in 1 .. Len(s)
    BY <1>0, <1>5
  <2>2. s[d] = [packet |-> k, at |-> d] /\ Follows(s[d], s[d + 1])
    BY <1>0, <1>4, <2>1 DEF IsChain
  <2>3. s[d].packet = k /\ s[d].at = d /\ ~(d < d)
    BY <1>0, <2>2
  <2>. QED BY <2>2, <2>3 DEF Follows
<1>. QED BY <1>4, <1>5

\* The same invoked messages, of packets that were written before.
LEMMA OrderFrame ==
  ASSUME StreamTypes, InvokedInOrder, invoked' = invoked,
         \A k \in 1 .. Len(declared) : declared'[k] = declared[k]
  PROVE  InvokedInOrder'
<1>1. Len(invoked) \in Nat /\ Len(declared) \in Nat
  BY DEF StreamTypes
<1>2. \A k \in 1 .. Len(invoked) : k \in 1 .. Len(declared)
  BY <1>1 DEF StreamTypes
<1>3. ASSUME NEW k \in 1 .. Len(invoked)
      PROVE  /\ declared'[k] > HeaderSize
             /\ invoked'[k] = Message(
                  Packet(k, declared'[k] - HeaderSize))
  BY <1>2 DEF InvokedInOrder
<1>. QED BY <1>3 DEF InvokedInOrder, Message, Packet

\* Concatenations, prefixes and suffixes of sequences of bytes.
LEMMA ConcatFacts ==
  ASSUME NEW s \in Seq(Bytes), NEW t \in Seq(Bytes)
  PROVE  /\ s \o t \in Seq(Bytes) /\ Len(s \o t) = Len(s) + Len(t)
         /\ (s \o t = <<>>) <=> (Len(s) + Len(t) = 0)
         /\ \A i \in 1 .. Len(s) : (s \o t)[i] = s[i]
         /\ \A i \in 1 .. Len(t) : (s \o t)[Len(s) + i] = t[i]
         /\ \A i \in 1 .. Len(s) + Len(t) :
              i > Len(s) => (s \o t)[i] = t[i - Len(s)]
<1>1. s \o t \in Seq(Bytes) /\ Len(s \o t) = Len(s) + Len(t)
  OBVIOUS
<1>2. Len(s) \in Nat /\ Len(t) \in Nat
  OBVIOUS
<1>3. (s \o t = <<>>) <=> (Len(s \o t) = 0)
  BY <1>1
<1>4. \A i \in 1 .. Len(s) : (s \o t)[i] = s[i]
  OBVIOUS
<1>5. ASSUME NEW i \in 1 .. Len(s) + Len(t), i > Len(s)
      PROVE  (s \o t)[i] = t[i - Len(s)]
  BY <1>2, <1>5
<1>6. ASSUME NEW i \in 1 .. Len(t)
      PROVE  (s \o t)[Len(s) + i] = t[i]
  <2>1. /\ Len(s) + i \in 1 .. Len(s) + Len(t) /\ Len(s) + i > Len(s)
        /\ Len(s) + i - Len(s) = i
    BY <1>2
  <2>. QED BY <1>5, <2>1
<1>. QED BY <1>1, <1>3, <1>4, <1>5, <1>6

LEMMA CutFacts ==
  ASSUME NEW s \in Seq(Bytes), NEW n \in 0 .. Len(s)
  PROVE  /\ SubSeq(s, 1, n) \in Seq(Bytes) /\ Len(SubSeq(s, 1, n)) = n
         /\ \A i \in 1 .. n : SubSeq(s, 1, n)[i] = s[i]
         /\ SubSeq(s, n + 1, Len(s)) \in Seq(Bytes)
         /\ Len(SubSeq(s, n + 1, Len(s))) = Len(s) - n
         /\ \A i \in 1 .. Len(s) - n : SubSeq(s, n + 1, Len(s))[i] = s[n + i]
<1>1. n \in Nat /\ Len(s) \in Nat /\ n <= Len(s)
  OBVIOUS
<1>. QED BY <1>1

\* A concatenation whose second part is cut, and one whose first part loses
\* its head.
LEMMA ConcatCut ==
  ASSUME NEW s \in Seq(Bytes), NEW t \in Seq(Bytes), NEW u \in Seq(Bytes),
         Len(u) <= Len(t), \A i \in 1 .. Len(u) : u[i] = t[i]
  PROVE  \A i \in 1 .. Len(s) + Len(u) : (s \o u)[i] = (s \o t)[i]
<1>0. Len(s) \in Nat /\ Len(t) \in Nat /\ Len(u) \in Nat
  OBVIOUS
<1> SUFFICES ASSUME NEW i \in 1 .. Len(s) + Len(u)
             PROVE  (s \o u)[i] = (s \o t)[i]
  OBVIOUS
<1>1. CASE i <= Len(s)
  <2>1. i \in 1 .. Len(s)
    BY <1>0, <1>1
  <2>2. (s \o u)[i] = s[i]
    BY ONLY <2>1, ConcatFacts, s \in Seq(Bytes), u \in Seq(Bytes)
  <2>3. (s \o t)[i] = s[i]
    BY ONLY <2>1, ConcatFacts, s \in Seq(Bytes), t \in Seq(Bytes)
  <2>. QED BY ONLY <2>2, <2>3
<1>2. CASE i > Len(s)
  <2>1. i \in 1 .. Len(s) + Len(t) /\ i - Len(s) \in 1 .. Len(u)
    BY <1>0, <1>2
  <2>2. (s \o u)[i] = u[i - Len(s)]
    <3>1. i \in 1 .. Len(s) + Len(u)
      OBVIOUS
    <3>. QED BY ONLY <1>2, <3>1, ConcatFacts, s \in Seq(Bytes),
                     u \in Seq(Bytes)
  <2>3. (s \o t)[i] = t[i - Len(s)]
    BY ONLY <1>2, <2>1, ConcatFacts, s \in Seq(Bytes), t \in Seq(Bytes)
  <2>4. u[i - Len(s)] = t[i - Len(s)]
    BY <2>1
  <2>. QED BY ONLY <2>2, <2>3, <2>4
<1>. QED BY <1>0, <1>1, <1>2

\* u is s without its first d elements.
Drops(u, s, d) ==
    /\ Len(u) = Len(s) - d
    /\ \A i \in 1 .. Len(s) - d : u[i] = s[d + i]

LEMMA ConcatDrop ==
  ASSUME NEW s \in Seq(Bytes), NEW t \in Seq(Bytes), NEW u \in Seq(Bytes),
         NEW d \in Nat, d <= Len(s), Drops(u, s, d)
  PROVE  /\ Drops(u \o t, s \o t, d)
         /\ (u \o t = <<>>) <=> (Len(s \o t) - d = 0)
<1>0. /\ Len(s) \in Nat /\ Len(t) \in Nat /\ Len(u) \in Nat
      /\ Len(u) = Len(s) - d
  BY DEF Drops
<1>1. Len(s \o t) = Len(s) + Len(t) /\ Len(u \o t) = Len(u) + Len(t)
  BY ConcatFacts
<1>2. Len(u \o t) = Len(s \o t) - d
  BY <1>0, <1>1
<1>3. (u \o t = <<>>) <=> (Len(u) + Len(t) = 0)
  BY ConcatFacts
<1>4. ASSUME NEW i \in 1 .. Len(s \o t) - d
      PROVE  (u \o t)[i] = (s \o t)[d + i]
  <2>1. i \in 1 .. Len(u) + Len(t) /\ d + i \in 1 .. Len(s) + Len(t)
    BY <1>0, <1>1
  <2>2. CASE i <= Len(u)
    <3>1. /\ i \in 1 .. Len(u) /\ d + i \in 1 .. Len(s)
          /\ i \in 1 .. Len(s) - d
      BY <1>0, <2>1, <2>2
    <3>2. (u \o t)[i] = u[i]
      BY ONLY <3>1, ConcatFacts, u \in Seq(Bytes), t \in Seq(Bytes)
    <3>3. (s \o t)[d + i] = s[d + i]
      BY ONLY <3>1, ConcatFacts, s \in Seq(Bytes), t \in Seq(Bytes)
    <3>4. u[i] = s[d + i]
      BY <3>1 DEF Drops
    <3>. QED BY ONLY <3>2, <3>3, <3>4
  <2>3. CASE i > Len(u)
    <3>0. PICK x \in 1 .. Len(s) + Len(t) : x = d + i
      BY <2>1
    <3>1. x > Len(s) /\ x - Len(s) = i - Len(u)
      BY <1>0, <2>3, <3>0
    <3>2. (u \o t)[i] = t[i - Len(u)]
      BY ONLY <2>1, <2>3, ConcatFacts, u \in Seq(Bytes), t \in Seq(Bytes)
    <3>3. (s \o t)[x] = t[x - Len(s)]
      BY ONLY <3>0, <3>1, ConcatFacts, s \in Seq(Bytes), t \in Seq(Bytes)
    <3>. QED BY ONLY <3>0, <3>1, <3>2, <3>3
  <2>. QED BY <1>0, <2>1, <2>2, <2>3
<1>5. Drops(u \o t, s \o t, d)
  BY ONLY <1>2, <1>4 DEF Drops
<1>. QED BY <1>0, <1>1, <1>3, <1>5

\* A packet is written: it follows the last byte of the one before.
LEMMA PacketWritten ==
  ASSUME StreamInv, NEW n \in BodySizes, NEW size \in Nat,
         size = HeaderSize + n \/ size <= HeaderSize,
         Put(Count + 1, n, size)
  PROVE  StreamInv'
<1>0. PICK K \in Nat : K = Len(declared) + 1
  BY DEF StreamInv, StreamTypes
<1> DEFINE r == Unsplit
           P == Packet(K, n)
<1>1. n \in Nat /\ n > 0 /\ HeaderSize = 4
  BY FramingAssumption DEF HeaderSize
<1>2. /\ declared \in Seq(Nat) /\ wire \in Seq(Bytes) /\ buf \in Seq(Bytes)
      /\ Len(declared) \in Nat /\ K > 0
      /\ Len(invoked) \in Nat /\ Len(invoked) <= Len(declared)
  BY <1>0 DEF StreamInv, StreamTypes
<1>3. /\ ~cut /\ declared' = Append(declared, size) /\ wire' = wire \o P
      /\ UNCHANGED <<cut, pc, buf, invoked>>
  BY <1>0 DEF Put, Count
<1>4. /\ P \in Seq(Bytes) /\ Len(P) = 4 + n
      /\ \A j \in 1 .. 4 + n : P[j] = [packet |-> K, at |-> j]
  <2>1. P = [i \in 1 .. 4 + n |-> [packet |-> K, at |-> i]]
    BY <1>1 DEF Packet
  <2>2. 4 + n \in Nat
    BY <1>1
  <2>3. \A i \in 1 .. 4 + n : [packet |-> K, at |-> i] \in Bytes
    BY <1>2 DEF Bytes
  <2> HIDE DEF P
  <2>. QED BY <2>1, <2>2, <2>3
<1>5. /\ Len(declared') = K /\ declared'[K] = size /\ declared' \in Seq(Nat)
      /\ \A k \in 1 .. Len(declared) : declared'[k] = declared[k]
  BY <1>0, <1>2, <1>3
<1> HIDE DEF P
<1>6. r \in Seq(Bytes) /\ Len(r) \in Nat /\ (r = <<>> <=> Len(r) = 0)
  BY <1>2 DEF Unsplit
<1>7. Unsplit' = r \o P
  <2>1. \A a, b, c \in Seq(Bytes) : (a \o b) \o c = a \o (b \o c)
    OBVIOUS
  <2>2. (buf \o wire) \o P = buf \o (wire \o P)
    BY ONLY <1>2, <1>4, <2>1
  <2>. QED BY <1>3, <2>2 DEF Unsplit
<1> HIDE DEF r
<1>8. /\ Len(Unsplit') = Len(r) + 4 + n /\ Unsplit' # <<>>
      /\ \A i \in 1 .. Len(r) : Unsplit'[i] = r[i]
      /\ \A j \in 1 .. 4 + n : Unsplit'[Len(r) + j] = [packet |-> K, at |-> j]
  <2>1. Len(r \o P) = Len(r) + 4 + n /\ r \o P # <<>>
    <3>1. Len(r \o P) = Len(r) + Len(P)
      BY <1>4, <1>6, ConcatFacts
    <3>2. Len(r \o P) = Len(r) + 4 + n /\ Len(r \o P) > 0
      BY <1>1, <1>4, <1>6, <3>1
    <3>. QED BY <3>2
  <2>2. \A i \in 1 .. Len(r) : (r \o P)[i] = r[i]
    BY <1>4, <1>6
  <2>3. \A j \in 1 .. 4 + n : (r \o P)[Len(r) + j] = P[j]
    BY <1>1, <1>4, <1>6
  <2>. QED BY <1>4, <1>7, <2>1, <2>2, <2>3
<1>9. StreamTypes'
  <2>1. wire \o P \in Seq(Bytes)
    BY <1>2, <1>4
  <2>. QED BY <1>2, <1>3, <1>5, <2>1 DEF StreamInv, StreamTypes
<1>10. IsChain(r) /\ (r # <<>> => EndsWhole(r))
  BY <1>3 DEF StreamInv, r
<1>11. IsChain(Unsplit)'
  <2>1. ASSUME NEW i \in 1 .. Len(Unsplit')
        PROVE  Unsplit'[i].packet \in 1 .. Len(declared')
    <3>1. CASE i <= Len(r)
      <4>1. i \in 1 .. Len(r)
        BY <1>6, <1>8, <3>1
      <4>2. r[i].packet \in 1 .. Len(declared) /\ Unsplit'[i] = r[i]
        BY <1>8, <1>10, <4>1 DEF IsChain
      <4>. QED BY <1>0, <1>2, <1>5, <4>2
    <3>2. CASE i > Len(r)
      <4>1. i - Len(r) \in 1 .. 4 + n /\ Len(r) + (i - Len(r)) = i
        BY <1>1, <1>6, <1>8, <3>2
      <4>2. Unsplit'[i].packet = K
        <5>1. Unsplit'[Len(r) + (i - Len(r))]
                = [packet |-> K, at |-> i - Len(r)]
          BY <1>8, <4>1
        <5>. QED BY <4>1, <5>1
      <4>. QED BY <1>2, <1>5, <4>2
    <3>. QED BY <1>6, <1>8, <3>1, <3>2
  <2>2. ASSUME NEW i \in 1 .. Len(Unsplit') - 1
        PROVE  Follows(Unsplit[i], Unsplit[i + 1])'
    <3>1. CASE i < Len(r)
      <4>1. i \in 1 .. Len(r) - 1 /\ i \in 1 .. Len(r) /\ i + 1 \in 1 .. Len(r)
        BY <1>6, <1>8, <3>1
      <4>2. Follows(r[i], r[i + 1]) /\ r[i].packet \in 1 .. Len(declared)
        BY <1>10, <4>1 DEF IsChain
      <4>3. declared'[r[i].packet] = declared[r[i].packet]
        BY <1>5, <4>2
      <4>4. Unsplit'[i] = r[i] /\ Unsplit'[i + 1] = r[i + 1]
        BY <1>8, <4>1
      <4>. QED BY <4>2, <4>3, <4>4 DEF Follows, WellFormed
    <3>2. CASE i = Len(r)
      <4>1. i \in 1 .. Len(r) /\ r # <<>> /\ 1 \in 1 .. 4 + n
        BY <1>1, <1>6, <1>8, <3>2
      <4>2. /\ Unsplit'[i] = r[i]
            /\ Unsplit'[i + 1] = [packet |-> K, at |-> 1]
        BY <1>8, <3>2, <4>1
      <4>3. /\ r[i].packet = Len(declared)
            /\ WellFormed(Len(declared)) => r[i].at = declared[Len(declared)]
        BY <1>10, <3>2, <4>1 DEF EndsWhole
      <4>4. Len(declared) \in 1 .. Len(declared)
        BY <1>10, <4>1, <4>3 DEF IsChain
      <4>5. declared'[Len(declared)] = declared[Len(declared)]
        BY <1>5, <4>4
      <4>6. Unsplit'[i].packet + 1 = K
        BY <1>0, <4>2, <4>3
      <4>. QED BY <4>2, <4>3, <4>5, <4>6 DEF Follows, WellFormed
    <3>3. CASE i > Len(r)
      <4>1. /\ i - Len(r) \in 1 .. 4 + n /\ Len(r) + (i - Len(r)) = i
            /\ i - Len(r) + 1 \in 1 .. 4 + n
            /\ Len(r) + (i - Len(r) + 1) = i + 1
            /\ i - Len(r) < 4 + n
        BY <1>1, <1>6, <1>8, <3>3
      <4>2. /\ Unsplit'[i] = [packet |-> K, at |-> i - Len(r)]
            /\ Unsplit'[i + 1] = [packet |-> K, at |-> i - Len(r) + 1]
        BY <1>8, <4>1
      <4>3. WellFormed(K)' => size = 4 + n
        BY <1>1, <1>5 DEF WellFormed
      <4>4. WellFormed(K)' => i - Len(r) < declared'[K]
        BY <1>5, <4>1, <4>3
      <4>. QED BY <4>2, <4>4 DEF Follows
    <3>. QED BY <1>6, <1>8, <3>1, <3>2, <3>3
  <2>. QED BY <2>1, <2>2 DEF IsChain
<1>12. pc' # "returned" =>
         Unsplit'[1] = [packet |-> Len(invoked') + 1, at |-> 1]
  <2> SUFFICES ASSUME pc # "returned"
               PROVE  Unsplit'[1] = [packet |-> Len(invoked) + 1, at |-> 1]
    BY <1>3
  <2>1. CASE r # <<>>
    <3>1. r[1] = [packet |-> Len(invoked) + 1, at |-> 1]
      BY <2>1 DEF StreamInv, r
    <3>. QED BY <1>6, <1>8, <2>1, <3>1
  <2>2. CASE r = <<>>
    <3>1. Len(invoked) + 1 = K
      BY <1>0, <1>3, <2>2 DEF StreamInv, r
    <3>2. 1 \in 1 .. 4 + n /\ Len(r) + 1 = 1
      BY <1>1, <1>6, <2>2
    <3>. QED BY <1>8, <3>1, <3>2
  <2>. QED BY <2>1, <2>2
<1>13. EndsWhole(Unsplit)'
  <2>1. 4 + n \in 1 .. 4 + n /\ Len(Unsplit') = Len(r) + (4 + n)
    BY <1>1, <1>6, <1>8
  <2>2. Unsplit'[Len(Unsplit')] = [packet |-> K, at |-> 4 + n]
    BY <1>8, <2>1
  <2>3. WellFormed(K)' => declared'[K] = 4 + n
    BY <1>1, <1>5 DEF WellFormed
  <2>. QED BY <1>5, <2>2, <2>3 DEF EndsWhole
<1>14. InvokedInOrder'
  BY <1>3, <1>5, OrderFrame DEF StreamInv
<1>. QED BY <1>8, <1>9, <1>11, <1>12, <1>13, <1>14 DEF StreamInv

\* The connection ends: a prefix of the stream is left.
LEMMA StreamCut == ASSUME StreamInv, Cut PROVE StreamInv'
<1>1. PICK n \in 0 .. Len(wire) : wire' = SubSeq(wire, 1, n)
  BY DEF Cut
<1>2. cut' = TRUE /\ UNCHANGED <<declared, pc, buf, invoked>>
  BY DEF Cut
<1>3. wire \in Seq(Bytes) /\ buf \in Seq(Bytes)
  BY DEF StreamInv, StreamTypes
<1>4. /\ wire' \in Seq(Bytes) /\ Len(wire') = n /\ n \in Nat
      /\ \A i \in 1 .. n : wire'[i] = wire[i]
  BY <1>1, <1>3, CutFacts
<1>5. /\ Len(Unsplit') = Len(buf) + n /\ Len(Unsplit') \in Nat
      /\ Len(Unsplit') <= Len(Unsplit) /\ Len(Unsplit) \in Nat
      /\ (Unsplit' = <<>>) <=> (Len(Unsplit') = 0)
      /\ \A i \in 1 .. Len(Unsplit') : Unsplit'[i] = Unsplit[i]
  <2>1. /\ Unsplit' = buf \o wire' /\ Unsplit = buf \o wire
        /\ Len(buf) \in Nat /\ Len(wire) \in Nat /\ n <= Len(wire)
    BY <1>2, <1>3 DEF Unsplit
  <2>2. /\ Len(buf \o wire') = Len(buf) + n
        /\ Len(buf \o wire) = Len(buf) + Len(wire)
        /\ (buf \o wire' = <<>>) <=> (Len(buf) + n = 0)
    BY <1>3, <1>4, ConcatFacts
  <2>3. \A i \in 1 .. Len(buf) + n : (buf \o wire')[i] = (buf \o wire)[i]
    BY <1>3, <1>4, <2>1, ConcatCut
  <2>. QED BY <1>4, <2>1, <2>2, <2>3
<1>6. IsChain(Unsplit)'
  <2>1. \A i \in 1 .. Len(Unsplit') : i \in 1 .. Len(Unsplit)
    BY <1>5
  <2>2. \A i \in 1 .. Len(Unsplit') - 1 :
          /\ i \in 1 .. Len(Unsplit) - 1 /\ i \in 1 .. Len(Unsplit')
          /\ i + 1 \in 1 .. Len(Unsplit')
    BY <1>5
  <2>. QED BY <1>2, <1>5, <2>1, <2>2
           DEF StreamInv, IsChain, Follows, WellFormed
<1>7. Unsplit' # <<>> => Unsplit # <<>> /\ Unsplit'[1] = Unsplit[1]
  <2> SUFFICES ASSUME Unsplit' # <<>>
               PROVE  Unsplit # <<>> /\ Unsplit'[1] = Unsplit[1]
    OBVIOUS
  <2>1. 1 \in 1 .. Len(Unsplit') /\ Len(Unsplit) > 0
    BY <1>5
  <2>2. Unsplit # <<>>
    BY <2>1
  <2>. QED BY <1>5, <2>1, <2>2
<1>8. StreamTypes'
  BY <1>2, <1>4 DEF StreamInv, StreamTypes
<1>9. InvokedInOrder'
  BY <1>2, OrderFrame DEF StreamInv
<1>. QED BY <1>2, <1>6, <1>7, <1>8, <1>9 DEF StreamInv

\* Read moves bytes from the connection to the buffer.
LEMMA StreamRead == ASSUME StreamInv, Read PROVE  StreamInv'
<1>1. PICK n \in 1 .. Min({ReadSize, Len(wire)}) :
        /\ buf' = buf \o SubSeq(wire, 1, n)
        /\ wire' = SubSeq(wire, n + 1, Len(wire))
  BY DEF Read
<1>2. /\ pc = "read" /\ pc' = "split"
      /\ UNCHANGED <<declared, cut, invoked>>
  BY DEF Read
<1>3. wire \in Seq(Bytes) /\ buf \in Seq(Bytes) /\ Len(wire) \in Nat
      /\ Len(buf) \in Nat
  BY DEF StreamInv, StreamTypes
<1>4. n \in 0 .. Len(wire)
  <2>1. /\ Min({ReadSize, Len(wire)}) \in Nat
        /\ Min({ReadSize, Len(wire)}) <= Len(wire)
    <3>1. \E x \in {ReadSize, Len(wire)} :
            \A y \in {ReadSize, Len(wire)} : x <= y
      BY <1>3, FramingAssumption
    <3>. QED BY <1>3, <3>1, FramingAssumption DEF Min
  <2>. QED BY <1>3, <2>1
<1>5. buf' \in Seq(Bytes) /\ wire' \in Seq(Bytes)
  BY <1>1, <1>3, <1>4, CutFacts
<1>6. Unsplit' = Unsplit
  <2>1. wire = SubSeq(wire, 1, n) \o SubSeq(wire, n + 1, Len(wire))
    BY <1>3, <1>4, CutFacts
  <2>2. /\ SubSeq(wire, 1, n) \in Seq(Bytes)
        /\ SubSeq(wire, n + 1, Len(wire)) \in Seq(Bytes)
    BY <1>3, <1>4, CutFacts
  <2>3. \A a, b, c \in Seq(Bytes) : (a \o b) \o c = a \o (b \o c)
    OBVIOUS
  <2>4. (buf \o SubSeq(wire, 1, n)) \o SubSeq(wire, n + 1, Len(wire))
          = buf \o (SubSeq(wire, 1, n) \o SubSeq(wire, n + 1, Len(wire)))
    BY ONLY <1>3, <2>2, <2>3
  <2>. QED BY <1>1, <2>1, <2>4 DEF Unsplit
<1>7. StreamTypes'
  BY <1>2, <1>5 DEF StreamInv, StreamTypes
<1>8. InvokedInOrder'
  BY <1>2, OrderFrame DEF StreamInv
<1>. QED BY <1>2, <1>6, <1>7, <1>8
         DEF StreamInv, IsChain, Follows, EndsWhole, WellFormed

\* A packet is cut off at the head of the buffer: it is the next one, whole.
LEMMA StreamSplit == ASSUME StreamInv, SplitFull PROVE StreamInv'
<1> DEFINE k == Len(invoked) + 1
           d == declared[k]
<1>1. /\ pc = "split" /\ Full(buf)
      /\ UNCHANGED <<declared, wire, cut, pc>>
      /\ invoked' = Append(invoked,
                      Message(SubSeq(buf, 1, Uint32(buf))))
      /\ buf' = SubSeq(buf, Uint32(buf) + 1, Len(buf))
  BY DEF SplitFull, Rest
<1>2. /\ declared \in Seq(Nat) /\ wire \in Seq(Bytes) /\ buf \in Seq(Bytes)
      /\ Len(buf) \in Nat /\ Len(wire) \in Nat /\ Len(declared) \in Nat
      /\ invoked \in Seq(Seq(Bytes)) /\ Len(invoked) \in Nat /\ k \in Nat
  BY DEF StreamInv, StreamTypes
<1>3. /\ Unsplit \in Seq(Bytes) /\ Len(Unsplit) = Len(buf) + Len(wire)
      /\ \A i \in 1 .. Len(buf) : Unsplit[i] = buf[i]
  BY <1>2 DEF Unsplit
<1>4. /\ Len(buf) > 4 /\ Uint32(buf) > 4
      /\ Uint32(buf) <= Len(buf) /\ HeaderSize = 4
  BY <1>1 DEF Full, HeaderSize
<1>5. Unsplit # <<>> /\ 1 \in 1 .. Len(Unsplit) /\ 1 \in 1 .. Len(buf)
  BY <1>2, <1>3, <1>4
<1>6. Unsplit[1] = [packet |-> k, at |-> 1] /\ IsChain(Unsplit)
  BY <1>1, <1>5 DEF StreamInv
<1>7. buf[1].packet = k
  BY <1>3, <1>5, <1>6
<1>8. Uint32(buf) = d
  BY <1>4, <1>7 DEF Uint32
<1>9. k \in 1 .. Len(declared) /\ d \in Nat /\ WellFormed(k)
  <2>1. k \in 1 .. Len(declared)
    BY <1>5, <1>6 DEF IsChain
  <2>. QED BY <1>2, <1>4, <1>8, <2>1 DEF WellFormed
<1>10. /\ \A i \in 1 .. Len(Unsplit) :
             i <= d => Unsplit[i] = [packet |-> k, at |-> i]
       /\ Len(Unsplit) > d =>
             Unsplit[d + 1] = [packet |-> k + 1, at |-> 1]
  <2>1. Len(Unsplit) > 0
    BY <1>2, <1>3, <1>4
  <2> HIDE DEF k
  <2>. QED BY <1>2, <1>3, <1>6, <1>9, <2>1, HeadPacket
<1> HIDE DEF k, d
<1>11. d \in 0 .. Len(buf) /\ d > 4 /\ d \in Nat
  BY <1>2, <1>4, <1>8, <1>9
<1>12. SubSeq(buf, 1, d) = Packet(k, d - HeaderSize)
  <2>1. /\ SubSeq(buf, 1, d) \in Seq(Bytes) /\ Len(SubSeq(buf, 1, d)) = d
        /\ \A i \in 1 .. d : SubSeq(buf, 1, d)[i] = buf[i]
    BY <1>2, <1>11, CutFacts
  <2>2. \A i \in 1 .. d : SubSeq(buf, 1, d)[i] = [packet |-> k, at |-> i]
    <3>1. \A i \in 1 .. d : i \in 1 .. Len(buf) /\ i \in 1 .. Len(Unsplit)
      BY <1>2, <1>3, <1>11
    <3>. QED BY <1>3, <1>10, <2>1, <3>1
  <2>3. HeaderSize + (d - HeaderSize) = d
    BY <1>4, <1>11
  <2>4. Packet(k, d - HeaderSize)
          = [i \in 1 .. d |-> [packet |-> k, at |-> i]]
    BY <2>3 DEF Packet
  <2>5. SubSeq(buf, 1, d) = [i \in 1 .. d |-> SubSeq(buf, 1, d)[i]]
    BY <2>1
  <2>. QED BY <2>2, <2>4, <2>5
<1>13. /\ buf' \in Seq(Bytes) /\ Len(buf') = Len(buf) - d
       /\ \A i \in 1 .. Len(buf) - d : buf'[i] = buf[d + i]
  BY <1>1, <1>2, <1>8, <1>11, CutFacts
<1>14. /\ Len(Unsplit') = Len(Unsplit) - d
       /\ (Unsplit' = <<>>) <=> (Len(Unsplit) - d = 0)
       /\ \A i \in 1 .. Len(Unsplit) - d : Unsplit'[i] = Unsplit[d + i]
  <2>1. Unsplit' = buf' \o wire /\ Unsplit = buf \o wire
    BY <1>1 DEF Unsplit
  <2>2. d \in Nat /\ d <= Len(buf) /\ wire \in Seq(Bytes)
        /\ buf \in Seq(Bytes)
    BY <1>2, <1>11
  <2>3. PICK u \in Seq(Bytes) : u = buf'
    BY <1>13
  <2>4. Drops(u, buf, d)
    BY <1>13, <2>3 DEF Drops
  <2>5. /\ Drops(u \o wire, buf \o wire, d)
        /\ (u \o wire = <<>>) <=> (Len(buf \o wire) - d = 0)
    BY ONLY <2>2, <2>3, <2>4, ConcatDrop
  <2>. QED BY ONLY <2>1, <2>3, <2>5 DEF Drops
<1>15. Len(Unsplit) \in Nat /\ Len(Unsplit) >= d
  BY <1>2, <1>3, <1>11
<1>16. IsChain(Unsplit)'
  <2>1. \A i \in 1 .. Len(Unsplit') :
          i \in 1 .. Len(Unsplit) - d /\ d + i \in 1 .. Len(Unsplit)
    BY <1>11, <1>14, <1>15
  <2>2. \A i \in 1 .. Len(Unsplit') - 1 :
          /\ d + i \in 1 .. Len(Unsplit) - 1 /\ d + (i + 1) = (d + i) + 1
          /\ i \in 1 .. Len(Unsplit) - d /\ i + 1 \in 1 .. Len(Unsplit) - d
    BY <1>11, <1>14, <1>15
  <2>3. \A i \in 1 .. Len(Unsplit') : Unsplit'[i].packet \in 1 .. Len(declared)
    BY <1>6, <1>14, <2>1 DEF IsChain
  <2>4. ASSUME NEW i \in 1 .. Len(Unsplit') - 1
        PROVE  Follows(Unsplit'[i], Unsplit'[i + 1])
    <3>1. /\ Unsplit'[i] = Unsplit[d + i]
          /\ Unsplit'[i + 1] = Unsplit[(d + i) + 1]
      BY <1>14, <2>2
    <3>. QED BY <1>6, <2>2, <3>1 DEF IsChain
  <2>. QED BY <1>1, <2>3, <2>4 DEF IsChain, Follows, WellFormed
<1>17. /\ Len(invoked') = k /\ invoked' \in Seq(Seq(Bytes))
       /\ \A j \in 1 .. Len(invoked) : invoked'[j] = invoked[j]
       /\ invoked'[k] = Message(
                          Packet(k, d - HeaderSize))
  <2> DEFINE m == Message(SubSeq(buf, 1, d))
  <2>1. invoked' = Append(invoked, m)
    BY <1>1, <1>8
  <2>2. m \in Seq(Bytes)
    <3>1. SubSeq(buf, 1, d) \in Seq(Bytes) /\ Len(SubSeq(buf, 1, d)) = d
      BY <1>2, <1>11, CutFacts
    <3>2. 4 \in 0 .. Len(SubSeq(buf, 1, d))
      BY <1>11, <3>1
    <3>3. SubSeq(SubSeq(buf, 1, d), 4 + 1, Len(SubSeq(buf, 1, d)))
            \in Seq(Bytes)
      BY ONLY <3>1, <3>2, CutFacts
    <3>. QED BY <1>4, <3>3 DEF Message
  <2>3. m = Message(Packet(k, d - HeaderSize))
    BY <1>12
  <2> HIDE DEF m
  <2>4. k = Len(invoked) + 1
    BY DEF k
  <2>. QED BY <1>2, <2>1, <2>2, <2>3, <2>4
<1>18. StreamTypes'
  BY <1>1, <1>9, <1>13, <1>17 DEF StreamInv, StreamTypes
<1>19. Unsplit' # <<>> =>
         /\ Unsplit'[1] = [packet |-> Len(invoked') + 1, at |-> 1]
         /\ Unsplit'[Len(Unsplit')] = Unsplit[Len(Unsplit)]
  <2> SUFFICES ASSUME Unsplit' # <<>>
               PROVE  /\ Unsplit'[1] = [packet |-> k + 1, at |-> 1]
                      /\ Unsplit'[Len(Unsplit')] = Unsplit[Len(Unsplit)]
    BY <1>17
  <2>1. /\ Len(Unsplit) > d /\ 1 \in 1 .. Len(Unsplit) - d
        /\ Len(Unsplit') \in 1 .. Len(Unsplit) - d
        /\ d + Len(Unsplit') = Len(Unsplit)
    BY <1>11, <1>14, <1>15
  <2>2. Unsplit'[1] = Unsplit[d + 1]
    BY <1>14, <2>1
  <2>3. Unsplit'[Len(Unsplit')] = Unsplit[d + Len(Unsplit')]
    BY <1>14, <2>1
  <2>. QED BY <1>10, <2>1, <2>2, <2>3
<1>20. ~cut /\ Unsplit' = <<>> => Len(invoked') = Len(declared)
  <2> SUFFICES ASSUME ~cut, Unsplit' = <<>> PROVE k = Len(declared)
    BY <1>17
  <2>1. Len(Unsplit) = d /\ d \in 1 .. Len(Unsplit)
    BY <1>11, <1>14, <1>15
  <2>2. Unsplit[d].packet = k
    BY <1>10, <1>11, <2>1
  <2>3. Unsplit[d].packet = Len(declared)
    BY <1>5, <2>1 DEF StreamInv, EndsWhole
  <2>. QED BY <2>2, <2>3
<1>21. InvokedInOrder'
  <2>1. ASSUME NEW j \in 1 .. Len(invoked')
        PROVE  /\ declared[j] > HeaderSize
               /\ invoked'[j] = Message(
                    Packet(j, declared[j] - HeaderSize))
    <3>1. CASE j = k
      BY <1>9, <1>17, <3>1 DEF d, WellFormed
    <3>2. CASE j # k
      <4>1. j \in 1 .. Len(invoked)
        BY <1>2, <1>17, <3>2 DEF k
      <4>. QED BY <1>17, <4>1 DEF StreamInv, InvokedInOrder
    <3>. QED BY <3>1, <3>2
  <2>. QED BY <1>1, <2>1
           DEF InvokedInOrder, Message, Packet
<1>. QED BY <1>1, <1>5, <1>16, <1>18, <1>19, <1>20, <1>21
         DEF StreamInv, EndsWhole, WellFormed

\* The reader goes back to Read, or returns.
LEMMA StreamFrame ==
  ASSUME StreamInv, UNCHANGED <<declared, wire, cut, buf, invoked>>,
         \/ pc' = pc
         \/ pc # "returned" /\ pc' \in {"read", "split", "returned"}
  PROVE  StreamInv'
<1>1. Unsplit' = Unsplit
  BY DEF Unsplit
<1>2. InvokedInOrder'
  BY OrderFrame DEF StreamInv
<1>. QED BY <1>1, <1>2
         DEF StreamInv, StreamTypes, IsChain, Follows, EndsWhole, WellFormed

LEMMA StreamStep ==
  ASSUME StreamInv, [FramingNext]_framingVars PROVE StreamInv'
<1>1. CASE WritePacket
  <2>1. PICK n \in BodySizes : Put(Count + 1, n,
                                          HeaderSize + n)
    BY <1>1 DEF WritePacket
  <2>2. HeaderSize + n \in Nat
    BY FramingAssumption DEF HeaderSize
  <2>. QED BY <2>1, <2>2, PacketWritten
<1>2. CASE WriteMalformed
  <2>1. PICK n \in BodySizes, size \in BadSizes :
          Put(Count + 1, n, size)
    BY <1>2 DEF WriteMalformed
  <2>2. size \in Nat /\ size <= HeaderSize
    BY FramingAssumption DEF HeaderSize
  <2>. QED BY <2>1, <2>2, PacketWritten
<1>3. CASE Cut
  BY <1>3, StreamCut
<1>4. CASE Read
  BY <1>4, StreamRead
<1>5. CASE SplitFull
  BY <1>5, StreamSplit
<1>6. CASE ReadFails \/ SplitNeedRead \/ SplitErr
  BY <1>6, StreamFrame
  DEF ReadFails, SplitNeedRead, SplitErr
<1>7. CASE UNCHANGED framingVars
  BY <1>7, StreamFrame DEF framingVars
<1>. QED BY <1>1, <1>2, <1>3, <1>4, <1>5, <1>6, <1>7
         DEF FramingNext, Writer, Reader

\* However Read groups the bytes of any number of packets, a recv goroutine
\* hands the messages over whole, in the order they were written, up to the
\* first malformed header.
THEOREM MessagesInOrder == FramingSpec => []InvokedInOrder
<1>1. StreamInv => InvokedInOrder
  BY DEF StreamInv
<1>2. StreamInv /\ [FramingNext]_framingVars => StreamInv'
  BY StreamStep
<1>. QED BY <1>1, <1>2, StreamInit, PTL DEF FramingSpec

=============================================================================
