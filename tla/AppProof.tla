------------------------------ MODULE AppProof ------------------------------
(***************************************************************************)
(* Proof that an App keeps its servers registered, for any servers, any    *)
(* length of the lease and any bound on renewals that fail in a row.       *)
(***************************************************************************)
EXTENDS App, TLAPS

LEMMA AppInit == Init => AppInv
<1> SUFFICES ASSUME Init PROVE AppInv
  OBVIOUS
<1>1. lease \in 0 .. LeaseTicks /\ missed \in 0 .. MaxMissed + 1
  BY AppAssumption DEF Init
<1>2. TypeOK
  BY <1>1, AppAssumption DEF Init, TypeOK
<1>3. LeaseInv
  BY DEF Init, LeaseInv
<1>. QED BY <1>2, <1>3 DEF Init, AppInv

\* The steps that have to do with the lease.
LEMMA LeaseStep ==
  ASSUME AppInv,
         \/ \E s \in Servers : RegisterServer(s) \/ RegisterFails(s)
         \/ KeepAlive
         \/ KeepAliveFails
         \/ Tick
  PROVE  AppInv'
<1> USE AppAssumption DEF AppInv, TypeOK, LeaseInv, runVars, registerVars
<1>0. 0 \in 0 .. LeaseTicks /\ LeaseTicks \in 0 .. LeaseTicks
      /\ 0 \in 0 .. MaxMissed + 1
  OBVIOUS
<1>1. ASSUME NEW s \in Servers, RegisterServer(s) PROVE AppInv'
  BY <1>0, <1>1 DEF RegisterServer, Visit, Grant
<1>2. ASSUME NEW s \in Servers, RegisterFails(s) PROVE AppInv'
  <2>1. CASE Grant
    BY <1>0, <1>2, <2>1 DEF RegisterFails, Visit, Grant
  <2>2. CASE UNCHANGED <<leaseId, lease, missed>>
    BY <1>2, <2>2 DEF RegisterFails, Visit
  <2>. QED BY <1>2, <2>1, <2>2 DEF RegisterFails
<1>3. CASE KeepAlive
  <2>1. lease' \in 0 .. LeaseTicks /\ missed' \in 0 .. MaxMissed + 1
    BY <1>0, <1>3 DEF KeepAlive, Renew
  <2>2. TypeOK'
    BY <1>3, <2>1 DEF KeepAlive, Renew
  <2>3. LeaseInv'
    <3> SUFFICES ASSUME main # "dead", MaxMissed + 1 < LeaseTicks
        PROVE  lease' = LeaseTicks /\ missed' = 0 /\ leaseId' /\ put \subseteq keys
      BY <1>3 DEF KeepAlive, Renew
    <3>1. leaseId => lease # 0
      OBVIOUS
    <3>. QED BY <1>3, <3>1 DEF KeepAlive, Renew
  <2>. QED BY <1>3, <2>2, <2>3 DEF KeepAlive
<1>4. CASE KeepAliveFails
  BY <1>4 DEF KeepAliveFails
<1>5. CASE Tick
  <2>1. lease' \in 0 .. LeaseTicks /\ missed' \in 0 .. MaxMissed + 1
    BY <1>5 DEF Tick
  <2>. QED BY <1>5, <2>1 DEF Tick, Expire
<1>. QED BY <1>1, <1>2, <1>3, <1>4, <1>5

\* The steps that leave the lease and the keys alone.
LEMMA OtherStep ==
  ASSUME AppInv,
         \/ \E g \in Servers : StarterStep(g)
         \/ \E s \in Servers : Spawn(s)
         \/ SleepEnds
         \/ EnterLoop
         \/ Kill
         \/ UNCHANGED vars
  PROVE  AppInv'
<1> USE DEF AppInv, TypeOK, LeaseInv, runVars, registerVars
<1>1. ASSUME NEW g \in Servers, CallStart(g) PROVE AppInv'
  BY <1>1 DEF CallStart
<1>2. ASSUME NEW g \in Servers, StartServes(g) PROVE AppInv'
  BY <1>2 DEF StartServes
<1>3. ASSUME NEW g \in Servers, StartFails(g) PROVE AppInv'
  BY <1>3 DEF StartFails
<1>4. ASSUME NEW g \in Servers, Panic(g) PROVE AppInv'
  BY <1>4 DEF Panic, Die
<1>5. ASSUME NEW s \in Servers, Spawn(s) PROVE AppInv'
  BY <1>5 DEF Spawn
<1>6. CASE SleepEnds
  BY <1>6 DEF SleepEnds
<1>7. CASE EnterLoop
  BY <1>7 DEF EnterLoop
<1>8. CASE Kill
  BY <1>8 DEF Kill, Die
<1>9. CASE UNCHANGED vars
  BY <1>9 DEF vars
<1>. QED BY <1>1, <1>2, <1>3, <1>4, <1>5, <1>6, <1>7, <1>8, <1>9
         DEF StarterStep

\* The inductive invariant, of every run of an App.
THEOREM AppInvAlways == Spec => []AppInv
<1>1. AppInv /\ [Next]_vars => AppInv'
  BY LeaseStep, OtherStep DEF Next, MainStep
<1>. QED BY <1>1, AppInit, PTL DEF Spec

\* A registered server is found in etcd while the process lives, if the lease
\* outlasts the renewals that fail in a row.
THEOREM RegisteredStays == Spec => []StaysRegistered
<1>1. AppInv => StaysRegistered
  BY DEF AppInv, LeaseInv, StaysRegistered
<1>. QED BY <1>1, AppInvAlways, PTL

=============================================================================
