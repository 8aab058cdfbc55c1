--------------------------------- MODULE App ---------------------------------
(***************************************************************************)
(* How an App starts its servers and keeps them registered: App.Run and    *)
(* loop (app.go) with EtcdRegister (internal/register/register_etcd.go).   *)
(*                                                                         *)
(* The goroutines of Run share the variable of its range statement: the    *)
(* module is Go 1.16, so the variable is one for all iterations.  Time is  *)
(* counted in ticks of ten seconds, the period of the ticker of loop.  A   *)
(* call to etcd returns within a tick, or fails.  The branch of loop for   *)
(* stopChan is left out: nothing closes or writes that channel.            *)
(***************************************************************************)
EXTENDS Integers

CONSTANTS
    Servers,       \* serverMap
    AnyPort,       \* HttpServers that listen on port 0
    None,          \* no server
    LeaseTicks,    \* the lease of thirty seconds, in ticks
    MaxMissed      \* bound: ticks in a row without a renewal of the lease

\* Without servers Run returns an error at once.
ASSUME AppAssumption ==
    /\ Servers # {}
    /\ AnyPort \subseteq Servers
    /\ None \notin Servers
    /\ LeaseTicks \in Nat \ {0}
    /\ MaxMissed \in Nat

VARIABLES
    taken,         \* servers whose port belongs to another process
    main,          \* where Run is
    remaining,     \* what the range of Run has still to visit
    server,        \* the variable of the first range of Run
    starter,       \* the goroutine that each of its iterations began
    target,        \* the server whose Start that goroutine called
    up,            \* servers that listen
    failed,        \* the server whose Start ended the process
    named,         \* the server that the panic names
    leaseId,       \* EtcdRegister.leaseId is not 0
    due,           \* the ticker of loop has fired
    lease,         \* etcd: ticks until the lease ends, 0 when it has
    keys,          \* etcd: servers that have a key
    missed,        \* ticks since etcd granted the lease or took a renewal
    put            \* history: servers whose Put succeeded

runVars == <<taken, starter, target, server, up, failed, named>>
registerVars == <<leaseId, lease, keys, put>>
vars == <<runVars, registerVars, main, remaining, due, missed>>

Init ==
    /\ taken \in SUBSET (Servers \ AnyPort)
    /\ main = "start"
    /\ remaining = Servers
    /\ server = None
    /\ starter = [s \in Servers |-> "none"]
    /\ target = [s \in Servers |-> None]
    /\ up = {}
    /\ failed = None
    /\ named = None
    /\ leaseId = FALSE
    /\ due = FALSE
    /\ lease = 0
    /\ keys = {}
    /\ missed = 0
    /\ put = {}

-----------------------------------------------------------------------------
(* The first range of Run and the goroutines it starts.                    *)

\* An iteration assigns the shared variable and starts a goroutine.
Spawn(s) ==
    /\ main = "start"
    /\ s \in remaining
    /\ remaining' = remaining \ {s}
    /\ server' = s
    /\ starter' = [starter EXCEPT ![s] = "spawned"]
    /\ UNCHANGED <<taken, target, up, failed, named, registerVars, main, due,
                   missed>>

\* server.Start() begins, whichever server that is by now.
CallStart(g) ==
    /\ starter[g] = "spawned"
    /\ starter' = [starter EXCEPT ![g] = "starting"]
    /\ target' = [target EXCEPT ![g] = server]
    /\ UNCHANGED <<taken, server, up, failed, named, registerVars, main,
                   remaining, due, missed>>

\* Variant: a server that listens already is not an error.
InUseByOthers(s) == s \in taken

\* Start fails: net.Listen finds the address in use, or the TcpServer, which
\* may be on port 0, runs already.  An HttpServer on port 0 serves once more.
InUse(s) == s \in taken \cup (up \ AnyPort)

StartServes(g) ==
    /\ starter[g] = "starting"
    /\ ~InUse(target[g])
    /\ up' = up \cup {target[g]}
    /\ starter' = [starter EXCEPT ![g] = "serving"]
    /\ UNCHANGED <<taken, target, server, failed, named, registerVars, main,
                   remaining, due, missed>>

StartFails(g) ==
    /\ starter[g] = "starting"
    /\ InUse(target[g])
    /\ starter' = [starter EXCEPT ![g] = "failed"]
    /\ UNCHANGED <<taken, target, server, up, failed, named, registerVars,
                   main, remaining, due, missed>>

\* The process ends, and with it every server.
Die ==
    /\ main' = "dead"
    /\ up' = {}
    /\ starter' = [g \in Servers |-> "none"]
    /\ due' = FALSE

\* panic with server.Name(): the shared variable is read once more.
Panic(g) ==
    /\ starter[g] = "failed"
    /\ failed' = target[g]
    /\ named' = server
    /\ Die
    /\ UNCHANGED <<taken, target, server, registerVars, remaining, missed>>

-----------------------------------------------------------------------------
(* The rest of Run, and loop, with EtcdRegister.                           *)

\* time.Sleep is over: it waits for no Start.
SleepEnds ==
    /\ main = "start"
    /\ remaining = {}
    /\ main' = "register"
    /\ remaining' = Servers
    /\ UNCHANGED <<runVars, registerVars, due, missed>>

Visit(s) ==
    /\ main = "register"
    /\ s \in remaining
    /\ remaining' = remaining \ {s}
    /\ UNCHANGED <<runVars, main, due>>

\* Grant, when there is no leaseId yet.
Grant ==
    /\ leaseId' = TRUE
    /\ lease' = IF leaseId THEN lease ELSE LeaseTicks
    /\ missed' = IF leaseId THEN missed ELSE 0

\* Register: Put succeeds while the lease exists.
RegisterServer(s) ==
    /\ Visit(s)
    /\ Grant
    /\ lease' > 0
    /\ keys' = keys \cup {s}
    /\ put' = put \cup {s}

\* Grant or Put fails, and Run ignores it.
RegisterFails(s) ==
    /\ Visit(s)
    /\ Grant \/ UNCHANGED <<leaseId, lease, missed>>
    /\ UNCHANGED <<keys, put>>

EnterLoop ==
    /\ main = "register"
    /\ remaining = {}
    /\ main' = "loop"
    /\ UNCHANGED <<runVars, registerVars, remaining, due, missed>>

\* Variant: the lease is granted and not renewed.
RenewNothing ==
    /\ leaseId' = TRUE
    /\ lease' = IF leaseId THEN lease ELSE LeaseTicks
    /\ missed' = 0

\* KeepAliveOnce: a lease that has ended cannot be renewed.
Renew ==
    /\ leaseId' = TRUE
    /\ lease' = IF leaseId /\ lease = 0 THEN 0 ELSE LeaseTicks
    /\ missed' = 0

\* case <-timer.C: KeepAlive for each server, which is the same lease.
KeepAlive ==
    /\ main = "loop"
    /\ due
    /\ due' = FALSE
    /\ Renew
    /\ UNCHANGED <<runVars, main, remaining, keys, put>>

\* Its error is dropped.
KeepAliveFails ==
    /\ main = "loop"
    /\ due
    /\ due' = FALSE
    /\ missed <= MaxMissed
    /\ UNCHANGED <<runVars, registerVars, main, remaining, missed>>

-----------------------------------------------------------------------------
(* Time, etcd, and the end of the process.                                 *)

\* Variant: a key has no lease.
KeepKeys == keys

\* etcd deletes the keys of a lease that ends.
Expire == IF lease' = 0 THEN {} ELSE keys

\* Ten seconds pass.  A tick is handled before the next; a Register that hangs
\* counts as a missed renewal.
Tick ==
    /\ main \in {"register", "loop", "dead"}
    /\ main = "register" => missed < MaxMissed
    /\ main = "loop" => ~due /\ missed <= MaxMissed
    /\ lease' = IF lease = 0 THEN 0 ELSE lease - 1
    /\ keys' = Expire
    /\ missed' = IF main = "dead" \/ ~leaseId THEN missed ELSE missed + 1
    /\ due' = (main = "loop")
    /\ UNCHANGED <<runVars, main, remaining, leaseId, put>>

\* The process is killed.
Kill ==
    /\ main # "dead"
    /\ Die
    /\ UNCHANGED <<taken, target, server, failed, named, registerVars,
                   remaining, missed>>

StarterStep(g) ==
    CallStart(g) \/ StartServes(g) \/ StartFails(g) \/ Panic(g)

MainStep ==
    \/ \E s \in Servers : Spawn(s) \/ RegisterServer(s) \/ RegisterFails(s)
    \/ SleepEnds
    \/ EnterLoop
    \/ KeepAlive
    \/ KeepAliveFails

Next ==
    \/ \E g \in Servers : StarterStep(g)
    \/ MainStep
    \/ Tick
    \/ Kill

Spec == Init /\ [][Next]_vars

\* Goroutines are scheduled and time passes.
FairSpec ==
    /\ Spec
    /\ \A g \in Servers : WF_vars(StarterStep(g))
    /\ WF_vars(MainStep)
    /\ WF_vars(Tick)

-----------------------------------------------------------------------------
(* Properties.                                                             *)

\* Types of Run, of its goroutines and of the registration; no goroutine calls
\* Start on a nil server.
TypeOK ==
    /\ taken \subseteq Servers
    /\ main \in {"start", "register", "loop", "dead"}
    /\ remaining \subseteq Servers
    /\ server \in Servers \cup {None}
    /\ starter \in [Servers ->
         {"none", "spawned", "starting", "serving", "failed"}]
    /\ target \in [Servers -> Servers \cup {None}]
    /\ \A g \in Servers :
         starter[g] \notin {"none", "spawned"} => target[g] \in Servers
    /\ up \subseteq Servers
    /\ failed \in Servers \cup {None}
    /\ named \in Servers \cup {None}
    /\ leaseId \in BOOLEAN
    /\ due \in BOOLEAN
    /\ lease \in 0 .. LeaseTicks
    /\ keys \subseteq Servers
    /\ missed \in 0 .. MaxMissed + 1
    /\ put \subseteq Servers

\* A server that was registered is found in etcd as long as the process lives,
\* when the renewals that fail in a row leave time for one more before the
\* lease ends.  Nothing registers a server again whose lease has ended.
StaysRegistered ==
    main # "dead" /\ MaxMissed + 1 < LeaseTicks => put \subseteq keys

\* Two goroutines serve one HttpServer, each on a port of its own.
ServedTwice ==
    \E g, h \in Servers :
        /\ g # h /\ target[g] = target[h] /\ target[g] \in AnyPort
        /\ starter[g] = "serving" /\ starter[h] = "serving"

\* Although goroutines may start a server twice and another never, Run starts
\* every server, or the process ends.  Only an HttpServer on port 0 bears a
\* second Start in silence.
AllUpOrDead == main = "start" ~> main = "dead" \/ up = Servers \/ ServedTwice

\* The servers of a process that died leave etcd with the lease.
DeadLeaveRegistry == main = "dead" ~> keys = {}

\* The message of the panic, "start server %s failed", names the server whose
\* Start failed (app.go:67).
PanicNamesFailed == named # None => named = failed

-----------------------------------------------------------------------------
(* The inductive invariant of the proofs.                                  *)

\* What is left of the lease while the process lives, when few enough renewals
\* fail in a row; without a lease nothing was put.
LeaseInv ==
    main # "dead" /\ MaxMissed + 1 < LeaseTicks =>
        /\ leaseId => lease = LeaseTicks - missed
        /\ ~leaseId => put = {}
        /\ put \subseteq keys

\* A goroutine reads the shared variable only once it has been assigned, and the
\* lease that the first Register granted carries every key put since.
AppInv ==
    /\ TypeOK
    /\ \A g \in Servers : starter[g] # "none" => server \in Servers
    /\ LeaseInv

=============================================================================
