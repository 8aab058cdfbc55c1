----------------------------- MODULE RemoteCall -----------------------------
(***************************************************************************)
(* What client and server together promise of a call, without ids, tables, *)
(* slots or goroutines.  A call is executed at most once, perhaps after    *)
(* its caller has given up.  A caller who gets a result gets the result of *)
(* its own execution; one who is told that the request was not sent, or    *)
(* that the server has no such encoder, can be sure that it is not         *)
(* executed; one who is told that the server is full, or hears nothing in  *)
(* time, knows nothing.                                                    *)
(***************************************************************************)
CONSTANT Calls

VARIABLES
    told,         \* what the caller was told, "none" while it waits
    execution     \* "none", "running", "panicked", or what it returned

vars == <<told, execution>>

\* After one of these the call is never executed.
NotExecuted == {"sendError", "noEncoder"}

Init ==
    /\ told = [c \in Calls |-> "none"]
    /\ execution = [c \in Calls |-> "none"]

Execute(c) ==
    /\ execution[c] = "none"
    /\ told[c] \notin NotExecuted
    /\ execution' = [execution EXCEPT ![c] = "running"]
    /\ UNCHANGED told

Finish(c) ==
    /\ execution[c] = "running"
    /\ \E e \in {"ok", "error", "panicked"} :
         execution' = [execution EXCEPT ![c] = e]
    /\ UNCHANGED told

Tell(c) ==
    /\ told[c] = "none"
    /\ \E t \in {"ok", "error", "full", "timeout"} \cup NotExecuted :
         /\ t \in {"ok", "error"} => execution[c] = t
         /\ t \in NotExecuted => execution[c] = "none"
         /\ told' = [told EXCEPT ![c] = t]
    /\ UNCHANGED execution

Next == \E c \in Calls : Execute(c) \/ Finish(c) \/ Tell(c)

Spec == Init /\ [][Next]_vars

=============================================================================
