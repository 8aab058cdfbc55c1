------------------------------ MODULE RpcCall ------------------------------
(***************************************************************************)
(* What Client.Invoke promises its callers, without request ids, tables,   *)
(* channels or connections.  A call begins, its request is transmitted at  *)
(* most once, and it ends once: with the answer to its own transmitted     *)
(* request, with a send error, in which case the request was not and will  *)
(* not be transmitted, or with a timeout, which says nothing of the        *)
(* request.                                                                *)
(***************************************************************************)
CONSTANTS
    Calls,      \* the calls
    NoAnswer    \* no answer

VARIABLES
    phase,      \* "new", "open" or "ended"
    sent,       \* the calls whose request has been transmitted
    outcome,    \* how the call ended
    answer      \* the call whose request was answered

vars == <<phase, sent, outcome, answer>>

Init ==
    /\ phase = [c \in Calls |-> "new"]
    /\ sent = {}
    /\ outcome = [c \in Calls |-> "none"]
    /\ answer = [c \in Calls |-> NoAnswer]

Begin(c) ==
    /\ phase[c] = "new"
    /\ phase' = [phase EXCEPT ![c] = "open"]
    /\ UNCHANGED <<sent, outcome, answer>>

Transmit(c) ==
    /\ phase[c] = "open"
    /\ c \notin sent
    /\ sent' = sent \cup {c}
    /\ UNCHANGED <<phase, outcome, answer>>

End(c, how) ==
    /\ phase[c] = "open"
    /\ phase' = [phase EXCEPT ![c] = "ended"]
    /\ outcome' = [outcome EXCEPT ![c] = how]
    /\ UNCHANGED sent

EndWithAnswer(c) ==
    /\ c \in sent
    /\ End(c, "response")
    /\ answer' = [answer EXCEPT ![c] = c]

EndWithSendError(c) ==
    /\ c \notin sent
    /\ End(c, "sendError")
    /\ UNCHANGED answer

EndWithTimeout(c) ==
    /\ End(c, "timeout")
    /\ UNCHANGED answer

Next ==
    \E c \in Calls :
        \/ Begin(c) \/ Transmit(c)
        \/ EndWithAnswer(c) \/ EndWithSendError(c) \/ EndWithTimeout(c)

Spec == Init /\ [][Next]_vars

=============================================================================
