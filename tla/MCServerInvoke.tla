--------------------------- MODULE MCServerInvoke ---------------------------
(* Instances of ServerInvoke for TLC.                                       *)
EXTENDS ServerInvoke

CONSTANTS q1, q2

=============================================================================
