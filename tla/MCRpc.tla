------------------------------- MODULE MCRpc -------------------------------
(* Instances of Rpc for TLC.                                                *)
EXTENDS Rpc

CONSTANTS c1, c2, r1

=============================================================================
