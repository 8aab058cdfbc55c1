----------------------------- MODULE MCEndpoints -----------------------------
(* Instances of Endpoints for TLC.                                          *)
EXTENDS Endpoints

CONSTANTS c1, c2, s1, s2, a1, a2

\* Two clients of two services; the first also has a fixed address.
MCServiceOf == [c \in Clients |-> IF c = c1 THEN s1 ELSE s2]
MCFixedAddr == [c \in Clients |-> IF c = c1 THEN a2 ELSE None]

\* The name of the first service is a prefix of the name of the second.
MCWithPrefix == [s \in Services |-> IF s = s1 THEN Services ELSE {s}]

=============================================================================
