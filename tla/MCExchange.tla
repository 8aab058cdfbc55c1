----------------------------- MODULE MCExchange -----------------------------
(* Instances of Exchange for TLC.                                           *)
EXTENDS Exchange, TLC

CONSTANTS c1, c2, c3, shared, nil, json, other

\* Calls are interchangeable.
Symmetry == Permutations(Calls)

\* A code that travels and one that does not.
MCCodes == {0, 500}

=============================================================================
