------------------------------ MODULE MCLookup ------------------------------
(* Instances of Lookup for TLC.                                             *)
EXTENDS Lookup, TLC

CONSTANTS c1, c2, a1, a2

\* Lists of none, one, two and three connectors; one address listed twice.
MCLists == {<<>>, <<a1>>, <<a1, a2>>, <<a2, a1>>, <<a1, a2, a1>>}

\* Callers are interchangeable.
Symmetry == Permutations(Callers)

=============================================================================
