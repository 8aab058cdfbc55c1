---------------------------- MODULE MCClientCall ----------------------------
(* Instances of ClientCall for TLC.                                         *)
EXTENDS ClientCall, TLC

\* Calls are interchangeable, and so are readers.
Symmetry == Permutations(Calls) \cup Permutations(Readers)

=============================================================================
