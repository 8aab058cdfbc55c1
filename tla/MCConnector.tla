---------------------------- MODULE MCConnector ----------------------------
(* Instances of Connector for TLC.                                          *)
EXTENDS Connector, TLC

\* Senders are interchangeable.
Symmetry == Permutations(Senders)

=============================================================================
