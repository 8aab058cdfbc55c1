------------------------------- MODULE MCApp -------------------------------
(* Instances of App for TLC.                                                *)
EXTENDS App

CONSTANTS s1, s2, s3

=============================================================================
