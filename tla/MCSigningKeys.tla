--------------------------- MODULE MCSigningKeys ---------------------------
(* Instances of SigningKeys for TLC.                                       *)
EXTENDS SigningKeys, TLC

\* Instances are interchangeable.
Symmetry == Permutations(Instances)
=============================================================================
