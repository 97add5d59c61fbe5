-------------------------- MODULE MCOneTimeCodes --------------------------
(* Instances of OneTimeCodes for TLC.                                      *)
EXTENDS OneTimeCodes, TLC

\* Requests of one kind are interchangeable.  For safety on larger
\* instances: the run beside it checks liveness too, which symmetry would spoil.
Symmetry == Permutations(Creators) \cup Permutations(Verifiers)
=============================================================================
