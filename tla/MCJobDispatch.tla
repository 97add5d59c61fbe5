--------------------------- MODULE MCJobDispatch ---------------------------
(* Instances of JobDispatch for TLC.                                       *)
EXTENDS JobDispatch, TLC

\* Messages and worker processes are interchangeable.  For safety on larger
\* instances: the run beside it checks liveness too, which symmetry would spoil.
Symmetry == Permutations(Jobs) \cup Permutations(Procs)
=============================================================================
