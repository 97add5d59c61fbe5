----------------------------- MODULE MCSessions -----------------------------
(* Instances of Sessions for TLC.                                          *)
EXTENDS Sessions, TLC

CONSTANT u1

OneUser == [s \in SessionIds |-> u1]

\* Handlers are interchangeable, and so are the ids of one user's sessions.  For safety on larger
\* instances: the run beside it checks liveness too, which symmetry would spoil.
Symmetry == Permutations(SessionIds) \cup Permutations(Workers)
=============================================================================
