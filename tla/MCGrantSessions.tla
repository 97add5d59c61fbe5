-------------------------- MODULE MCGrantSessions --------------------------
(* Instances of GrantSessions for TLC.                                     *)
EXTENDS GrantSessions, TLC

\* Handlers, connections and scopes are interchangeable.  For safety on larger
\* instances: the run beside it checks liveness too, which symmetry would spoil.
Symmetry == Permutations(Conns) \cup Permutations(Workers) \cup Permutations(Scopes)
=============================================================================
