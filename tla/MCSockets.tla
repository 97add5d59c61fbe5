----------------------------- MODULE MCSockets -----------------------------
(* Instances of Sockets for TLC.                                           *)
EXTENDS Sockets, TLC

CONSTANTS s1, u1

OneSession == [t \in Tokens |-> s1]
OneUser == [s \in Sessions |-> u1]

\* Instances are interchangeable, and so are sockets and tokens.
Symmetry == Permutations(Instances) \cup Permutations(Ids) \cup Permutations(Tokens)
=============================================================================
