-------------------------- MODULE MCLoginThrottle --------------------------
(* Instances of LoginThrottle for TLC.                                     *)
EXTENDS LoginThrottle, TLC

\* Logins and accounts are interchangeable.
Symmetry == Permutations(Workers) \cup Permutations(Emails)
=============================================================================
