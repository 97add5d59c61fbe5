------------------------------- MODULE MCMcp -------------------------------
(* An instance of Mcp for TLC: one tool for each scope, a token with one   *)
(* scope and a token with both.                                            *)
EXTENDS Mcp

CONSTANTS profile, notes, read, write, t1, t2

OneScopeEach == [tool \in Tools |-> IF tool = profile THEN read ELSE write]
OneAndBoth   == [t \in Tokens |-> IF t = t1 THEN {read} ELSE {read, write}]
=============================================================================
