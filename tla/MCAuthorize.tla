---------------------------- MODULE MCAuthorize ----------------------------
(* Instances of Authorize for TLC.                                         *)
EXTENDS Authorize, TLC

CONSTANTS client, a, b, unknown

Callback == [scheme |-> "https", loopback |-> FALSE, fragment |-> FALSE]
Plain    == [scheme |-> "http",  loopback |-> FALSE, fragment |-> FALSE]
Script   == [scheme |-> "blocked", loopback |-> FALSE, fragment |-> FALSE]

\* A client that can register, and one that cannot.
SomeMetadata == {
    [uris |-> {Callback}, auth |-> "none", scope |-> {a, b}],
    [uris |-> {Callback, Plain}, auth |-> "none", scope |-> {a}]}

Query(uri, type, scope) ==
    [client |-> client, uri |-> uri, type |-> type, method |-> "S256", resource |-> None, scope |-> scope]

\* The registered scopes by default, one of them, a callback that is not registered.
SomeRequests == {
    Query(Callback, "code", None), Query(Callback, "code", {a}),
    Query(Script, "code", {a}), Query(Callback, "other", {a}),
    Query(Callback, "code", {a, unknown})}

\* People and handlers are interchangeable.
Symmetry == Permutations(Users) \cup Permutations(Workers) \cup Permutations(Codes)
=============================================================================
