--------------------------- MODULE RotatingTokens ---------------------------
(***************************************************************************)
(* What families of rotating refresh tokens promise, whatever stores them: *)
(* a family has at most one valid token, a valid token is traded once for  *)
(* one that was never seen before, and a family that was closed stays      *)
(* closed.  Device sessions (Sessions.tla) and OAuth connections           *)
(* (GrantSessions.tla) implement it.                                       *)
(***************************************************************************)

CONSTANTS Families,  \* one per signed-in device
          Secrets    \* what tells the tokens of a family apart

VARIABLES opened,    \* families that have ever been opened
          valid,     \* tokens <<family, secret>> that may be redeemed now
          spent      \* tokens that were redeemed

vars == <<opened, valid, spent>>

Init == opened = {} /\ valid = {} /\ spent = {}

\* A family is opened once, with one token.
Open(f, g) ==
    /\ f \in Families \ opened
    /\ opened' = opened \cup {f}
    /\ valid' = valid \cup {<<f, g>>}
    /\ UNCHANGED spent

\* The trade is one step: nobody sees both tokens valid, or neither.
Redeem(f, g, n) ==
    /\ <<f, g>> \in valid
    /\ <<f, n>> \notin valid \cup spent
    /\ valid' = (valid \ {<<f, g>>}) \cup {<<f, n>>}
    /\ spent' = spent \cup {<<f, g>>}
    /\ UNCHANGED opened

\* Sign-out, reuse detection, a password change, the expiry sweep.
Close(F) ==
    /\ valid' = {t \in valid : t[1] \notin F}
    /\ UNCHANGED <<opened, spent>>

Next ==
    \/ \E f \in Families, g \in Secrets : Open(f, g)
    \/ \E f \in Families : \E g, n \in Secrets : Redeem(f, g, n)
    \/ \E F \in SUBSET Families : Close(F)

Spec == Init /\ [][Next]_vars
=============================================================================
