--------------------------- MODULE GrantSessions ---------------------------
(***************************************************************************)
(* OAuth connections (modules/oauth): a row of oauth_grant_sessions holds  *)
(* the hash of the one refresh token of a connection that may be redeemed. *)
(* The access token handed out with it is a signed JWT that nothing stores *)
(* (infra/oauthTokens.ts); retiring one early means remembering its jti in *)
(* Redis for the rest of its life (denyAccessToken), and the MCP endpoint  *)
(* asks for it on every call (mcp/authenticate.ts).  One action per await  *)
(* of exchangeCode / issueGrantSession and refreshGrantTokens, on a clock  *)
(* that the whole deployment shares.                                       *)
(*                                                                         *)
(* Pair g of a connection is its g-th refresh token and the access token   *)
(* signed with it; one statement writes hash and jti, so the row names the *)
(* live pair.  Reading a spent refresh token is logged and rejected: it    *)
(* changes nothing and is not an action.  The connections are those of one *)
(* grant; denyGrant and deleteGrantSessionsByGrant have no callers.        *)
(***************************************************************************)
EXTENDS Naturals, FiniteSets

CONSTANTS Conns,        \* ids of oauth_grant_sessions rows
          Scopes,       \* what a user can consent to
          Workers,      \* requests to /token that may run at the same time
          None,         \* no connection
          AccessTtl,    \* oauth.accessTokenTtlSec
          Tolerance,    \* jwt.clockToleranceSec
          RefreshTtl,   \* oauth.refreshTokenTtlSec, sliding
          AbsoluteTtl,  \* oauth.refreshTokenAbsoluteTtlSec
          MaxGen,       \* bound: pairs of one connection
          MaxTime       \* bound: the clock

ASSUME GrantSessionsAssumption ==
    /\ {AccessTtl, RefreshTtl, AbsoluteTtl, MaxGen} \subseteq Nat \ {0}
    /\ Tolerance \in Nat /\ MaxTime \in Nat
    /\ RefreshTtl <= AbsoluteTtl
    /\ None \notin Conns

Gens == 1..MaxGen
NoToken == 0                              \* no hash yet, an exp or a key that is not there

VARIABLES
    now,
    consented,   \* scopes of the oauth_grants row, none before there is one
    \* Postgres: oauth_grant_sessions
    rows,
    hash,        \* the live pair: tokenHash and accessTokenJti
    expires,     \* expiresAt
    ceiling,     \* absoluteExpiresAt
    \* signed access tokens: the clients hold them, the row keeps the last exp
    exp,
    scope,
    \* Redis
    deny,        \* when the denylist entry of an access token runs out
    \* /token handlers
    pc, conn,
    seen,        \* the pair the presented refresh token belongs to
    signedAt,    \* when the handler signed and computed its expiries
    signed,      \* the scopes it signed
    \* clients
    held,        \* the pairs that reached the client
    \* history
    used,        \* connections ever inserted
    redeemed,    \* how often each refresh token was traded
    abandoned    \* pairs that were swapped by a handler that then failed to deny them

connectionRows == <<rows, hash, expires, ceiling, exp, scope, used, redeemed>>
request        == <<conn, seen, signedAt, signed>>
vars == <<now, consented, connectionRows, deny, pc, request, held, abandoned>>

Steps == {"idle", "insert", "grant", "rotate", "deny", "respond"}

TypeOK ==
    /\ now \in Nat
    /\ consented \subseteq Scopes
    /\ rows \subseteq used /\ used \subseteq Conns
    /\ hash \in [Conns -> Gens \cup {NoToken}]
    /\ expires \in [Conns -> Nat] /\ ceiling \in [Conns -> Nat]
    /\ exp \in [Conns -> [Gens -> Nat]]
    /\ scope \in [Conns -> [Gens -> SUBSET Scopes]]
    /\ deny \in [Conns -> [Gens -> Nat]]
    /\ pc \in [Workers -> Steps]
    /\ conn \in [Workers -> Conns \cup {None}]
    /\ seen \in [Workers -> 0..MaxGen-1]
    /\ signedAt \in [Workers -> Nat]
    /\ signed \in [Workers -> SUBSET Scopes]
    /\ held \in [Conns -> SUBSET Gens]
    /\ redeemed \in [Conns -> [Gens -> Nat]]
    /\ abandoned \subseteq Conns \X Gens

Init ==
    /\ now = 0
    /\ consented = {}
    /\ rows = {} /\ used = {}
    /\ hash = [c \in Conns |-> NoToken]
    /\ expires = [c \in Conns |-> 0] /\ ceiling = [c \in Conns |-> 0]
    /\ exp = [c \in Conns |-> [g \in Gens |-> NoToken]]
    /\ scope = [c \in Conns |-> [g \in Gens |-> {}]]
    /\ deny = [c \in Conns |-> [g \in Gens |-> NoToken]]
    /\ pc = [w \in Workers |-> "idle"]
    /\ conn = [w \in Workers |-> None]
    /\ seen = [w \in Workers |-> 0]
    /\ signedAt = [w \in Workers |-> 0]
    /\ signed = [w \in Workers |-> {}]
    /\ held = [c \in Conns |-> {}]
    /\ redeemed = [c \in Conns |-> [g \in Gens |-> 0]]
    /\ abandoned = {}

-----------------------------------------------------------------------------
Goto(w, step) == pc' = [pc EXCEPT ![w] = step]

Finish(w) ==
    /\ Goto(w, "idle")
    /\ conn' = [conn EXCEPT ![w] = None]
    /\ seen' = [seen EXCEPT ![w] = 0]
    /\ signedAt' = [signedAt EXCEPT ![w] = 0]
    /\ signed' = [signed EXCEPT ![w] = {}]

\* signGrantAccessToken, and the Date.now() next to it.  The bound leaves every
\* token that is signed the time to expire.
Sign(w, S) ==
    /\ now + AccessTtl + Tolerance <= MaxTime
    /\ signedAt' = [signedAt EXCEPT ![w] = now]
    /\ signed' = [signed EXCEPT ![w] = S]

\* The pair a handler is issuing, as the UPDATE or the INSERT records it.
Record(w, g) ==
    /\ hash' = [hash EXCEPT ![conn[w]] = g]
    /\ exp' = [exp EXCEPT ![conn[w]][g] = signedAt[w] + AccessTtl]
    /\ scope' = [scope EXCEPT ![conn[w]][g] = signed[w]]

\* isAccessTokenDenied: the entry of this jti is still in Redis.
Denied(c, g) == now < deny[c][g]

\* A slip: the signature is checked, the age is not.
AcceptsAnyAge(c, g) == exp[c][g] # NoToken /\ scope[c][g] # {} /\ ~Denied(c, g)

\* authenticateMcp lets the access token of pair g through: jwtVerify allows
\* for clock skew, and readClaims refuses an empty scope claim.
Accepts(c, g) ==
    /\ exp[c][g] # NoToken /\ now < exp[c][g] + Tolerance
    /\ scope[c][g] # {}
    /\ ~Denied(c, g)

-----------------------------------------------------------------------------
(* exchangeCode, once the code is consumed and its bindings are checked.   *)

\* The token is signed for the scopes approved with the code: part of the grant.
ExchangeCode(w, c, S) ==
    /\ pc[w] = "idle"
    /\ c \notin used /\ \A x \in Workers : conn[x] # c
    /\ S # {} /\ S \subseteq consented
    /\ Sign(w, S)
    /\ Goto(w, "insert")
    /\ conn' = [conn EXCEPT ![w] = c]
    /\ UNCHANGED <<now, consented, connectionRows, deny, seen, held, abandoned>>

InsertGrantSession(w) ==
    /\ pc[w] = "insert"
    /\ rows' = rows \cup {conn[w]} /\ used' = used \cup {conn[w]}
    /\ Record(w, 1)
    /\ expires' = [expires EXCEPT ![conn[w]] = signedAt[w] + RefreshTtl]
    /\ ceiling' = [ceiling EXCEPT ![conn[w]] = signedAt[w] + AbsoluteTtl]
    /\ Goto(w, "respond")
    /\ UNCHANGED <<now, consented, redeemed, deny, request, held, abandoned>>

-----------------------------------------------------------------------------
(* refreshGrantTokens.                                                     *)

\* findGrantSessionById: the presented secret is the live one.
PresentRefreshToken(w, c, g) ==
    /\ pc[w] = "idle"
    /\ c \in rows /\ g \in held[c]
    /\ g = hash[c] /\ g < MaxGen
    /\ Goto(w, "grant")
    /\ conn' = [conn EXCEPT ![w] = c]
    /\ seen' = [seen EXCEPT ![w] = g]
    /\ UNCHANGED <<now, consented, connectionRows, deny, signedAt, signed, held, abandoned>>

\* findGrantById and narrowScopes: everything consented to, or the requested
\* part of it, which "scope=" makes empty.
ReadGrant(w, S) ==
    /\ pc[w] = "grant"
    /\ S \subseteq consented
    /\ Sign(w, S)
    /\ Goto(w, "rotate")
    /\ UNCHANGED <<now, consented, connectionRows, deny, conn, seen, held, abandoned>>

\* A slip: the row is matched by id and expiry only.
ClaimsById(w) ==
    /\ conn[w] \in rows
    /\ signedAt[w] < expires[conn[w]] /\ signedAt[w] < ceiling[conn[w]]

\* The WHERE clause of rotateGrantSession, with the handler's own clock.
Claims(w) ==
    /\ conn[w] \in rows
    /\ hash[conn[w]] = seen[w]
    /\ signedAt[w] < expires[conn[w]] /\ signedAt[w] < ceiling[conn[w]]

\* A slip: the window slides past the ceiling.
Slide(w) == signedAt[w] + RefreshTtl

\* LEAST(slidingExpiresAt, absoluteExpiresAt).
NextExpiry(w) ==
    IF signedAt[w] + RefreshTtl <= ceiling[conn[w]]
      THEN signedAt[w] + RefreshTtl ELSE ceiling[conn[w]]

\* A slip: the row keeps the hash it had.
SamePair(c) == hash[c]

\* A slip: the column gets the hash of a secret that is no pair's.
UnmintedHash(c) == MaxGen + hash[c]

\* mintRotatedRefreshToken and the access token next to it.
Replacement(c) == hash[c] + 1

\* The one UPDATE that spends the presented token and installs the new pair.
RotateGrantSession(w) ==
    /\ pc[w] = "rotate"
    /\ Claims(w)
    /\ hash[conn[w]] < MaxGen
    /\ Record(w, Replacement(conn[w]))
    /\ expires' = [expires EXCEPT ![conn[w]] = NextExpiry(w)]
    /\ redeemed' = [redeemed EXCEPT ![conn[w]][seen[w]] = @ + 1]
    /\ Goto(w, "deny")
    /\ UNCHANGED <<now, consented, rows, ceiling, used, deny, request, held, abandoned>>

\* The UPDATE matched no row.
LoseClaim(w) ==
    /\ pc[w] = "rotate"
    /\ ~Claims(w)
    /\ Finish(w)
    /\ UNCHANGED <<now, consented, connectionRows, deny, held, abandoned>>

\* A slip: the jti is taken from the row the UPDATE returned.
RowJti(w) == hash[conn[w]]

\* The jti of the row as it was read before the rotation.
RetiringJti(w) == seen[w]

\* denyAccessToken: SET EX the rest of the token's life, nothing if it is over.
DenyAccessToken(w) ==
    /\ pc[w] = "deny"
    /\ LET g == RetiringJti(w) IN
       deny' = IF now < exp[conn[w]][g]
                 THEN [deny EXCEPT ![conn[w]][g] = exp[conn[w]][g]] ELSE deny
    /\ Goto(w, "respond")
    /\ UNCHANGED <<now, consented, connectionRows, request, held, abandoned>>

\* The client receives the new pair.
Respond(w) ==
    /\ pc[w] = "respond"
    /\ held' = [held EXCEPT ![conn[w]] = @ \cup {seen[w] + 1}]
    /\ Finish(w)
    /\ UNCHANGED <<now, consented, connectionRows, deny, abandoned>>

-----------------------------------------------------------------------------
(* The environment.                                                        *)

\* upsertGrant: an authorization of the client adds scopes, the first one the row.
UpsertGrant(S) ==
    /\ ~ (S \subseteq consented)
    /\ consented' = consented \cup S
    /\ UNCHANGED <<now, connectionRows, deny, pc, request, held, abandoned>>

Tick ==
    /\ now < MaxTime
    /\ now' = now + 1
    /\ UNCHANGED <<consented, connectionRows, deny, pc, request, held, abandoned>>

PruneExpiredGrantSessions ==
    /\ \E c \in rows : expires[c] < now \/ ceiling[c] < now
    /\ rows' = {c \in rows : expires[c] >= now /\ ceiling[c] >= now}
    /\ UNCHANGED <<now, consented, hash, expires, ceiling, exp, scope, used,
                   redeemed, deny, pc, request, held, abandoned>>

\* A store call throws, the process dies, or the response is lost.
Fail(w) ==
    /\ pc[w] # "idle"
    /\ abandoned' = IF pc[w] = "deny" THEN abandoned \cup {<<conn[w], seen[w]>>} ELSE abandoned
    /\ Finish(w)
    /\ UNCHANGED <<now, consented, connectionRows, deny, held>>

-----------------------------------------------------------------------------
Start(w) ==
    \E c \in Conns :
        \/ \E S \in SUBSET Scopes : ExchangeCode(w, c, S)
        \/ \E g \in Gens : PresentRefreshToken(w, c, g)

Continue(w) ==
    \/ InsertGrantSession(w)
    \/ \E S \in SUBSET Scopes : ReadGrant(w, S)
    \/ RotateGrantSession(w) \/ LoseClaim(w) \/ DenyAccessToken(w) \/ Respond(w)

Next ==
    \/ \E w \in Workers : Start(w) \/ Continue(w) \/ Fail(w)
    \/ \E S \in SUBSET Scopes : UpsertGrant(S)
    \/ Tick
    \/ PruneExpiredGrantSessions

Spec == Init /\ [][Next]_vars

\* Time passes; nothing is asked of the handlers.
FairSpec == Spec /\ WF_vars(Tick)
-----------------------------------------------------------------------------
(* Properties.                                                             *)

\* A refresh token is traded for a new pair at most once (the WHERE clause of
\* rotateGrantSession), even though every check before it is a stale read.
SingleRedemption == \A c \in Conns, g \in Gens : redeemed[c][g] <= 1

\* A denial never hits the pair the client is to use next: rotations and
\* denials of concurrent handlers interleave, and the jti that is denied was
\* read before the rotation (refreshGrantTokens.ts:179-184).
LivePairNotDenied == \A c \in Conns : \A g \in Gens : hash[c] <= g => deny[c][g] = NoToken

\* A pair that was swapped is refused for the rest of its life, from the moment
\* the handler that swapped it has answered, unless that handler failed.
RetiredPairRefused ==
    \A c \in Conns, g \in Gens :
        g < hash[c] /\ now < exp[c][g] =>
            \/ Denied(c, g) \/ <<c, g>> \in abandoned
            \/ \E w \in Workers : pc[w] = "deny" /\ conn[w] = c /\ seen[w] = g

\* However often it refreshes, a connection ends: no expiry passes the ceiling
\* (the LEAST in rotateGrantSession) and no access token outlives the ceiling
\* by more than its own lifetime.
ConnectionIsMortal ==
    \A c \in used :
        /\ expires[c] <= ceiling[c]
        /\ \A g \in Gens : exp[c][g] < ceiling[c] + AccessTtl

\* A refresh token of a connection that was traded, or whose connection was pruned, is
\* never traded again, whatever exchange, refresh or sweep was under way at the time.
Redeemable(c, g) == c \in rows /\ hash[c] = g

DeadTokensStayDead ==
    [][\A c \in used : \A g \in 1..hash[c] : ~Redeemable(c, g) => ~Redeemable(c, g)']_vars

\* Crash or not, an access token that was swapped away stops being accepted
\* for good.
RetiredPairEventuallyRefused ==
    \A c \in Conns, g \in Gens : (g < hash[c]) ~> []~Accepts(c, g)

\* The connection table is a store of rotating tokens, as the session table is.
Tokens == INSTANCE RotatingTokens WITH
    Families <- Conns,
    Secrets <- Gens,
    opened <- used,
    valid <- {t \in Conns \X Gens : t[1] \in rows /\ t[2] = hash[t[1]]},
    spent <- {t \in Conns \X Gens : redeemed[t[1]][t[2]] > 0}

ImplementsRotatingTokens == Tokens!Spec

\* What oauthTokenStore.ts:138-141 says, and the code does not do in the seconds of
\* the clock tolerance: a token that was denied does not work again when its entry
\* runs out.
DeniedStaysDenied ==
    \A c \in Conns, g \in Gens : deny[c][g] # NoToken => ~Accepts(c, g)

\* What oauthTokens.ts:240 says, and the code does not do for an empty scope: claims
\* are refused when they are not of the shape we sign, so the access token of the live pair is accepted while it lasts.
SignedTokensAreAccepted ==
    \A c \in rows : \A g \in held[c] : g = hash[c] /\ now < exp[c][g] => Accepts(c, g)
=============================================================================
