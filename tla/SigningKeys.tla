---------------------------- MODULE SigningKeys ----------------------------
(***************************************************************************)
(* The keys that sign access tokens (shared/utils/jose.ts), over a         *)
(* rotation and the rolling deployments it takes.  An instance loads the   *)
(* configured keys when it boots; it signs with the first, verifies with   *)
(* all of them and publishes all of them at jwks_uri, which other parties  *)
(* may cache for jwt.jwksCacheMaxAgeSec.  The order of the keys matters    *)
(* only for the first, so a key set is its active key and the set of all.  *)
(*                                                                         *)
(* The operator rotates as jose.ts:94-97 and appConfig.ts:98-101 ask for   *)
(* together: a new key is published, first signs when every cache has had  *)
(* the time to see it, and the old one goes when its tokens have expired.  *)
(***************************************************************************)
EXTENDS Naturals

CONSTANTS Keys,        \* the JWKs there will ever be
          FirstKey,    \* the one the deployment starts with
          Instances,   \* processes that share the configuration
          AccessTtl,   \* oauth.accessTokenTtlSec
          MaxAge,      \* jwt.jwksCacheMaxAgeSec
          MaxTime      \* bound: instants

ASSUME SigningKeysAssumption ==
    /\ FirstKey \in Keys
    /\ AccessTtl \in Nat \ {0} /\ MaxAge \in Nat /\ MaxTime \in Nat

KeySets == {c \in [active : Keys, keys : SUBSET Keys] : c.active \in c.keys}

VARIABLES
    now,
    config,     \* jwt.signingKeys, as deployed next
    loaded,     \* loadedKeys of each instance, none while it is down
    tokens,     \* access tokens signed and not expired: [kid, exp]
    cache,      \* another party's copy of the JWKS: [keys, until]
    \* the operator
    used,       \* keys that have been configured
    served      \* since when every instance has served the key

vars == <<now, config, loaded, tokens, cache, used, served>>

Down == [active |-> FirstKey, keys |-> {}]

TypeOK ==
    /\ now \in Nat
    /\ config \in KeySets
    /\ loaded \in [Instances -> KeySets \cup {Down}]
    /\ tokens \subseteq [kid : Keys, exp : Nat]
    /\ cache \in [keys : SUBSET Keys, until : Nat]
    /\ used \subseteq Keys /\ config.keys \subseteq used
    /\ served \in [Keys -> Nat]

Init ==
    /\ now = 0
    /\ config = [active |-> FirstKey, keys |-> {FirstKey}]
    /\ loaded = [i \in Instances |-> config]
    /\ tokens = {}
    /\ cache = [keys |-> {}, until |-> 0]
    /\ used = {FirstKey}
    /\ served = [k \in Keys |-> 0]

-----------------------------------------------------------------------------
(* The instances.                                                          *)

Up == {i \in Instances : loaded[i] # Down}

\* A slip: keys that no longer sign are not loaded for verification.
OnlyActive(c) == {c.active}

\* publicJwkSetFrom: what verifies, and what is published.
publicJwkSetFrom(c) == c.keys

getActiveKey(i) == loaded[i].active

\* Every instance that is up publishes the key.
Everywhere(k, on) == \A i \in Instances : on[i] # Down => k \in publicJwkSetFrom(on[i])

\* A deployment, and a crash, stop an instance;
Stop(i) ==
    /\ i \in Up
    /\ loaded' = [loaded EXCEPT ![i] = Down]
    /\ UNCHANGED <<now, config, tokens, cache, used, served>>

\* initJoseKeys loads what is configured by then.
initJoseKeys(i) ==
    /\ i \notin Up
    /\ loaded' = [loaded EXCEPT ![i] = config]
    /\ UNCHANGED <<now, config, tokens, cache, used, served>>

\* signJwt.
signJwt(i) ==
    /\ i \in Up
    /\ tokens' = tokens \cup {[kid |-> getActiveKey(i), exp |-> now + AccessTtl]}
    /\ UNCHANGED <<now, config, loaded, cache, used, served>>

\* verifyJwt, as far as the key goes: it is found by the kid of the token.
Verifies(i, t) == t.kid \in publicJwkSetFrom(loaded[i])

\* getJwks, kept by whoever asked for as long as Cache-Control says.
getJwks(i) ==
    /\ i \in Up
    /\ cache' = [keys |-> publicJwkSetFrom(loaded[i]), until |-> now + MaxAge]
    /\ UNCHANGED <<now, config, loaded, tokens, used, served>>

-----------------------------------------------------------------------------
(* The operator.                                                           *)

\* A new key is added behind the active one.
Publish(k) ==
    /\ k \notin used
    /\ config' = [config EXCEPT !.keys = @ \cup {k}]
    /\ used' = used \cup {k}
    /\ UNCHANGED <<now, loaded, tokens, cache, served>>

\* The operator sees that the new key has reached every instance.
SeeServed(k) ==
    /\ k \in config.keys /\ served[k] = 0
    /\ Everywhere(k, loaded)
    /\ served' = [served EXCEPT ![k] = now]
    /\ UNCHANGED <<now, config, loaded, tokens, cache, used>>

\* A cache older than max-age is not used any more.
Seen(k) == served[k] > 0 /\ served[k] + MaxAge <= now

\* It is moved to the front.
Promote(k) ==
    /\ k \in config.keys /\ k # config.active /\ Seen(k)
    /\ config' = [config EXCEPT !.active = k]
    /\ UNCHANGED <<now, loaded, tokens, cache, used, served>>

\* Once nobody signs with the old key and its tokens have expired, it is dropped.
Retire(k) ==
    /\ k \in config.keys /\ k # config.active
    /\ \A i \in Up : getActiveKey(i) # k
    /\ \A t \in tokens : t.kid # k
    /\ config' = [config EXCEPT !.keys = @ \ {k}]
    /\ UNCHANGED <<now, loaded, tokens, cache, used, served>>

\* Expired tokens are of no interest to anybody.
Tick ==
    /\ now < MaxTime
    /\ now' = now + 1
    /\ tokens' = {t \in tokens : t.exp > now + 1}
    /\ UNCHANGED <<config, loaded, cache, used, served>>

Next ==
    \/ \E i \in Instances : Stop(i) \/ initJoseKeys(i) \/ signJwt(i) \/ getJwks(i)
    \/ \E k \in Keys : Publish(k) \/ SeeServed(k) \/ Promote(k) \/ Retire(k)
    \/ Tick

Spec == Init /\ [][Next]_vars

\* What jose.ts:94-97 says on its own: the new key is put in front and deployed.  With
\* PrependSpec for Spec neither property below holds: an instance that has not been
\* restarted, or a copy of the JWKS, does not know the key yet.
Prepend(k) ==
    /\ k \notin used
    /\ config' = [active |-> k, keys |-> config.keys \cup {k}]
    /\ used' = used \cup {k}
    /\ UNCHANGED <<now, loaded, tokens, cache, served>>

PrependNext ==
    \/ \E i \in Instances : Stop(i) \/ initJoseKeys(i) \/ signJwt(i) \/ getJwks(i)
    \/ \E k \in Keys : Prepend(k) \/ Retire(k)
    \/ Tick

PrependSpec == Init /\ [][PrependNext]_vars
-----------------------------------------------------------------------------
(* Properties.                                                             *)

\* An access token is accepted by every instance until it expires, whichever
\* instance signed it, whatever key set each of them booted with, and however far
\* the rotation has got (jose.ts:91-97, 245-246).
TokensAccepted == \A i \in Up, t \in tokens : Verifies(i, t)

\* So it is by a party that verifies with a copy of the JWKS no older than it may be
\* (appConfig.ts:98-101): a copy that is still in use knows every key that signs.
CopiesSuffice == now < cache.until => \A t \in tokens : t.kid \in cache.keys

-----------------------------------------------------------------------------
(* The inductive invariant behind both.                                    *)

\* What has a key in use: the configuration, an instance that signs, a token.
InUse(k) ==
    \/ k = config.active
    \/ \E i \in Up : getActiveKey(i) = k
    \/ \E t \in tokens : t.kid = k

\* A key in use is configured, so that the next instance loads it,
UsedKeysAreConfigured == \A k \in Keys : InUse(k) => k \in config.keys

\* and loaded by every instance, as is one that may be promoted;
ServedOrUsed(k) == InUse(k) \/ (k \in config.keys /\ served[k] > 0)
UsedKeysAreLoaded == \A k \in Keys : ServedOrUsed(k) => Everywhere(k, loaded)

\* only what was configured has been served, and no later than now;
ServedWasConfigured == \A k \in Keys : served[k] <= now /\ (served[k] > 0 => k \in used)

\* a copy in use knows the keys in use, and the one that may be promoted unless it
\* ends first.
CopyKnows ==
    now < cache.until =>
        \A k \in Keys :
            /\ InUse(k) => k \in cache.keys
            /\ ServedOrUsed(k) => k \in cache.keys \/ cache.until <= served[k] + MaxAge

IInv == /\ TypeOK /\ UsedKeysAreConfigured /\ UsedKeysAreLoaded /\ ServedWasConfigured
        /\ CopyKnows /\ cache.until <= now + MaxAge
=============================================================================
