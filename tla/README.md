# blue-node in TLA+

blue-node is a Node/TypeScript backend: an Express and GraphQL API with device
sessions, an OAuth 2.1 authorization server, an MCP endpoint, WebSockets over
Redis pub/sub, and a background worker on SQS or BullMQ. State lives in Postgres
and Redis and several instances of the process share both, so most of what can
go wrong goes wrong *between two awaits*. The modules here model the stateful
parts one await at a time and let the handlers of concurrent requests, crashes
and clocks interleave. TLC checks them on small instances; TLAPS proves every safety
property the passing runs check for every size. Paths are relative to `src/src/` unless
they start with `src/`.

## 1. Inventory

| component | state it keeps | operations | talks to | what is hard | what makes it correct |
|---|---|---|---|---|---|
| device sessions (`modules/auth`: createSession, renewSession, logout, changePassword, resetPassword; sessionQueries, tokenStore) | Postgres `sessions` (hash of the live and of the last spent refresh token, expiry), `users.passwordHash`; Redis `at:<sid>` | sign in, renew, reuse handling, sign out, change and reset password, expiry, sweep | clients, WebSockets (disconnect), mail jobs | two stores changed in separate awaits; concurrent renewals; failures in between | a refresh token is traded once; the device can go on refreshing; a revocation takes effect |
| OAuth connections (`modules/oauth`: exchangeCode, issueGrantSession, refreshGrantTokens; oauthGrantSessionQueries, oauthTokens, oauthTokenStore) | Postgres `oauth_grant_sessions`, `oauth_grants`; Redis denylist `blacklist:<jti>`; JWTs held by clients | exchange, refresh, deny, prune, grow consent | MCP endpoint, authorization flow | signed tokens cannot be deleted, only denied; stale reads around the rotation; clocks | single use; the swapped pair is refused, the live one never denied; a connection ends |
| one-time codes (`modules/auth/infra/tokenStore.ts`: e-mail verification, password reset) | one Redis hash per user and purpose: code hash, attempts, TTL | create, check | registration, reset, mail jobs | three Redis commands per operation | codes expire, guesses are bounded, an accepted code is gone |
| background jobs (`jobs/`, `worker/`, `lib/aws/sqs.ts`, `worker.ts`) | SQS messages and their visibility; Redis `jobDone:<id>`; poller state | poll, dispatch, mark, delete, extend, stop | mail, SQS/BullMQ | at-least-once delivery, overlapping deliveries, crashes, shutdown | nothing is dropped, repetitions have a known cause, a stop ends |
| login throttle and CAPTCHA (`loginWithPassword`, `assessLoginRisk`, `lib/captcha`) | Redis counters and locks per address, and per address and account | check, count, lock, clear | sessions | check and count are apart; success clears | bounded tries per window; locks are earned |
| OAuth authorization flow (`oauth/apis/handlers.ts`, authorizeRequest, completeAuthorization, registerClient, pending tickets and codes in Redis) | Redis pending tickets and authorization codes; `oauth_grants`, `oauth_clients` | authorize, sign in, consent, issue and consume a code | sessions, OAuth connections | tickets updated and consumed concurrently; one code, two exchanges | a code stands for one consent by one user and is redeemed once |
| WebSockets (`websocket/`, `modules/chat`) | sockets per user, session and room in each process; Redis channels | upgrade, register, join, leave, publish, disconnect | sessions, Redis pub/sub | verification before registration; unordered (un)subscriptions | the sockets of a revoked session end; whoever is hosted is subscribed |
| permission cache (`permissionQueries.ts`) | Redis `perm:<user>` beside Postgres | read through, invalidate | every authorization check | stale write after an invalidation | staleness is bounded by the TTL |
| signing keys (`shared/utils/jose.ts`) | key array in the process, JWKS in verifiers' caches | load, sign, verify, rotate by deployment | OAuth, MCP | caches across a rotation | what was signed verifies as long as it lives |
| MCP server (`mcp/`) | none between requests | authenticate, dispatch, call a tool | OAuth tokens | protocol and error cases | a call is authorized for its scope |
| lifecycle and health (`server.ts`, `init.ts`, `startup/`, `utils/serviceState.ts`, `routes/healthRoute.ts`) | readiness flags, open servers | boot, probe, shut down | all stores | ordering of the teardown, flags written by several callbacks | no request is served without its stores; shutdown ends |
| API keys (`modules/apiKeys`) | Postgres `api_keys` | mint, verify, rotate, revoke | request authentication | rotation is two statements | a client is not left without a key |
| HTTP rate limiter, GraphQL, middlewares, configuration, external services, views | none of their own (the limiter's counters belong to its library) | – | – | – | – |

The sessions and the connections share one idea, a family of rotating refresh
tokens; it is stated once, abstractly (`RotatingTokens`), and both are shown to
implement it.

## 2. Plan

The order followed the weight of what can go wrong: the token families first
(`RotatingTokens`, which both `Sessions` and `GrantSessions` are shown to
implement), then what opens a connection (`Authorize`), the queues and codes
(`OneTimeCodes`, `JobDispatch`), what reacts to a revocation (`Sockets`), what
guards the login (`LoginThrottle`), and the process around all of it
(`Lifecycle`, `Mcp`, `SigningKeys`). Parameters are constants with named
assumptions, every operation is an action, invariants are conjunctions of named
parts, and no module uses a RECURSIVE operator, so that each can be proved about.

How they fit together: `Authorize` ends where a code has been exchanged, which is
`ExchangeCode` of `GrantSessions`; a token that `GrantSessions` denies is one that
`Mcp` turns away (`Rotate`); a session that `Sessions` revokes is one that `Sockets`
has to disconnect (`Logout`, `ChangePassword`); the keys of `SigningKeys` sign the
tokens of `GrantSessions`. Each module keeps of its neighbours only what it reads
from them.

Every invariant of a passing run and both refinements are proved; what is left to TLC
alone is liveness (section 5). Left to prove: the type invariant of `Lifecycle`, which
TLC agrees with and which needs the lengths of sequences that SelectSeq computes. The
permission cache and the API keys have no module because nothing in the repository
calls the operations that write them (section 6).

## 3. The modules

**Common conventions.** A request handler is a worker with a program counter; a
step is what happens between two awaits, named after the function awaited. A
read that only leads to a rejection has no action. `Fail(w)` is a store call
that throws, a process that dies or a response that is lost: everything the
handler had committed stays, and the handler is gone. Hashes are injective, ids
are never drawn twice, and secrets are numbered by generation, so that a hash
column is a generation number. Definitions commented "a slip" are plausible
mistakes in the code next to them; no specification uses them, they show that
the properties can fail.

**RotatingTokens** - families of tokens with `opened`, `valid`, `spent`; `Open`,
`Redeem` (one step), `Close`.

**Sessions** - device sessions.

| variable | code |
|---|---|
| `rows`, `hash`, `prev`, `lapsed` | the `sessions` table: `tokenHash`, `previousTokenHash`, whether `expiresAt` has passed (`models/postgres/user/session.ts`) |
| `pwd` | version of `users.passwordHash` |
| `at` | Redis `at:<sid>`: one access token per session |
| `pc`, `sid`, `usr`, `tok`, `doomed` | handler locals across awaits |
| `held` | generations whose cookies reached the device |
| `used`, `redeemed`, `born`, `late`, `lost` | history |

`Login` / `InsertSession` / `IssueAccessToken` / `Respond` are createSession
(rows first, access token second); `Renew` / `RotateSession` or `LoseClaim` /
`RevokeAccessToken` / `IssueAccessToken` / `Respond` are renewSession, whose
conditional UPDATE is `Claims`; `Renew` with a spent token leads to
revokeOnReuse; `Logout`, `ChangePassword`, `ResetPassword` and their steps are
the services of those names. `SessionLapses` relies on the configured lifetimes
(7 days against 15 minutes): a row never lapses while an access token of its
last rotation is alive or a handler is about to write one.

**GrantSessions** - OAuth connections on a shared clock. `hash[c]` is the live
pair (refresh token hash and access token jti are written by one statement);
`exp`, `scope` are the claims of the signed tokens, `deny` the time at which a
denylist entry runs out, `expires` and `ceiling` the sliding and the absolute
expiry. `ExchangeCode` / `InsertGrantSession`; `PresentRefreshToken` /
`ReadGrant` / `RotateGrantSession` or `LoseClaim` / `DenyAccessToken`;
`Respond`; `UpsertGrant`, `PruneExpiredGrantSessions`, `Tick`. `Accepts` is the
bearer check of the MCP endpoint, with clock tolerance, empty scopes and the
denylist. Signing and the handler's `Date.now()` are one instant (`Sign`); the
WHERE clause uses that instant, as the code does.

**OneTimeCodes** - one key. `Create` / `DropPrevious` (DEL) / `StoreHash` (HSET)
/ `SetExpiry` (EXPIRE) / `Mail`; `Verify` (HGET) / `CountTry` (HINCRBY and the
comparison) / `DropCode` or `AcceptCode` (DEL). HSET keeps an existing TTL,
HINCRBY creates a key without one: `volatile` follows it.

**JobDispatch** - messages, pollers and markers. `Receive` hides a batch;
`CheckMarker` (EXISTS), `RunHandler`, `MarkDone` (SET), `DeleteMessage` are
dispatchJob and processMessage; `FinishBatch` is the Promise.all; `Stop`,
`Drained`, `Unwound`, `ForceExit` are stop() and the 25 s timer of `worker.ts`.
SQS itself is external: it is modelled from how the code uses it (visibility
timeout, receipt handles, redrive policy).

**Authorize** - from registering a client to redeeming a code.

| variable | code |
|---|---|
| `registered`, `grants` | `oauth_clients`, `oauth_grants` |
| `pending`, `volatile` | Redis `oauthPending:<ticket>`, and whether the key has a TTL |
| `codes` | Redis `oauthCode:<code>` |
| `pc`, `key`, `form`, `caller`, `request`, `signed` | handler locals across awaits |
| `cookie`, `pages` | the browser: its session cookies, the forms it shows |
| `unused`, `granted`, `opened`, `approved`, `mistaken`, `crossed` | history |

`RegisterClient` is postRegister with its checks of callbacks and metadata.
`GetAuthorize` / `ResolveGrant` / `CreatePending` / `SendPage` are getAuthorize;
`PostAuthorize` / `ReadPending` and then `SignIn` / `ResolveGrant` /
`ConsumePending`, or `UpdateRead` / `UpdateSet`, or `Decide` are the stages of
postAuthorize; `UpsertGrant` / `IssueCode` are completeAuthorization;
`ExchangeCode` / `OpenConnection` are postToken. One browser is modelled, with as
many tabs as there are handlers and several people who sign in with it. A ticket is
*crossed* when updatePendingAuthorizationRequest sets it although it is no longer
what the handler read: the GET and the SET KEEPTTL are two commands.

**Sockets** - WebSockets on several instances. `total`, `users`, `public`, `rooms`
are the maps of connectionManager.ts in each instance; `up`, `sent`, `subs`, `prior`,
`inbox` are its Redis subscriber: commands sent and not yet executed, subscriptions,
those to restore after a reconnect, messages on their way; `stage`, `host`,
`token`, `joined` are the sockets. Of the sessions it has what an upgrade reads: `at` is
what `at:<sid>` holds, `issued`, `past` the tokens written there and those past their
exp, `ended` the sessions that were revoked, `late` the tokens written after that and not
deleted since. `IssueAccessToken` is the last write of a login or a renewal, which asks
nothing about the row (the race of `LateIssueOnce` in `Sessions`), `TokenExpires` the
TTL. `Upgrade` / `Verify` / `HandleConnection` are
the authenticated path, `UpgradePublic` the other, `RejectUpgrade` what fails in
between; `JoinRoom`, `LeaveRoom`, `RoomMessage`, `Deliver` are messageRouter.ts and
envelopeRouter.ts; `Hangup`, `Heartbeat`, `Close` end a socket; `Execute`,
`LoseSubscriber`, `Ready` are subscriber.ts on ioredis; `Logout`, `ChangePassword`,
`PublishDisconnect`, `LoseDisconnect`, `Disconnect` are a revocation on its way to
the sockets.

**LoginThrottle** - loginWithPassword and assessLoginRisk on a clock. `count`,
`countEnd`, `lock` are the Redis counters and locks, by address (`<<NoAccount, ip>>`)
and by account and address; `stage`, `login`, `seen` are the logins, `tries` the wrong
passwords they compared. `Start` (assertAccNotLocked) refuses on a TTL above zero, as
the code does: Redis rounds a TTL to whole seconds, so in the last instant of a lock
there is a moment when it reads as none (`ReadsAsNone`) and SET NX still finds it; a
login that came through it is marked (`ending`). `Assess` (the CAPTCHA gate),
`WrongPassword` / `IncrementAddress` / `IncrementPair` / `LockAddress` / `LockPair`
(recordFailedAttempt), `RightPassword` / `ClearFailedAttempts`; `Fail` is Redis or the
process failing at any of them and `Tick` lets keys expire.

**Lifecycle** - one web process. `phase`, `step`, `exit`, `graced` follow boot and
shutdown; `up`, `link`, `flag` are, per store, whether it answers, what the client
library has, and serviceState; `probe` the pings of each /health request; `active`,
`kept`, `sockets` count connections. `BootStep` and the three ways a boot ends;
`ConnectionError`, `RedisReady`, `MongoHeartbeat`, `PoolConnects`, `ProbeEnds` write
the flags; `Arrive`, `Reuse`, `Query`, `Answer`, `SocketOpens` are the load; `Signal`,
`TeardownStarts`, `TeardownStep`, `Grace`, `HardExit` are shutdown() of server.ts.

**Mcp** - one request to the MCP endpoint: `Arrive` / `Verify` / `TurnAway` are
authenticate.ts, `RefuseHeaders` and `Dispatch` are server.ts, jsonrpc.ts and the
checks of defineTool.ts, `ToolEnds` is the handler; meanwhile tokens age, are rotated
away, and the account goes. `retired` are the tokens denyAccessToken was called for;
their denylist entries end with their exp (`Denied`), and the signature check goes on
accepting for the clock tolerance (`life`: fresh, lapsed, over). `came` is what the
token was when the request came. The endpoint keeps nothing between requests.

**SigningKeys** - the key set in the configuration (`config`), in each instance
(`loaded`), in a copy of the JWKS (`cache`), and the tokens out. `initJoseKeys`,
`signJwt`, `getJwks`, `Stop` are the instances; `Publish`, `SeeServed`, `Promote`,
`Retire` are the operator following jose.ts:94-97 and appConfig.ts:98-101, which is
external: nothing in the code enforces it. An instance reads the configuration at
boot in one step.

## 4. The runs

| run | instance | shows |
|---|---|---|
| `sessions` | 1 session, 3 handlers, 3 generations, 2 passwords | `ReuseIsSpent`, `LateIssueOnce`, `DeviceCanRefresh`, `ImplementsRotatingTokens`; `RevocationTakesEffect` under fairness |
| `grants` | 1 connection, 2 handlers, 3 pairs, clock to 7 with lifetimes 2 / 3 / 4, tolerance 1 | `LivePairNotDenied`, `RetiredPairRefused`, `ConnectionIsMortal`, `ImplementsRotatingTokens`; `RetiredPairEventuallyRefused` as time passes |
| `codes` | 2 creators, 2 checks, 2 codes, limit 2, 5 tries | `MailedCodeExpires`, `GuessesBounded`, `SpentCodeIsGone`; `MailedCodesRunOut` |
| `jobs` | 1 message, 2 processes, batches of 1, 3 receptions | `NeverDropped`, `DuplicatesExplained`, `CleanStopAbandonsNothing`; `JobsSettle` (if handlers end), `StopEnds` (even if they do not) |
| `authorize` | 2 people, 2 handlers, 1 client, 5 queries, 1 ticket, 2 codes | `CodesAreConsented`, `MistakesNeedARace`, `TicketsAreSpentOnce`, `ImmortalTicketsAreCrossed` |
| `sockets` | 2 instances, 2 sockets, 1 session with 1 token, 1 room, 1 lost subscriber, 1 command in flight | `RegistriesAgree`, `HostedAreSubscribed`, `RevokedSocketsExplained` |
| `sockets_live` | 1 instance, 2 sockets, 1 session with 2 tokens, no rooms, no lost subscriber | `RevokedSocketsEnd` under fairness |
| `throttle` | 2 accounts, 1 address, 2 logins, limit 2, window 2, clock to 2, 5 tries, 1 failure | `PairTriesBounded`, `LocksAreEarned` |
| `lifecycle` | 3 stores, one down at a time, 1 probe, 1 connection | `StoresOutliveRequests`; `ShutdownEnds`, `FlagsSettle` under fairness |
| `mcp` | 2 tools with a scope each, 2 tokens, 2 ids | `OnlyLiveTokensGetThrough`, `ForbiddenSaysNothing`, `EveryClientIsAnswered` |
| `keys` | 3 keys, 2 instances, lifetimes 1 / 1, clock to 5 | `TokensAccepted`, `CopiesSuffice` |
| `sessions_reset` | 1 session, 2 handlers | **violated**: `OldSessionsKilled`, what resetPassword.ts:22-24 says; a login that compared the old hash inserts its session between deleteAllSessions and the end of a reset that succeeds, and the session stays |

`SingleRedemption`, `CredentialsCurrent` and `DeadTokensStayDead` of the token families are
proved and in no run: TLC agrees with them on the same instances.

**Where code and comment part.** Each of these is stated as a property next to
those that hold, or can be read off the model; adding it to the .cfg of the run makes
TLC show the behaviour.

- `NoOrphanToken` (Sessions): a renewal rotates, a password change deletes the rows
  and the access tokens, the renewal then writes its access token: it works until its
  TTL, though "every session is now invalid" (changePassword.ts:48-49).
- logout.ts:14-16 says that a session's sockets are closed first, that a failure of it
  fails the logout, and that the client retries; :20 closes them last and swallows the
  failure (`LoseDisconnect` of Sockets), and a retry after `revokeAccessToken` is no
  longer authenticated.
- `DeniedStaysDenied` (GrantSessions): the denylist entry ends at `exp`, the
  verification allows 5 s more (oauthTokenStore.ts:138-141 against appConfig.ts:92).
- `SignedTokensAreAccepted` (GrantSessions): `scope=` narrows a refresh to nothing
  (refreshGrantTokens.ts:211, schemas.ts:109): the new token is signed and then
  refused, and the old one is retired.
- `AttemptsLimited` (OneTimeCodes): a check that read the hash before the key was
  dropped counts from one again and compares once more (appConfig.ts:122).
  `GuessesBounded` is what holds.
- `DrainIsCapped` (JobDispatch): after its 20 s cap stop() waits for the loop, and the
  loop for the hanging handler (sqsPoller.ts:24, 130): only the 25 s timer of
  worker.ts ends the process, without its teardown.
- A sign-in form that is submitted twice is reported as access_denied the second
  time, when the first has updated the ticket and the second is taken for the consent
  stage without a decision (handlers.ts:439-447): nobody pressed Deny.
- A socket may outlive its session though the disconnect message found everybody there
  was (Sockets): a renewal in flight writes `at:<sid>` after the revocation, and an
  upgrade with that token verifies (renewSession.ts:74-90, `NoOrphanToken` again).
  `RevokedSocketsExplained` names it as an excuse of its own (`late`), and
  `RevokedSocketsEnd` says that the heartbeat ends it.
- `RotatedTokensStayOut` (Mcp): a token that was rotated away passes again between its
  exp, when its denylist entry goes, and the end of the clock tolerance, though "past that
  no token they could deny is still verifiable" (oauthTokenStore.ts:131-132, and
  authenticate.ts:79-82). `OnlyLiveTokensGetThrough` is stated with that exception.
- `LocksLast` (LoginThrottle): "the lock lasts exactly lockoutWindowSec"
  (loginWithPassword.ts:112-113), but its TTL reads as 0 in its last half second, and 0 is
  not above zero (:82-87). Logins pass then, and the NX of :115 and :118 sets no new lock
  for their failures. `PairTriesBounded` leaves those tries out, as nothing bounds them.
- `UnusableTokensAreRejected` (Sockets): verifySessionToken says an unusable token is
  a rejected request; websocket/server.ts:102-105 passes its null on and the socket is
  registered as a public one.
- `StragglersAreClosed` (Lifecycle): server.ts:82-83 says closeAllConnections closes
  the stragglers; it has no hold on upgraded connections, so one WebSocket client that
  never answers ends in the hard exit with every store still connected.
- `PrependSpec` (SigningKeys): jose.ts:94-97 on its own - put the new key in front and
  deploy - breaks both properties; it takes the order of appConfig.ts:98-101 as well.
- A lock that could not be read counts as no lock (loginWithPassword.ts:79-80):
  `PairTriesBounded` counts those reads in `lost`.
- `PairTriesBounded` is larger than the limit and the logins under way: a window may
  begin with what an earlier counter allows without a lock, or with the logins that a
  lock found past it (`Before`). A smaller bound fails with six tries, and then the
  stated one is reached.

Three more consequences of the same races are seen by inspection and have no
property: two concurrent checks of one code are both accepted; a check that read a
replaced code deletes its successor; a client whose rotation answer is lost has no
token it can refresh with (the comment in refreshGrantTokens.ts:90 says it already
holds the new pair) and, for devices, its retry is handled as reuse. `DeviceCanRefresh`
excludes exactly those sessions (`lost`).

**Bounds.** Generations (`MaxGen`), passwords (`MaxPwd`), clocks (`MaxTime`), codes and
tries (`MaxCodes`, `MaxTries`), receptions and batches (`MaxReceives`, `MaxBatch`),
lost subscribers and commands in flight (`MaxDrops`, `MaxQueue`), failures of Redis
(`MaxLost`), connections and stores down at a time (`MaxConns`, `MaxDown`) are bounds
of the instance and guard the action that would pass them; `MaxAttempts`, `MaxFailed`,
`MaxConnections` and `MaxReceives` stand for limits of the configuration. Two handlers
are enough for every pairwise race and three, in `sessions`, for a race between two
renewals and a revocation; three generations for "live, spent last, spent earlier".
Sessions, connections and messages meet only in statements over all of a user's rows
or in a batch, which the proofs cover for every size; their runs, which check liveness
too, have one. A ticket meets another only through the pages of one browser, where it
is named by its id; two codes are needed for a crossed ticket to be spent twice. Two
sockets give a first and a last socket of a user and of a room, one lost subscriber a
reconnect under every other step, two instances a message from one to another. The one
token of `sockets` may be issued after the revocation; a device with an old and a new
token is in `sockets_live`, and the safety properties hold for it too on one instance
without rooms (run by hand, like the next two, and covered by the proofs). Two
accounts behind one address are what one account's success, or its failures, can do to
another's locks; a second address, whose failures are from elsewhere, was checked with
three tries. Windows of two instants end in the middle of an attempt. One probe overlaps
with every other writer of the flags; two that
overlap were checked with two stores and no connection. One connection may be a request, a kept connection or a
socket in turn; the order of a teardown with several of them is the same wait for
none. The clock of `grants` passes the ceiling by more than an access token's life and
the tolerance, that of `keys` two rotations with their waits. Symmetry is used in safety
runs only. Deadlock checking is off where bounds, expiry or a completed shutdown let
the system stop; the MCP endpoint never does.

**Fairness.** Sessions: every await settles, so a handler that started goes on
(`WF(Continue(w))`), and Redis expires keys; nothing forces a request to arrive or a
sweep to run (the sweep has no caller in the repository). GrantSessions: only time
passes; handlers may stop anywhere. OneTimeCodes: only Redis expiry. JobDispatch:
awaits settle, timers fire, the orchestrator restarts a crashed process, and a process
that keeps polling gets to poll and to receive (strong fairness, as crashes and empty
polls disable both again and again). A handler is not assumed to return: `JobsSettle`
states that as its hypothesis (`HandlersEnd`). Sockets: tokens reach their `exp`, the
heartbeat is an interval timer, and a close handshake that is not answered ends by a
timeout of ws; messages, the subscriber and clients owe nothing. Lifecycle: the load
balancer keeps asking for /health (healthRoute.ts:44-45), each ping ends within
checkWithTimeout, the drivers go on reconnecting and report what they see, and the
timers of shutdown fire; requests, clients, disconnects and boot may hang.

## 5. Proofs

The proofs about a component are in a module of their own, but for two small pairs
that share one: `AccessProofs` (`Mcp`, `LoginThrottle`) and `DeploymentProofs`
(`SigningKeys`, `Lifecycle`). Definitions of `LoginThrottle` and `Lifecycle` are named
so that both modules of a pair can be extended together (`ThrottleSpec`,
`ProcessSpec`).

`SessionsProofs` proves about `Sessions`, for every set of ids, users and
handlers and every bound, from `SessionsAssumption` only:

- `TypeCorrect`: `Spec => []TypeOK`;
- `RefreshTokensAreSingleUse`, `HandlersCarryTheLiveToken`,
  `ReuseIsNeverALostRace`, `OneTokenOutlivesARevocation`: the invariants
  `SingleRedemption`, `CredentialsCurrent`, `ReuseIsSpent`, `LateIssueOnce`;
- `DevicesKeepTheirSessions`: the invariant `DeviceCanRefresh`;
- `RevokedTokensStayRevoked`: the action property `DeadTokensStayDead`;
- `SessionsImplementRotatingTokens`: `Spec => Tokens!Spec`.

None of these invariants is inductive. `TypeInv` adds to `TypeOK` that a handler
at a step has the arguments the step needs (`Placed`). `CoreInv` says who may
carry which token: a session id under insertion is unused and in nobody else's
hands (`Fresh`); one handler at most is issuing for a session (`OneIssuer`); it
carries the live generation, which no device holds yet, while a handler about to
rotate carries one that a device holds (`Carried`); no generation from the live
one on was redeemed and none beyond it reached a device (`Generations`); a
session with a row has no late token, and once one was written nobody is left to
write another (`LateBound`). Most actions leave what `CoreInv` speaks of alone
(`CoreFrame`, `CoreFinish`); insertion, issue, response, renewal and rotation
have a lemma each. `DeviceCanRefresh` is inductive beside `CoreInv`: the live token is
in a handler's hands from the insert or the rotation (`CanRefreshMinted`) to the
answer, no step takes a token from a device (`CanRefreshFrame`), and a handler that
stops on the way makes the session a lost one (`CanRefreshFinish`). A dead token stays
dead because rows only go away except under an id that had none, and a rotation moves
the hash above every generation there has been. The refinement maps `RotateSession` to `Redeem`,
`InsertSession` to `Open`, the three kinds of deletion to `Close` and everything
else to a stutter.

`GrantSessionsProofs` proves about `GrantSessions`, for every set of connections,
scopes and handlers, every lifetime and every bound, from
`GrantSessionsAssumption` only:

- `TypeCorrect`: `Spec => []TypeOK`;
- `RefreshTokensAreSingleUse`, `LivePairIsNeverDenied`, `SwappedPairsAreRefused`,
  `ConnectionsEnd`: the invariants `SingleRedemption`, `LivePairNotDenied`,
  `RetiredPairRefused`, `ConnectionIsMortal`;
- `RetiredTokensStayRetired`: the action property `DeadTokensStayDead`;
- `GrantSessionsImplementRotatingTokens`: `Spec => Tokens!Spec`.

`SingleRedemption` alone is not inductive: a counter that is 1 already could be
raised again. What keeps it down is that no pair from the live one on was traded
or denied (`Untouched`) and that the `WHERE` clause lets only the live pair
through. A denial may only hit a pair that was swapped, so a handler that owes
one carries a pair below the live one, and it must hold as long as the token
does, so its end is the token's `exp` (`Denials`). A connection under insertion
is new and in nobody else's hands (`Fresh`). With the three invariants they
support they make up `CoreInv`; an action that leaves what it speaks of alone is
settled by `CoreFrame` or `CoreFinish`, and starting a request, the insertion,
the rotation and the denial have a lemma each. The refinement maps
`RotateGrantSession` to `Redeem`, `InsertGrantSession` to `Open`, the expiry
sweep to `Close` and everything else to a stutter.

`OneTimeCodesProofs`, for every number of creators, checks and codes: `TypeCorrect`,
`MailedCodesExpire`, `SpentCodesAreGone`, `GuessesAreBounded`. The bound on guesses is a
count: the counter in the key covers every comparison with the stored code
(`CountsFit`), and a code that is gone can only be compared by the checks that have
read it, one each (`Readers`). Around it: only drawn codes are anywhere (`KnownCodes`),
and each creator has one of its own that nobody has read before it is stored and
nobody is mailed before it has a TTL (`OwnedCodes`).

`JobDispatchProofs`, for every set of messages and processes, any batch size and
redrive limit: `TypeCorrect`, `NoJobIsDropped`, `DuplicatesAreExplained`,
`CleanStopsAbandonNothing`. That repetitions are explained is again a count
(`RunsFit`): runs that happened, dispatches that stray without the message, and the
one run a message that is still alive is good for, never exceed one plus the slips;
the marker takes away those that have not looked for it yet.

`AuthorizeProofs`, for every set of people, clients, queries, tickets, codes and
handlers: `TypeCorrect`, `CodesAlwaysConsented`, `MistakesAlwaysNeedARace`,
`TicketsAlwaysSpentOnce`, `ImmortalTicketsAlwaysCrossed`, from `AuthorizeAssumption`
and `NullIsNoRecord` (null is not a record). The inductive invariant (`IInv`) is built
in layers, each on top of those before it: a handler has what its step needs
(`Placed`), which after the consent stage takes that nobody removes a user from a
ticket (`Deciding`); ids are drawn once (`Fresh`); a code is stored, or in the hands of
one request, or spent (`CodesOnce`), and so is a ticket that nobody crossed
(`TicketsOnce`); all who have read a ticket hold the same request (`OneRequest`), so
that what resolveGrant compared is what the code will stand for; a grant, and a handler
on its way to a code, can show an Allow for every scope (`Consented`); and as long as
nothing was crossed the user of a ticket is set once and pages name him
(`TicketsAreTheirs`). A lemma per action says what the action does to the variables
(`...Does`, `...Moves`); the layers use those and not the actions.

`AccessProofs` on `Mcp`, for every set of tools, scopes, tokens and ids and every assignment of
scopes: `TypeCorrect`, `DeadTokensAreTurnedAway`, `RefusalsSayNothing`,
`ClientsAreAnswered`. What a token was when the request came has to be carried to the
check that depends on it (`StandingIsFound`): one that was too old stays so, and one that
was rotated away is found in the denylist as long as its exp has not passed; after that,
and until the tolerance is over, it is let in, and the theorem says nothing of it.

`AccessProofs` on `LoginThrottle`, for every limit, window, clock and finite set of
logins under way: `ThrottleTypeCorrect`, `GuessesAreBounded`, `LockoutsAreEarned`.

- The types say that a counter and its end come and go together and that neither a
  counter nor a lock outlives a window.
- The bound speaks of any span of one window, and counters and locks begin and end in
  the middle of it. `BoundInv` says, of an account nobody has logged in to and of every
  instant t, how the tries since t are accounted for. If the counter was set after t,
  it has counted them, but for those about to be counted (`TriesAreCounted`). Without a
  lock they are what came before the counter, what it has counted below the limit, and
  the logins about to count or to lock (`UnlockedBound`). If a lock was set before t,
  only logins that were past it have tried since (`LockedBefore`); if it was set after
  t, the span holds what came before it and those (`LockedSince`). A span that is over
  keeps its number (`PastBound`). Each login under way counts once, as one that tries,
  has tried, or is about to lock, and one that fails on the way is in `lost`. A step
  that does not touch the counter, the lock and the tries of an account is settled by
  `QuietKeepsBound`, and the rest have a lemma each. Tries of logins that came in the
  last half second of a lock are in none of these counts, as in the property.
- A lock is earned because a counter, with what is owed to it by logins that have tried
  and not counted there, never exceeds the tries under its key (`CountsAreEarned`), so
  neither does what a login was told by INCR (`SeenIsEarned`). That two tries are two
  takes a number for each at its instant (`Numbered`).

Both inductive invariants were model-checked on instances of one and two accounts, two
and three logins and limits of two and three before they were proved.

`DeploymentProofs` on `SigningKeys`, for every number of keys and instances and every lifetime:
`TypeCorrect`, `EveryInstanceVerifies`, `CopiesVerify`. A key in use - active, signing
somewhere, or with a token out - is configured, so that whoever boots next loads it,
and is loaded everywhere; a copy of the JWKS knows it, and knows the key that may be
promoted next unless the copy ends first (`CopyKnows`).

`DeploymentProofs` on `Lifecycle`, for every set of stores, number of probes and of
connections: `StoresAlwaysOutliveRequests`. From the moment teardown begins no
connection is left (`NothingLeft`): a new one needs a server that listens, a request one
that was kept alive, and both are gone.

`SocketsProofs`, for every set of instances, sockets, sessions, users and rooms and
every bound: `TypeCorrect`, `RegistriesAlwaysAgree`, `HostedAlwaysSubscribed`,
`RevokedSocketsAlwaysExplained`. The type invariant is not inductive alone: `total` stays
in Nat because an instance counts the sockets it has, which are finitely many at any
time (`FinitelyMany`), so the number of sockets need not be bounded. That hosted users
and rooms are subscribed "once Redis has caught up" is carried by `Settled`: the
subscriptions, or a command that is still to be executed, hold the channel, and nothing
sent after that gives it up. Executing a command keeps it (`Executing`), appending one
keeps or makes it (`Appending`, `Sending`), and a reconnect makes it anew, whatever was
given up while the connection was down (`Restoring`). A socket of a revoked session is
followed from its look-up to its registration (`RevokedOnTheWay`): until then only a
message that is still due can close it, since one on its way would not find it. What it
is looked up by is known to be of its own session (`StoredInPlace`), and written after
the revocation if the session was revoked (`StoredIsLate`).

All of it rests on the named assumptions about the constants only. Model-checked and
not proved are the liveness properties, which are out of the prover's reach:
`RevocationTakesEffect`, `RetiredPairEventuallyRefused`, `MailedCodesRunOut`,
`JobsSettle`, `StopEnds`, `RevokedSocketsEnd`, `ShutdownEnds` and `FlagsSettle`.

## 6. Not modelled

- The permission cache: `grantScopes`, the only writer, has no caller. API keys:
  no route or task calls the services that write them.
- GraphQL, HTTP middlewares, routing, views, vendor wrappers, logging, configuration:
  no state of their own. The rate limiter is a library with its options.
- The e-mails that follow a change of the session store: they do not feed back into it.
- BullMQ: its queue, locks and retries are the library's; its worker shares
  `dispatchJob`, which is modelled. Its job ids, which may repeat if its Redis
  loses data while the markers survive, are noted as a hazard.
- The counter of failures per account alone, which is only logged; the drain of a slow
  socket's buffer; `roomService`, a stub that lets everybody join; the worker's health
  server, which pings nothing; `verifyRemoteJwt`, `denyGrant`,
  `deleteGrantSessionsByGrant`, which nothing calls, and with `denyGrant` the grant key
  that isAccessTokenDenied also reads, which nothing sets.
- Cryptography (HMAC, SHA-256, JWT signatures) is perfect, and one-time codes that
  happen to be drawn alike are left out. Redirects, error texts and the resource
  parameter are reduced to what decides whether a request goes on.
