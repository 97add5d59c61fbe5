------------------------------ MODULE Sessions ------------------------------
(***************************************************************************)
(* First-party device sessions of the auth module.  A session is a row in  *)
(* Postgres (infra/sessionQueries.ts) holding the hash of the one refresh  *)
(* token that may be redeemed and of the one redeemed last; next to it     *)
(* Redis holds the session's access token under at:<sid>                   *)
(* (infra/tokenStore.ts).  The services (createSession, renewSession,      *)
(* logoutUser, changePassword, resetPassword) change the two stores in     *)
(* several awaited steps: each step is an action, so the handlers of       *)
(* concurrent requests interleave at every await, on one instance or on    *)
(* several.  A handler that rejects its request at once changes nothing    *)
(* and is not an action.                                                   *)
(*                                                                         *)
(* A refresh token is <<session, generation>>, the generation counting the *)
(* session's rotations; an access token carries the generation it was      *)
(* issued with.  The HMAC is injective, so a hash column is a generation.  *)
(***************************************************************************)
EXTENDS Naturals, FiniteSets

CONSTANTS SessionIds,  \* ids generateId() can return
          Users,
          UserOf,      \* the user who signs in to obtain a session id
          Workers,     \* request handlers that may run at the same time
          None,        \* no session, no user
          MaxGen,      \* bound: generations of one session's refresh token
          MaxPwd       \* bound: versions of one user's password

ASSUME SessionsAssumption ==
    /\ MaxGen \in Nat \ {0}
    /\ MaxPwd \in Nat \ {0}
    /\ UserOf \in [SessionIds -> Users]
    /\ None \notin SessionIds \cup Users

Gens == 1..MaxGen
NoHash == 0              \* a null previousTokenHash, an absent at:<sid>
Unknown == MaxGen + 1    \* a secret this server never minted

VARIABLES
    \* Postgres
    rows,        \* ids with a row in sessions
    hash,        \* tokenHash of each row
    prev,        \* previousTokenHash of each row
    lapsed,      \* rows whose expiresAt has passed
    pwd,         \* version of users.passwordHash
    \* Redis
    at,          \* generation of the token stored at at:<sid>
    \* request handlers
    pc,          \* the await each worker stands at
    sid,         \* the session it works on
    usr,         \* the user whose password it changes
    tok,         \* the refresh token presented to it, then the one it minted
    doomed,      \* the ids deleteAllSessions returned to it
    \* clients
    held,        \* generations whose response reached the device
    \* history
    used,        \* ids that were ever inserted
    redeemed,    \* how often each refresh token was traded
    born,        \* password version each session was opened with
    late,        \* access tokens issued after the row was gone
    lost         \* sessions that had a pair minted that never arrived

sessionRows == <<rows, hash, prev, lapsed, used, redeemed>>
request     == <<sid, usr, tok, doomed>>
vars == <<sessionRows, pwd, at, pc, request, held, born, late, lost>>

Steps == {"idle", "login.insert", "login.issue",
          "renew.rotate", "renew.revoke", "renew.issue", "respond",
          "reuse.revoke", "reuse.delete", "logout.revoke", "logout.delete",
          "pwd.update", "pwd.deleteAll", "pwd.revokeAll"}

TypeOK ==
    /\ rows \subseteq used
    /\ used \subseteq SessionIds
    /\ lapsed \subseteq SessionIds
    /\ hash \in [SessionIds -> Gens]
    /\ prev \in [SessionIds -> Gens \cup {NoHash}]
    /\ pwd \in [Users -> 1..MaxPwd]
    /\ at \in [SessionIds -> Gens \cup {NoHash}]
    /\ pc \in [Workers -> Steps]
    /\ sid \in [Workers -> SessionIds \cup {None}]
    /\ usr \in [Workers -> Users \cup {None}]
    /\ tok \in [Workers -> Gens \cup {NoHash}]
    /\ doomed \in [Workers -> SUBSET SessionIds]
    /\ held \in [SessionIds -> SUBSET Gens]
    /\ redeemed \in [SessionIds -> [Gens -> Nat]]
    /\ born \in [SessionIds -> 1..MaxPwd]
    /\ late \in [SessionIds -> Nat]
    /\ lost \subseteq SessionIds

Init ==
    /\ rows = {} /\ lapsed = {} /\ used = {}
    /\ hash = [s \in SessionIds |-> 1]
    /\ prev = [s \in SessionIds |-> NoHash]
    /\ pwd = [u \in Users |-> 1]
    /\ at = [s \in SessionIds |-> NoHash]
    /\ pc = [w \in Workers |-> "idle"]
    /\ sid = [w \in Workers |-> None]
    /\ usr = [w \in Workers |-> None]
    /\ tok = [w \in Workers |-> NoHash]
    /\ doomed = [w \in Workers |-> {}]
    /\ held = [s \in SessionIds |-> {}]
    /\ redeemed = [s \in SessionIds |-> [g \in Gens |-> 0]]
    /\ born = [s \in SessionIds |-> 1]
    /\ late = [s \in SessionIds |-> 0]
    /\ lost = {}

-----------------------------------------------------------------------------
(* What the handlers are built from.                                       *)

Goto(w, step) == pc' = [pc EXCEPT ![w] = step]

\* The handler of w has answered, or will never answer.
Finish(w) ==
    /\ Goto(w, "idle")
    /\ sid' = [sid EXCEPT ![w] = None]
    /\ usr' = [usr EXCEPT ![w] = None]
    /\ tok' = [tok EXCEPT ![w] = NoHash]
    /\ doomed' = [doomed EXCEPT ![w] = {}]

\* w is about to hand out the pair that goes with the row of its session.
Issuing(w) == pc[w] \in {"login.issue", "renew.revoke", "renew.issue", "respond"}

\* verifyAccessToken accepts the access token the device holds for s.
Authenticated(s) == at[s] # NoHash /\ at[s] \in held[s]

-----------------------------------------------------------------------------
(* loginWithPassword / verifyEmail, then createSession.                    *)

\* The password is compared with the user row read here; the session id and
\* the first refresh token are minted together, before anything is stored.
Login(w, s) ==
    /\ pc[w] = "idle"
    /\ s \notin used /\ \A x \in Workers : sid[x] # s
    /\ Goto(w, "login.insert")
    /\ sid' = [sid EXCEPT ![w] = s]
    /\ tok' = [tok EXCEPT ![w] = 1]
    /\ born' = [born EXCEPT ![s] = pwd[UserOf[s]]]
    /\ UNCHANGED <<sessionRows, pwd, at, usr, doomed, held, late, lost>>

InsertSession(w) ==
    /\ pc[w] = "login.insert"
    /\ rows' = rows \cup {sid[w]}
    /\ used' = used \cup {sid[w]}
    /\ hash' = [hash EXCEPT ![sid[w]] = tok[w]]
    /\ prev' = [prev EXCEPT ![sid[w]] = NoHash]
    /\ Goto(w, "login.issue")
    /\ UNCHANGED <<lapsed, redeemed, pwd, at, request, held, born, late, lost>>

\* SET at:<sid> EX accessExpiry, whether the row is still there or not.
IssueAccessToken(w) ==
    /\ pc[w] \in {"login.issue", "renew.issue"}
    /\ at' = [at EXCEPT ![sid[w]] = tok[w]]
    /\ late' = [late EXCEPT ![sid[w]] = IF sid[w] \in rows THEN @ ELSE @ + 1]
    /\ Goto(w, "respond")
    /\ UNCHANGED <<sessionRows, pwd, request, held, born, lost>>

\* A slip: the answer to a renewal carries the access cookie only.
RespondAccessOnly(w) ==
    /\ pc[w] = "respond"
    /\ held' = [held EXCEPT ![sid[w]] = IF tok[w] = 1 THEN @ \cup {1} ELSE @]
    /\ Finish(w)
    /\ UNCHANGED <<sessionRows, pwd, at, born, late, lost>>

\* setAuthCookies: the device receives the pair.
Respond(w) ==
    /\ pc[w] = "respond"
    /\ held' = [held EXCEPT ![sid[w]] = @ \cup {tok[w]}]
    /\ Finish(w)
    /\ UNCHANGED <<sessionRows, pwd, at, born, late, lost>>

-----------------------------------------------------------------------------
(* renewSession.                                                           *)

\* A slip: every secret that is not the live one is taken for a replay.
AnyMismatch(s, t) == TRUE

\* revokeOnReuse: the mismatched secret is the one the last rotation spent.
IsReuse(s, t) == prev[s] # NoHash /\ t = prev[s]

\* findSession: the one read that says whether the presented token is the live
\* one, the one spent last, or neither (rejected, no effect).
Renew(w, s, t) ==
    /\ pc[w] = "idle"
    /\ s \in rows
    /\ \/ /\ t = hash[s] /\ hash[s] < MaxGen
          /\ Goto(w, "renew.rotate")
       \/ /\ t # hash[s] /\ IsReuse(s, t)
          /\ Goto(w, "reuse.revoke")
    /\ sid' = [sid EXCEPT ![w] = s]
    /\ tok' = [tok EXCEPT ![w] = t]
    /\ UNCHANGED <<sessionRows, pwd, at, usr, doomed, held, born, late, lost>>

\* A slip: the row is matched by id and expiry only.
ClaimsById(w) == sid[w] \in rows /\ sid[w] \notin lapsed

\* The WHERE clause of rotateSession.
Claims(w) ==
    /\ sid[w] \in rows
    /\ hash[sid[w]] = tok[w]
    /\ sid[w] \notin lapsed

\* A slip: the column keeps the hash it had.
SameToken(s) == hash[s]

\* mintRotatedRefreshToken: a secret the session never had, under the same id.
Replacement(s) == hash[s] + 1

\* The UPDATE: the live hash is demoted and the replacement installed at once.
RotateSession(w) ==
    /\ pc[w] = "renew.rotate"
    /\ Claims(w)
    /\ hash[sid[w]] < MaxGen
    /\ prev' = [prev EXCEPT ![sid[w]] = hash[sid[w]]]
    /\ hash' = [hash EXCEPT ![sid[w]] = Replacement(sid[w])]
    /\ redeemed' = [redeemed EXCEPT ![sid[w]][tok[w]] = @ + 1]
    /\ tok' = [tok EXCEPT ![w] = Replacement(sid[w])]
    /\ Goto(w, "renew.revoke")
    /\ UNCHANGED <<rows, lapsed, used, pwd, at, sid, usr, doomed, held, born, late, lost>>

\* The UPDATE matched no row: lost to another presenter, signed out, or expired.
LoseClaim(w) ==
    /\ pc[w] = "renew.rotate"
    /\ ~Claims(w)
    /\ Finish(w)
    /\ UNCHANGED <<sessionRows, pwd, at, held, born, late, lost>>

\* DEL at:<sid>, the first step of a sign-out and of reuse handling, and what
\* renewSession does between the rotation and the new access token.
RevokeAccessToken(w) ==
    /\ \/ pc[w] = "renew.revoke" /\ Goto(w, "renew.issue")
       \/ pc[w] = "reuse.revoke" /\ Goto(w, "reuse.delete")
       \/ pc[w] = "logout.revoke" /\ Goto(w, "logout.delete")
    /\ at' = [at EXCEPT ![sid[w]] = NoHash]
    /\ UNCHANGED <<sessionRows, pwd, request, held, born, late, lost>>

DeleteSession(w) ==
    /\ pc[w] \in {"reuse.delete", "logout.delete"}
    /\ rows' = rows \ {sid[w]}
    /\ lapsed' = lapsed \ {sid[w]}
    /\ Finish(w)
    /\ UNCHANGED <<hash, prev, used, redeemed, pwd, at, held, born, late, lost>>

-----------------------------------------------------------------------------
(* logoutUser, changePassword and resetPassword.                           *)

Logout(w, s) ==
    /\ pc[w] = "idle"
    /\ Authenticated(s)
    /\ Goto(w, "logout.revoke")
    /\ sid' = [sid EXCEPT ![w] = s]
    /\ UNCHANGED <<sessionRows, pwd, at, usr, tok, doomed, held, born, late, lost>>

\* The versions of u's password that handlers under way will still write.
PendingUpdates(u) == {x \in Workers : pc[x] = "pwd.update" /\ usr[x] = u}

\* The password check and the new hash come first; the bound leaves room for
\* the versions that handlers under way will write.
StartPasswordChange(w, u) ==
    /\ pc[w] = "idle"
    /\ pwd[u] + Cardinality(PendingUpdates(u)) < MaxPwd
    /\ Goto(w, "pwd.update")
    /\ usr' = [usr EXCEPT ![w] = u]
    /\ UNCHANGED <<sessionRows, pwd, at, sid, tok, doomed, held, born, late, lost>>

\* A signed-in device whose user knows the current password.
ChangePassword(w, s) == Authenticated(s) /\ StartPasswordChange(w, UserOf[s])

\* Anyone with the code that was mailed to the user.
ResetPassword(w, u) == StartPasswordChange(w, u)

UpdatePassword(w) ==
    /\ pc[w] = "pwd.update"
    /\ pwd[usr[w]] < MaxPwd
    /\ pwd' = [pwd EXCEPT ![usr[w]] = @ + 1]
    /\ Goto(w, "pwd.deleteAll")
    /\ UNCHANGED <<sessionRows, at, request, held, born, late, lost>>

DeleteAllSessions(w) ==
    /\ pc[w] = "pwd.deleteAll"
    /\ doomed' = [doomed EXCEPT ![w] = {s \in rows : UserOf[s] = usr[w]}]
    /\ rows' = rows \ doomed'[w]
    /\ lapsed' = lapsed \ doomed'[w]
    /\ Goto(w, "pwd.revokeAll")
    /\ UNCHANGED <<hash, prev, used, redeemed, pwd, at, sid, usr, tok, held, born, late, lost>>

RevokeAccessTokens(w) ==
    /\ pc[w] = "pwd.revokeAll"
    /\ at' = [s \in SessionIds |-> IF s \in doomed[w] THEN NoHash ELSE at[s]]
    /\ Finish(w)
    /\ UNCHANGED <<sessionRows, pwd, held, born, late, lost>>

-----------------------------------------------------------------------------
(* The environment: clocks, the expiry sweep, failures.                    *)

\* A slip: at:<sid> is set without EX.
NeverExpires(s) == FALSE /\ UNCHANGED vars

\* The TTL of at:<sid> runs out.
AccessTokenExpires(s) ==
    /\ at[s] # NoHash
    /\ at' = [at EXCEPT ![s] = NoHash]
    /\ UNCHANGED <<sessionRows, pwd, pc, request, held, born, late, lost>>

\* expiresAt passes: refreshExpiry (7 days) is so much longer than accessExpiry
\* (15 min) and than a handler that neither is left from the last rotation.
SessionLapses(s) ==
    /\ s \in rows \ lapsed /\ at[s] = NoHash
    /\ \A w \in Workers : Issuing(w) => sid[w] # s
    /\ lapsed' = lapsed \cup {s}
    /\ UNCHANGED <<rows, hash, prev, used, redeemed, pwd, at, pc, request, held, born, late, lost>>

PruneExpiredSessions ==
    /\ lapsed # {}
    /\ rows' = rows \ lapsed
    /\ lapsed' = {}
    /\ UNCHANGED <<hash, prev, used, redeemed, pwd, at, pc, request, held, born, late, lost>>

\* A store call throws, the process dies, or the response is lost: whatever the
\* handler had committed stays.
Fail(w) ==
    /\ pc[w] # "idle"
    /\ lost' = IF Issuing(w) THEN lost \cup {sid[w]} ELSE lost
    /\ Finish(w)
    /\ UNCHANGED <<sessionRows, pwd, at, held, born, late>>

-----------------------------------------------------------------------------
Start(w) ==
    \/ \E s \in SessionIds :
        \/ Login(w, s)
        \/ \E t \in held[s] \cup {Unknown} : Renew(w, s, t)
        \/ Logout(w, s)
        \/ ChangePassword(w, s)
    \/ \E u \in Users : ResetPassword(w, u)

\* What a handler does once it has started.
Continue(w) ==
    \/ InsertSession(w) \/ IssueAccessToken(w) \/ Respond(w)
    \/ RotateSession(w) \/ LoseClaim(w)
    \/ RevokeAccessToken(w) \/ DeleteSession(w)
    \/ UpdatePassword(w) \/ DeleteAllSessions(w) \/ RevokeAccessTokens(w)

Next ==
    \/ \E w \in Workers : Start(w) \/ Continue(w) \/ Fail(w)
    \/ \E s \in SessionIds : AccessTokenExpires(s) \/ SessionLapses(s)
    \/ PruneExpiredSessions

Spec == Init /\ [][Next]_vars

\* Every await settles, so a handler that started goes on; Redis expires keys.
Fairness ==
    /\ \A w \in Workers : WF_vars(Continue(w))
    /\ \A s \in SessionIds : WF_vars(AccessTokenExpires(s))

FairSpec == Spec /\ Fairness
-----------------------------------------------------------------------------
(* Properties.                                                             *)

\* A refresh token is traded for a new pair at most once, however many requests
\* present it at the same time (rotateSession's conditional UPDATE).
SingleRedemption == \A s \in SessionIds, g \in Gens : redeemed[s][g] <= 1

\* While its session has a row, a handler on its way to answering carries the
\* token that row would accept, and nobody else carries it: two renewals never
\* race to SET at:<sid>, so a device never gets a pair that is already spent.
CredentialsCurrent ==
    \A w \in Workers :
        Issuing(w) /\ sid[w] \in rows =>
            /\ tok[w] = hash[sid[w]]
            /\ tok[w] \notin held[sid[w]]
            /\ \A x \in Workers \ {w} : Issuing(x) => sid[x] # sid[w]

\* Sessions are only torn down as "reuse" over a token that really was traded,
\* not over a lost race, an expiry or a secret nobody minted (revokeOnReuse).
ReuseIsSpent ==
    \A w \in Workers :
        pc[w] \in {"reuse.revoke", "reuse.delete"} =>
            /\ tok[w] \in Gens
            /\ redeemed[sid[w]][tok[w]] > 0

\* Once a session's row is gone at most one more access token is written for
\* its id, however the renewals and revocations around it interleave.
LateIssueOnce == \A s \in SessionIds : late[s] <= 1

\* A device whose session row is live always holds, or is about to be sent, the
\* refresh token the row accepts, unless a handler failed between the insert or
\* the rotation and the arrival of its answer.
DeviceCanRefresh ==
    \A s \in rows \ lost :
        \/ hash[s] \in held[s]
        \/ \E w \in Workers : Issuing(w) /\ sid[w] = s /\ tok[w] = hash[s]

\* A refresh token that has been handed out and would not be accepted now - because
\* it was traded, or its session was revoked or swept - is never accepted again,
\* whatever login, renewal or password change was under way at the time.
Redeemable(s, g) == s \in rows /\ hash[s] = g

DeadTokensStayDead ==
    [][\A s \in used : \A g \in 1..hash[s] : ~Redeemable(s, g) => ~Redeemable(s, g)']_vars

\* A session that lost its row is eventually without an access token for good:
\* a renewal under way when it was revoked may still write one, the TTL ends it.
RevocationTakesEffect ==
    \A s \in SessionIds : (s \in used /\ s \notin rows) ~> [](at[s] = NoHash)

\* The session table is a store of rotating tokens: the row's hash is the only
\* valid one, a rotation is one atomic trade and deleting rows closes families.
Tokens == INSTANCE RotatingTokens WITH
    Families <- SessionIds,
    Secrets <- Gens,
    opened <- used,
    valid <- {<<s, hash[s]>> : s \in rows},
    spent <- {t \in SessionIds \X Gens : redeemed[t[1]][t[2]] > 0}

ImplementsRotatingTokens == Tokens!Spec

\* What changePassword.ts:48-49 says ("every session is now invalid"), and the code
\* does not do when a renewal is under way: once a
\* session opened under an older password has lost its row and nobody works on
\* it, no access token that a renewal wrote is left under its id (generation 1
\* is the one a login writes).
NoOrphanToken ==
    \A s \in used \ rows :
        /\ born[s] < pwd[UserOf[s]]
        /\ \A w \in Workers : sid[w] # s /\ usr[w] # UserOf[s]
        => at[s] <= 1

\* What resetPassword.ts:22-24 says of a reset that succeeds ("kill every session"), and
\* the code does not do when a login is under way: when the handler that replaced
\* the user's first password has deleted the sessions and their tokens and comes
\* to its end, no session that was opened with that password has a row.
OldSessionsKilled ==
    [][\A w \in Workers :
         RevokeAccessTokens(w) /\ pwd[usr[w]] = 2 =>
            \A s \in rows' : UserOf[s] = usr[w] => born[s] = 2]_vars
=============================================================================
