----------------------------- MODULE Authorize -----------------------------
(***************************************************************************)
(* The authorization flow of modules/oauth, from registering a client to   *)
(* redeeming a code: getAuthorize, postAuthorize and the first half of     *)
(* postToken (apis/handlers.ts), with the tickets and the codes they keep  *)
(* in Redis (infra/oauthTokenStore.ts).  Handlers are workers, and a step  *)
(* is what happens between two awaits.  One browser is modelled; several   *)
(* people may sign in with it, in as many tabs as there are workers.  The  *)
(* connection a code opens is where GrantSessions takes over.              *)
(***************************************************************************)
EXTENDS Naturals, FiniteSets

CONSTANTS Users,      \* people who sign in with this browser
          Clients,    \* ids of registered clients
          Metadata,   \* what a client may present to postRegister
          Requests,   \* queries a client may send the browser to getAuthorize with
          Scopes,     \* shared/constants/scopes.ts
          Tickets,    \* ids of pending requests
          Codes,      \* authorization codes
          Workers,    \* handlers that may be running at a time
          None        \* null, undefined: no session, no record, a missing parameter

\* A parsed redirect URI is [scheme, loopback, fragment].
Schemes == {"https", "http", "blocked", "custom"}

ASSUME AuthorizeAssumption ==
    /\ None \notin Users \cup Clients \cup Tickets \cup Codes \cup {"allow", "deny"}
    /\ \A m \in Metadata :
        /\ \A uri \in m.uris : uri.scheme \in Schemes /\ {uri.loopback, uri.fragment} \subseteq BOOLEAN
        /\ m.auth \in {"none", "other"}
        /\ m.scope # None
    /\ \A r \in Requests :
        /\ r.client \in Clients
        /\ r.type \in {"code", "other"} /\ r.method \in {"S256", "plain"}
        /\ r.resource \in {None, "mcp", "other"}

VARIABLES
    registered, \* oauth_clients: the metadata of each client, None before postRegister
    grants,     \* oauth_grants: the scopes each user has granted each client
    pending,    \* Redis oauthPending:<ticket>: [client, uri, scopes, user], or None
    volatile,   \* tickets whose key has a TTL
    codes,      \* Redis oauthCode:<code>: [client, uri, scopes, user], or None
    \* handlers
    pc,         \* the step each is to take next
    key,        \* the ticket or the code it works on, or None
    form,       \* what else was posted: [shown, user, decision]
    caller,     \* the user of the session cookie the request came with
    request,    \* the validated request, the record consumed, or the code's
    signed,     \* the user loginWithPassword signed in, whose cookies the answer sets
    \* the browser
    cookie,     \* the user its session cookies belong to
    pages,      \* forms it shows: [ticket, user]
    \* history
    unused,     \* tickets and codes that were not drawn yet
    granted,    \* codes that were issued: [code, ticket, user, client, scopes]
    opened,     \* how many connections each code opened
    approved,   \* <<user, client, scope>> of a consent page whose Allow was accepted
    mistaken,   \* the same, granted by a form that showed somebody else
    crossed     \* tickets updated after they changed under the updating handler

redis   == <<pending, volatile, codes>>
tables  == <<registered, grants>>
locals  == <<key, form, caller, request, signed>>
browser == <<cookie, pages>>
history == <<unused, granted, opened, approved, mistaken, crossed>>
vars == <<tables, redis, pc, locals, browser, history>>

Steps == {"idle", "get.resolve", "get.create", "page", "post.read", "post.login",
          "post.resolve", "post.consume", "update.read", "update.set",
          "post.consent", "complete.upsert", "complete.issue", "token.insert"}

Uris == (UNION {m.uris : m \in Metadata}) \cup {r.uri : r \in Requests}
Pending == [client : Clients, uri : Uris, scopes : SUBSET Scopes, user : Users \cup {None}]
ASSUME NullIsNoRecord == None \notin Pending

\* The page of user None is the sign-in page, the others ask for consent.
Pages   == [ticket : Tickets, user : Users \cup {None}]
Decisions == {"allow", "deny", None}
Forms   == [shown : Users \cup {None}, user : Users \cup {None}, decision : Decisions]
Empty   == [shown |-> None, user |-> None, decision |-> None]
Approvals == Users \X Clients \X Scopes

TypeOK ==
    /\ registered \in [Clients -> Metadata \cup {None}]
    /\ grants \in [Users -> [Clients -> SUBSET Scopes]]
    /\ pending \in [Tickets -> Pending \cup {None}] /\ volatile \subseteq Tickets
    /\ codes \in [Codes -> Pending \cup {None}]
    /\ pc \in [Workers -> Steps]
    /\ key \in [Workers -> Tickets \cup Codes \cup {None}]
    /\ form \in [Workers -> Forms]
    /\ caller \in [Workers -> Users \cup {None}]
    /\ request \in [Workers -> Pending \cup {None}]
    /\ signed \in [Workers -> Users \cup {None}]
    /\ cookie \in Users \cup {None} /\ pages \subseteq Pages
    /\ unused \subseteq Tickets \cup Codes /\ crossed \subseteq Tickets
    /\ granted \subseteq [code : Codes, ticket : Tickets \cup {None}, user : Users,
                       client : Clients, scopes : SUBSET Scopes]
    /\ opened \in [Codes -> Nat]
    /\ approved \subseteq Approvals /\ mistaken \subseteq Approvals

Init ==
    /\ registered = [c \in Clients |-> None]
    /\ grants = [u \in Users |-> [c \in Clients |-> {}]]
    /\ pending = [t \in Tickets |-> None] /\ volatile = {}
    /\ codes = [c \in Codes |-> None]
    /\ pc = [w \in Workers |-> "idle"]
    /\ key = [w \in Workers |-> None] /\ form = [w \in Workers |-> Empty]
    /\ caller = [w \in Workers |-> None] /\ request = [w \in Workers |-> None]
    /\ signed = [w \in Workers |-> None]
    /\ cookie = None /\ pages = {}
    /\ unused = Tickets \cup Codes /\ granted = {} /\ opened = [c \in Codes |-> 0]
    /\ approved = {} /\ mistaken = {} /\ crossed = {}

-----------------------------------------------------------------------------
Goto(w, step) == pc' = [pc EXCEPT ![w] = step]
Hold(w, r)    == request' = [request EXCEPT ![w] = r]

\* The handler's locals are gone.
Done(w) ==
    /\ Goto(w, "idle")
    /\ key' = [key EXCEPT ![w] = None] /\ form' = [form EXCEPT ![w] = Empty]
    /\ caller' = [caller EXCEPT ![w] = None] /\ Hold(w, None)
    /\ signed' = [signed EXCEPT ![w] = None]

\* The answer reaches the browser, with the cookies set while it was made.
Answer(w) ==
    /\ Done(w)
    /\ cookie' = IF signed[w] = None THEN cookie ELSE signed[w]

-----------------------------------------------------------------------------
(* postRegister.                                                           *)

\* isAllowedRedirectUri, of a URL that parses.
IsAllowedRedirectUri(uri) ==
    /\ ~uri.fragment
    /\ uri.scheme # "blocked"
    /\ uri.scheme = "http" => uri.loopback

RegisterClient(c, m) ==
    /\ registered[c] = None
    /\ \A uri \in m.uris : IsAllowedRedirectUri(uri)
    /\ m.auth = "none"
    /\ registered' = [registered EXCEPT ![c] = m]
    /\ UNCHANGED <<grants, redis, pc, locals, browser, history>>

-----------------------------------------------------------------------------
(* getAuthorize.                                                           *)

\* What must hold before a browser is sent anywhere but to a page of ours.
CallbackIsRegistered(r) ==
    /\ registered[r.client] # None
    /\ r.uri \in registered[r.client].uris

WellFormed(r) == r.type = "code" /\ r.method = "S256"

\* resolveResource: there is one, and it may be left out.
IsOurResource(r) == r.resource \in {None, "mcp"}

\* resolveRequestedScopes: what was registered is the default and the ceiling.
RequestedScopes(r) ==
    IF r.scope = None THEN registered[r.client].scope ELSE r.scope

\* A slip: what is asked for is taken for what there is.
AnyScopes(r) == RequestedScopes(r) # {}

ScopesAreValid(r) ==
    /\ RequestedScopes(r) # {}
    /\ RequestedScopes(r) \subseteq registered[r.client].scope \cap Scopes

\* validateAuthorizeRequest and resolveSession.  A request that fails a check is
\* answered and forgotten.  A session whose token has run out or was deleted is none.
GetAuthorize(w, r, session) ==
    /\ pc[w] = "idle"
    /\ CallbackIsRegistered(r) /\ WellFormed(r) /\ IsOurResource(r) /\ ScopesAreValid(r)
    /\ Hold(w, [client |-> r.client, uri |-> r.uri, scopes |-> RequestedScopes(r),
                user |-> session])
    /\ Goto(w, IF session = None THEN "get.create" ELSE "get.resolve")
    /\ UNCHANGED <<tables, redis, key, form, caller, signed, browser, history>>

\* A slip: some scope was granted before, so the user knows the client.
NoneGranted(w) ==
    request[w].scopes \cap grants[request[w].user][request[w].client] = {}

\* resolveGrant.
NeedsConsent(w) ==
    ~ request[w].scopes \subseteq grants[request[w].user][request[w].client]

ResolveGrant(w) ==
    /\ \/ /\ pc[w] = "get.resolve"
          /\ Goto(w, IF NeedsConsent(w) THEN "get.create" ELSE "complete.upsert")
       \/ /\ pc[w] = "post.resolve"
          /\ Goto(w, IF NeedsConsent(w) THEN "update.read" ELSE "post.consume")
    /\ UNCHANGED <<tables, redis, locals, browser, history>>

CreatePending(w, t) ==
    /\ pc[w] = "get.create"
    /\ t \in unused
    /\ pending' = [pending EXCEPT ![t] = request[w]]
    /\ volatile' = volatile \cup {t}
    /\ key' = [key EXCEPT ![w] = t]
    /\ unused' = unused \ {t}
    /\ Goto(w, "page")
    /\ UNCHANGED <<tables, codes, form, caller, request, signed, browser, granted, opened,
                   approved, mistaken, crossed>>

\* sendLoginPage, or sendConsentPage with the e-mail of the session's user.
SendPage(w) ==
    /\ pc[w] = "page"
    /\ pages' = pages \cup {[ticket |-> key[w], user |-> request[w].user]}
    /\ Answer(w)
    /\ UNCHANGED <<tables, redis, history>>

-----------------------------------------------------------------------------
(* postAuthorize.                                                          *)

\* A form is submitted; a page may be submitted again.
PostAuthorize(w, page, user, decision, session) ==
    /\ pc[w] = "idle"
    /\ page \in pages
    /\ IF page.user = None THEN user # None /\ decision = None
                           ELSE user = None /\ decision # None
    /\ key' = [key EXCEPT ![w] = page.ticket]
    /\ form' = [form EXCEPT ![w] = [shown |-> page.user, user |-> user, decision |-> decision]]
    /\ caller' = [caller EXCEPT ![w] = session]
    /\ Goto(w, "post.read")
    /\ UNCHANGED <<tables, redis, request, signed, browser, history>>

\* Without a pending request the answer is a page that says so.
ReadPending(w) ==
    /\ pc[w] = "post.read"
    /\ UNCHANGED <<tables, redis, browser, history>>
    /\ IF pending[key[w]] = None
         THEN Done(w)
         ELSE /\ Hold(w, pending[key[w]])
              /\ Goto(w, IF pending[key[w]].user = None THEN "post.login" ELSE "post.consent")
              /\ UNCHANGED <<key, form, caller, signed>>

\* loginWithPassword and verifySessionToken.  If either fails the login page, or
\* a message, is shown: Fail.
SignIn(w) ==
    /\ pc[w] = "post.login"
    /\ form[w].user # None
    /\ signed' = [signed EXCEPT ![w] = form[w].user]
    /\ Hold(w, [request[w] EXCEPT !.user = form[w].user])
    /\ Goto(w, "post.resolve")
    /\ UNCHANGED <<tables, redis, key, form, caller, browser, history>>

\* A slip: GET, and the key is left to its TTL.
PeekPending(w) == UNCHANGED <<pending, volatile>>

\* GETDEL.
TakePending(w) ==
    /\ pending' = [pending EXCEPT ![key[w]] = None]
    /\ volatile' = volatile \ {key[w]}

\* The sign-in needed no consent: the request is completed for its user.
ConsumePending(w) ==
    /\ pc[w] = "post.consume"
    /\ TakePending(w)
    /\ UNCHANGED <<tables, codes, pages, history>>
    /\ IF pending[key[w]] = None
         THEN Answer(w)
         ELSE /\ Hold(w, [pending[key[w]] EXCEPT !.user = signed[w]])
              /\ Goto(w, "complete.upsert")
              /\ UNCHANGED <<key, form, caller, signed, cookie>>

\* The consent stage: whoever posts to a ticket with a session is deciding.
Decide(w) ==
    /\ pc[w] = "post.consent"
    /\ TakePending(w)
    /\ UNCHANGED <<tables, codes, browser, unused, granted, opened, mistaken, crossed>>
    /\ LET consumed == pending[key[w]]
           mismatch == caller[w] \notin {None, consumed.user}
       IN  CASE consumed = None \/ mismatch -> Done(w) /\ UNCHANGED approved
             [] form[w].decision # "allow"  -> Done(w) /\ UNCHANGED approved \* access_denied
             [] OTHER -> /\ Hold(w, consumed)
                         /\ approved' = approved \cup ({form[w].shown} \X {consumed.client} \X consumed.scopes)
                         /\ Goto(w, "complete.upsert")
                         /\ UNCHANGED <<key, form, caller, signed>>

-----------------------------------------------------------------------------
(* updatePendingAuthorizationRequest: the ticket learns who signed in.     *)

UpdateRead(w) ==
    /\ pc[w] = "update.read"
    /\ Goto(w, IF pending[key[w]] = None THEN "page" ELSE "update.set")
    /\ UNCHANGED <<tables, redis, locals, browser, history>>

\* The key is no longer what the handler read when it began.
Changed(w) == pending[key[w]] # [request[w] EXCEPT !.user = None]

\* A slip: SET without KEEPTTL.
DroppingTtl(w) == volatile \ {key[w]}

\* SET KEEPTTL keeps the TTL of a key that exists, and gives none to one that does not.
KeepTtl(w) == IF pending[key[w]] = None THEN volatile \ {key[w]} ELSE volatile

\* A slip: a session the form came with is kept.
FirstSession(w) ==
    IF caller[w] = None THEN request[w] ELSE [request[w] EXCEPT !.user = caller[w]]

\* { ...pending }, with the session of the sign-in.
Updated(w) == request[w]

UpdateSet(w) ==
    /\ pc[w] = "update.set"
    /\ pending' = [pending EXCEPT ![key[w]] = Updated(w)]
    /\ volatile' = KeepTtl(w)
    /\ crossed' = IF Changed(w) THEN crossed \cup {key[w]} ELSE crossed
    /\ Goto(w, "page")
    /\ UNCHANGED <<tables, codes, locals, browser, unused, granted, opened, approved,
                   mistaken>>

-----------------------------------------------------------------------------
(* completeAuthorization.                                                  *)

\* ON CONFLICT DO UPDATE with the union.
UpsertGrant(w) ==
    /\ pc[w] = "complete.upsert"
    /\ LET r == request[w] IN
        /\ grants' = [grants EXCEPT ![r.user][r.client] = @ \cup r.scopes]
        /\ mistaken' = IF form[w].shown \notin {None, r.user}
                         THEN mistaken \cup ({r.user} \X {r.client} \X r.scopes)
                         ELSE mistaken
    /\ Goto(w, "complete.issue")
    /\ UNCHANGED <<registered, redis, locals, browser, unused, granted, opened, approved,
                   crossed>>

\* The code is stored and the browser sent to the client with it.
IssueCode(w, c) ==
    /\ pc[w] = "complete.issue"
    /\ c \in unused
    /\ codes' = [codes EXCEPT ![c] = request[w]]
    /\ unused' = unused \ {c}
    /\ granted' = granted \cup {[code |-> c, ticket |-> key[w], user |-> request[w].user,
                                 client |-> request[w].client, scopes |-> request[w].scopes]}
    /\ Answer(w)
    /\ UNCHANGED <<tables, pending, volatile, pages, opened, approved, mistaken, crossed>>

-----------------------------------------------------------------------------
(* postToken with a code: exchangeCode.                                    *)

\* A slip: the code is deleted once the connection is stored.
KeepCode(c) == UNCHANGED codes

\* GETDEL.
TakeCode(c) == codes' = [codes EXCEPT ![c] = None]

\* The code is gone whether or not client, callback, resource and verifier match.
ExchangeCode(w, c, bound) ==
    /\ pc[w] = "idle"
    /\ codes[c] # None
    /\ TakeCode(c)
    /\ UNCHANGED <<tables, pending, volatile, form, caller, signed, browser, history>>
    /\ IF bound
         THEN /\ Hold(w, codes[c])
              /\ key' = [key EXCEPT ![w] = c]
              /\ Goto(w, "token.insert")
         ELSE UNCHANGED <<pc, key, request>>

\* issueGrantSession; the usage columns are touched without waiting.
OpenConnection(w) ==
    /\ pc[w] = "token.insert"
    /\ opened' = [opened EXCEPT ![key[w]] = @ + 1]
    /\ Done(w)
    /\ UNCHANGED <<tables, redis, browser, unused, granted, approved, mistaken, crossed>>

-----------------------------------------------------------------------------
\* An await throws, and the error page carries the cookies set before it, or the
\* answer is lost with the process.
Fail(w) ==
    /\ pc[w] # "idle"
    /\ Answer(w) \/ (Done(w) /\ UNCHANGED cookie)
    /\ UNCHANGED <<tables, redis, pages, history>>

\* pendingAuthTtlSec passes.
TicketExpires(t) ==
    /\ pending[t] # None /\ t \in volatile
    /\ pending' = [pending EXCEPT ![t] = None]
    /\ volatile' = volatile \ {t}
    /\ UNCHANGED <<tables, codes, pc, locals, browser, history>>

\* authCodeTtlSec passes.
CodeExpires(c) ==
    /\ codes[c] # None
    /\ codes' = [codes EXCEPT ![c] = None]
    /\ UNCHANGED <<tables, pending, volatile, pc, locals, browser, history>>

Get(w) ==
    \/ \E r \in Requests, s \in {cookie, None} : GetAuthorize(w, r, s)
    \/ ResolveGrant(w) \/ SendPage(w)
    \/ \E t \in Tickets : CreatePending(w, t)

Post(w) ==
    \/ \E page \in pages, u \in Users \cup {None}, d \in Decisions,
          s \in {cookie, None} : PostAuthorize(w, page, u, d, s)
    \/ ReadPending(w) \/ SignIn(w) \/ ConsumePending(w) \/ Decide(w)
    \/ UpdateRead(w) \/ UpdateSet(w)

Complete(w) ==
    \/ UpsertGrant(w) \/ OpenConnection(w)
    \/ \E c \in Codes : IssueCode(w, c) \/ \E bound \in BOOLEAN : ExchangeCode(w, c, bound)

Next ==
    \/ \E c \in Clients, m \in Metadata : RegisterClient(c, m)
    \/ \E w \in Workers : Get(w) \/ Post(w) \/ Complete(w) \/ Fail(w)
    \/ \E t \in Tickets : TicketExpires(t)
    \/ \E c \in Codes : CodeExpires(c)

Spec == Init /\ [][Next]_vars

-----------------------------------------------------------------------------
(* What the properties rest on.                                            *)

\* Steps of a handler that works on a ticket, and those among them at which it
\* holds the request it read there.
TicketSteps == {"page", "post.read", "post.login", "post.resolve", "post.consume",
                "post.consent", "update.read", "update.set"}
Reading     == {"post.login", "post.resolve", "post.consume", "update.read", "update.set"}
Completing  == {"complete.upsert", "complete.issue"}

\* A handler has the arguments its step needs, and a form that shows nobody
\* decides nothing.
Equipped(w) ==
    /\ pc[w] \in TicketSteps => key[w] \in Tickets
    /\ pc[w] \in Completing => key[w] \in Tickets \cup {None}
    /\ pc[w] \in {"idle", "get.resolve", "get.create"} => key[w] = None
    /\ pc[w] = "token.insert" => key[w] \in Codes
    /\ pc[w] \notin {"idle", "post.read"} => request[w] \in Pending
    /\ pc[w] \in {"get.resolve", "post.resolve", "post.consume", "update.read", "update.set"}
            \cup Completing => request[w].user \in Users
    /\ pc[w] \in {"post.resolve", "post.consume"} => signed[w] = request[w].user
    /\ pc[w] \in {"idle", "get.resolve", "get.create", "post.resolve", "post.consume",
                 "update.read", "update.set"} => form[w].shown = None
    /\ form[w].shown = None => form[w].decision # "allow"
    /\ form[w].shown # None => form[w].user = None

Placed == \A w \in Workers : Equipped(w)

\* Who decides on a ticket finds it signed in, or gone.
Deciding ==
    \A w \in Workers : pc[w] = "post.consent" =>
        pending[key[w]] = None \/ pending[key[w]].user # None

\* A ticket or a code that was not drawn is nowhere.
Fresh ==
    /\ \A w \in Workers : key[w] \notin unused
    /\ \A p \in pages : p.ticket \notin unused
    /\ \A g \in granted : g.ticket \notin unused /\ g.code \notin unused
    /\ \A t \in Tickets : pending[t] # None => t \notin unused
    /\ \A c \in Codes : codes[c] # None \/ opened[c] # 0 => c \notin unused

\* A code is stored, or in the hands of one request, or spent.
Redeeming(w, c) == pc[w] = "token.insert" /\ key[w] = c

CodesOnce ==
    \A c \in Codes :
        /\ opened[c] <= 1
        /\ codes[c] # None => opened[c] = 0
        /\ \A w \in Workers : Redeeming(w, c) =>
            /\ codes[c] = None /\ opened[c] = 0
            /\ \A v \in Workers : Redeeming(v, c) => v = w

\* So is a ticket nobody crossed: pending, being completed, or traded for a code.
Spending(w, t) == pc[w] \in Completing /\ key[w] = t

TicketsOnce ==
    \A t \in Tickets \ crossed :
        /\ \A g \in granted : g.ticket = t =>
            /\ pending[t] = None
            /\ \A h \in granted : h.ticket = t => h = g
        /\ \A w \in Workers : Spending(w, t) =>
            /\ pending[t] = None
            /\ \A g \in granted : g.ticket # t
            /\ \A v \in Workers : Spending(v, t) => v = w

\* What a ticket asks for never changes, whoever has read it.
SameRequest(r, q) == r.client = q.client /\ r.scopes = q.scopes

OneRequest ==
    \A w \in Workers : pc[w] \in Reading =>
        /\ pending[key[w]] # None => SameRequest(request[w], pending[key[w]])
        /\ \A v \in Workers : pc[v] \in Reading /\ key[v] = key[w] => SameRequest(request[w], request[v])

\* What a grant, or a handler on its way to a code, has to show for itself.
Allowed(u, c, s) == <<u, c, s>> \in approved \cup mistaken

Backed(w) ==
    LET r == request[w] IN
    /\ pc[w] = "post.consume" \/ (pc[w] = "complete.upsert" /\ form[w].shown = None) =>
            r.scopes \subseteq grants[r.user][r.client]
    /\ pc[w] = "complete.upsert" /\ form[w].shown = r.user =>
            \A s \in r.scopes : Allowed(r.user, r.client, s)
    /\ pc[w] = "complete.issue" => \A s \in r.scopes : Allowed(r.user, r.client, s)

Consented ==
    /\ \A u \in Users, c \in Clients : \A s \in grants[u][c] : Allowed(u, c, s)
    /\ \A w \in Workers : Backed(w)

\* A page that named somebody is about a ticket that is his, or gone.
Names(t, u) == u # None => pending[t] = None \/ pending[t].user = u

TicketsAreTheirs ==
    crossed = {} =>
        /\ mistaken = {}
        /\ \A p \in pages : Names(p.ticket, p.user)
        /\ \A w \in Workers :
            /\ pc[w] = "page" => Names(key[w], request[w].user)
            /\ pc[w] \in {"post.read", "post.login", "post.consent"} => Names(key[w], form[w].shown)
            /\ pc[w] = "complete.upsert" => form[w].shown \in {None, request[w].user}

-----------------------------------------------------------------------------
(* Properties.                                                             *)

\* Whether a code was issued at once, after a sign-in or on a consent page, and
\* however old the grant that was read before it: its user pressed Allow for
\* every scope it stands for, on a page that named the client (resolveGrant,
\* completeAuthorization), or somebody did on a ticket of his.
CodesAreConsented ==
    \A g \in granted : \A s \in g.scopes :
        <<g.user, g.client, s>> \in approved \cup mistaken

\* Only two sign-ins that race on one ticket can attach a client to an account
\* other than the one the consent page showed (handlers.ts:426-439).
MistakesNeedARace == mistaken # {} => crossed # {}

\* A ticket that no updatePending crossed gives one code, however often its
\* pages are submitted and whatever else goes on with it; and a code opens one
\* connection at most, however many requests present it.
TicketsAreSpentOnce ==
    /\ \A g, h \in granted :
            g.ticket = h.ticket /\ g # h => g.ticket \in crossed \cup {None}
    /\ \A c \in Codes : opened[c] <= 1

\* A ticket outlives pendingAuthTtlSec only if updatePending's SET brought it
\* back after it had been consumed, or had expired, since its GET.
ImmortalTicketsAreCrossed ==
    \A t \in Tickets : pending[t] # None /\ t \notin volatile => t \in crossed

IInv ==
    /\ TypeOK /\ Placed /\ Deciding /\ Fresh /\ ImmortalTicketsAreCrossed
    /\ CodesOnce /\ TicketsOnce
    /\ OneRequest /\ Consented /\ CodesAreConsented /\ TicketsAreTheirs
=============================================================================
