-------------------------------- MODULE Mcp --------------------------------
(***************************************************************************)
(* The MCP endpoint (src/mcp): a request is authenticated with a grant's   *)
(* access token (authenticate.ts), parsed and dispatched (server.ts,       *)
(* jsonrpc.ts), and a tool checks scope and arguments before it runs       *)
(* (defineTool.ts).  The endpoint keeps nothing between requests, so one   *)
(* request at a time is enough: between its awaits, tokens lapse, are      *)
(* rotated away and the account is deleted.                                *)
(*                                                                         *)
(* A token is fresh until its exp, lapsed for the clock tolerance after    *)
(* it, and then over; the denylist entry of a rotated one goes with its    *)
(* exp (GrantSessions has the clock).                                      *)
(***************************************************************************)
EXTENDS FiniteSets

CONSTANTS Tools, Scopes,
          ToolScope,       \* the scope of each tool
          Tokens,          \* access tokens signed for this resource
          Granted,         \* the scopes in each
          Foreign,         \* a bearer token that is none of them
          NoToken,         \* no Authorization header
          Ids, None

ASSUME McpAssumption ==
    /\ ToolScope \in [Tools -> Scopes]
    /\ Granted \in [Tokens -> SUBSET Scopes]
    /\ Foreign \notin Tokens /\ NoToken \notin Tokens \cup {Foreign}
    /\ None \notin Ids /\ {"none", "bad"} \cap Ids = {}
    /\ {"unknown", "missing"} \cap Tools = {}

VARIABLES
    life,       \* of each token: fresh, lapsed, over
    retired,    \* tokens denyAccessToken was called for
    account,    \* the user of the tokens exists
    \* the request
    pc,
    token,
    came,       \* history: what its token was when it came
    body,       \* the message, once it is looked at
    answer      \* the response

vars == <<life, retired, account, pc, token, came, body, answer>>

-----------------------------------------------------------------------------
(* Messages and responses.                                                 *)

Methods == {"initialize", "ping", "tools/list", "tools/call", "no such method"}

\* An id that is absent, and one that is neither a string nor a number.
NoId  == "none"
BadId == "bad"
IdKinds == Ids \cup {NoId, BadId}

NoCall == [name |-> "missing", args |-> "good"]
Calls  == [name : Tools \cup {"unknown"}, args : {"good", "bad"}] \cup {NoCall}

NoMessage == [shape |-> "other", jsonrpc |-> FALSE, method |-> "missing", id |-> NoId,
              call |-> NoCall]
Batch     == [NoMessage EXCEPT !.shape = "array"]

Bodies == {Batch, NoMessage} \cup
    {b \in [shape : {"object"}, jsonrpc : BOOLEAN, method : Methods \cup {"missing"},
            id : IdKinds, call : Calls] : b.method # "tools/call" => b.call = NoCall}

\* A response: HTTP status, WWW-Authenticate, JSON-RPC id and what it says.
Response(status, challenge, id, says) ==
    [status |-> status, challenge |-> challenge, id |-> id, says |-> says]

NoResponse == Response("none", "none", None, "nothing")

Statuses   == {"none", "200", "202", "400", "401", "403", "405", "500"}
Challenges == {"none", "plain", "invalid_token"}
Says == {"nothing", "initialized", "pong", "tools", "text", "forbidden", "tool error",
         "unauthorized", "internal error", "invalid request", "unsupported version",
         "invalid params", "invalid arguments", "unknown tool", "unknown method"}

TypeOK ==
    /\ life \in [Tokens -> {"fresh", "lapsed", "over"}]
    /\ retired \subseteq Tokens
    /\ account \in BOOLEAN /\ came \in {"live", "rotated", "over"}
    /\ pc \in {"idle", "verify", "lookup", "handler"}
    /\ token \in Tokens \cup {Foreign, NoToken}
    /\ body \in Bodies
    /\ answer \in [status : Statuses, challenge : Challenges, id : Ids \cup {None}, says : Says]
    /\ pc # "idle" => answer = NoResponse
    /\ pc \in {"lookup", "handler"} => token \in Tokens
    /\ pc = "handler" => body.call.name \in Tools

Init ==
    /\ life = [t \in Tokens |-> "fresh"] /\ retired = {} /\ account = TRUE
    /\ pc = "idle" /\ token = NoToken /\ came = "live"
    /\ body = NoMessage /\ answer = NoResponse

Reply(r) == pc' = "idle" /\ answer' = r

-----------------------------------------------------------------------------
(* authenticateMcp.                                                        *)

\* An entry of the denylist ends with the exp of its token.
Denied(t) == t \in retired /\ life[t] = "fresh"

\* A token that may be used, one that was rotated away, one too old for any verifier.
Standing(t) ==
    IF t \in Tokens /\ life[t] = "over" THEN "over"
    ELSE IF t \in retired THEN "rotated" ELSE "live"

Arrive(t) ==
    /\ pc = "idle"
    /\ pc' = "verify" /\ token' = t /\ came' = Standing(t)
    /\ body' = NoMessage /\ answer' = NoResponse
    /\ UNCHANGED <<life, retired, account>>

challenge(rejected) == IF rejected THEN "invalid_token" ELSE "plain"

Unauthorized == Reply(Response("401", challenge(token # NoToken), None, "unauthorized"))

\* verifyGrantAccessToken: signature, issuer, audience, type, exp and claims.
Verify ==
    /\ pc = "verify"
    /\ IF token \in Tokens /\ life[token] # "over"
         THEN pc' = "lookup" /\ UNCHANGED answer
         ELSE Unauthorized
    /\ UNCHANGED <<life, retired, account, token, came, body>>

\* A slip: Redis cannot answer, and the token is let through.
Through(ok) == ~ok \/ ~Denied(token)

\* isAccessTokenDenied says no.
Accepted(ok) == ok /\ ~Denied(token)

\* It says yes, or fails: the error goes on without a challenge.
TurnAway(ok) ==
    /\ pc = "lookup" /\ ~Accepted(ok)
    /\ IF ok THEN Unauthorized ELSE Reply(Response("500", "none", None, "internal error"))
    /\ UNCHANGED <<life, retired, account, token, came, body>>

-----------------------------------------------------------------------------
(* createMcpMiddleware.                                                    *)

Failure(status, id, says) == Response(status, "none", id, says)
Success(id, says)         == Response("200", "none", id, says)

Origins  == {"absent", "allowed", "foreign"}
Versions == {"absent", "supported", "unsupported", "repeated"}

\* A header that is absent is our own version, one that is repeated is none.
isSupportedVersion(version) == version \in {"absent", "supported"}

\* Origin, method and version, in this order, before the body is looked at.
RefuseHeaders(ok, origin, post, version) ==
    /\ pc = "lookup" /\ Accepted(ok)
    /\ \/ origin = "foreign" /\ Reply(Failure("403", None, "nothing"))
       \/ origin # "foreign" /\ ~post /\ Reply(Failure("405", None, "nothing"))
       \/ /\ origin # "foreign" /\ post /\ ~isSupportedVersion(version)
          /\ Reply(Failure("400", None, "unsupported version"))
    /\ UNCHANGED <<life, retired, account, token, came, body>>

\* A slip: whatever came as the id is echoed.
EchoedId(b) == b.id

\* The id of a reply, even to a message that is rejected.
idOf(b) == IF b.id \in Ids THEN b.id ELSE None

\* A slip: an id that cannot be used is no id.
LaxMessage(b) ==
    IF b.shape # "object" \/ ~b.jsonrpc \/ b.method = "missing"
      THEN [kind |-> "invalid", id |-> idOf(b)]
    ELSE [kind |-> IF b.id \in Ids THEN "request" ELSE "notification", id |-> idOf(b)]

parseMessage(b) ==
    IF b.shape # "object" \/ ~b.jsonrpc \/ b.method = "missing"
      THEN [kind |-> "invalid", id |-> idOf(b)]
    ELSE [kind |-> IF b.id = NoId THEN "notification"
                  ELSE IF b.id = BadId THEN "invalid" ELSE "request",
          id |-> idOf(b)]

HasScope(tool) == ToolScope[tool] \in Granted[token]

listToolsFor(t) == {tool \in Tools : ToolScope[tool] \in Granted[t]}

\* A slip: the arguments are checked before the scope.
ArgumentsFirst(call, id) ==
    IF call.args = "bad" THEN Failure("200", id, "invalid arguments")
    ELSE Success(id, "forbidden")

\* What execute answers without running the tool.
Refusal(call, id) ==
    IF ~HasScope(call.name) THEN Success(id, "forbidden")
    ELSE Failure("200", id, "invalid arguments")

Runs(call) == HasScope(call.name) /\ call.args = "good"

\* respondTo, for everything that does not run a tool.  An unknown tool is a bad
\* parameter, since the method exists.
respondTo(method, call, id) ==
    CASE method = "initialize"     -> Success(id, "initialized")
      [] method = "ping"           -> Success(id, "pong")
      [] method = "tools/list"     -> Success(id, "tools")
      [] method = "no such method" -> Failure("200", id, "unknown method")
      [] method = "tools/call" /\ call = NoCall -> Failure("200", id, "invalid params")
      [] method = "tools/call" /\ call.name = "unknown" -> Failure("200", id, "unknown tool")
      [] method = "tools/call" /\ call.name \in Tools -> Refusal(call, id)

Dispatch(ok, b) ==
    /\ pc = "lookup" /\ Accepted(ok)
    /\ body' = b
    /\ LET m == parseMessage(b) IN
       CASE m.kind = "invalid"      -> Reply(Failure("400", m.id, "invalid request"))
         [] m.kind = "notification" -> Reply(Response("202", "none", None, "nothing"))
         [] m.kind = "request" ->
              IF b.call.name \in Tools /\ Runs(b.call)
                THEN pc' = "handler" /\ UNCHANGED answer
                ELSE Reply(respondTo(b.method, b.call, m.id))
    /\ UNCHANGED <<life, retired, account, token, came>>

\* The handler reads the account; a failure of its own is a result as well.
getProfile(ok) == IF ok /\ account THEN "text" ELSE "tool error"

ToolEnds(ok) ==
    /\ pc = "handler"
    /\ Reply(Success(idOf(body), getProfile(ok)))
    /\ UNCHANGED <<life, retired, account, token, came, body>>

-----------------------------------------------------------------------------
(* Meanwhile.                                                              *)

Age(t) ==
    /\ life[t] # "over"
    /\ life' = [life EXCEPT ![t] = IF @ = "fresh" THEN "lapsed" ELSE "over"]
    /\ UNCHANGED <<retired, account, pc, token, came, body, answer>>

\* denyAccessToken, after a rotation; for a token past its exp it sets no entry.
Rotate(t) ==
    /\ t \notin retired
    /\ retired' = retired \cup {t}
    /\ UNCHANGED <<life, account, pc, token, came, body, answer>>

DeleteUser ==
    /\ account /\ account' = FALSE
    /\ UNCHANGED <<life, retired, pc, token, came, body, answer>>

Next ==
    \/ \E t \in Tokens \cup {Foreign, NoToken} : Arrive(t)
    \/ Verify
    \/ \E ok \in BOOLEAN :
        \/ TurnAway(ok)
        \/ \E origin \in Origins, post \in BOOLEAN, version \in Versions :
            RefuseHeaders(ok, origin, post, version)
        \/ \E b \in Bodies : Dispatch(ok, b)
        \/ ToolEnds(ok)
    \/ \E t \in Tokens : Age(t) \/ Rotate(t)
    \/ DeleteUser

Spec == Init /\ [][Next]_vars
-----------------------------------------------------------------------------
(* Properties.                                                             *)

\* The token of the request had been rotated away when it came and has not reached its
\* exp yet, or was past the tolerance.
Unusable == came = "over" \/ (came = "rotated" /\ life[token] = "fresh")

\* Whatever happens while a request is under way, the dispatcher answers and a tool runs
\* only for a token that was usable when the request came, or that was rotated away but
\* has reached its exp: the entry of the denylist is gone then, and the clock tolerance
\* lets the token pass once more, which authenticate.ts:79-82 and
\* oauthTokenStore.ts:131-132 leave out.  Redis being down never helps a token.
OnlyLiveTokensGetThrough ==
    Unusable => /\ pc # "handler"
                /\ answer.status \in {"none", "401", "500"}

\* What oauthTokenStore.ts:131-132 says, and the code does not do within the tolerance: no
\* token that was rotated away is still verifiable once its entry is gone.
RotatedTokensStayOut ==
    came = "rotated" => pc # "handler" /\ answer.status \in {"none", "401", "500"}

\* A caller without the scope of a tool gets one and the same refusal whatever its
\* arguments, and is not shown the tool (defineTool.ts:86-87, registry.ts:60-68); one
\* that is shown a tool is never told that it is forbidden.
ForbiddenSaysNothing ==
    (pc = "idle" /\ answer.status = "200" /\ body.method = "tools/call"
        /\ body.call.name \in Tools) =>
            (answer.says = "forbidden") = (body.call.name \notin listToolsFor(token))

\* A client that waits for an answer gets one with its id, or with none where its id
\* cannot be read; a notification gets no body at all (jsonrpc.ts:38-44).
EveryClientIsAnswered ==
    (answer.status \in {"200", "202", "400"} /\ body # NoMessage) =>
        /\ body.id \in Ids => answer.id = body.id /\ answer.says # "nothing"
        /\ body.id = BadId => answer.id = None /\ answer.says # "nothing"
        /\ (body.id = NoId /\ answer.status # "400") => answer.says = "nothing"

-----------------------------------------------------------------------------
(* The inductive invariant behind them.                                    *)

\* What was so of the token when the request came is still found when it matters.
StandingIsFound ==
    /\ came # "live" => token \in Tokens
    /\ came = "over" => pc # "lookup" /\ (pc = "verify" => life[token] = "over")
    /\ came = "rotated" /\ pc \in {"verify", "lookup"} => token \in retired

\* The message is looked at last, and a tool runs for a request that asked for it
\* and may have it.
ToolIsDue ==
    /\ pc \in {"verify", "lookup"} => body = NoMessage
    /\ pc = "handler" => Runs(body.call) /\ parseMessage(body).kind = "request"

IInv ==
    /\ TypeOK /\ StandingIsFound /\ ToolIsDue
    /\ OnlyLiveTokensGetThrough /\ ForbiddenSaysNothing /\ EveryClientIsAnswered
=============================================================================
