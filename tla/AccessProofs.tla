---------------------------- MODULE AccessProofs -----------------------------
(***************************************************************************)
(* Proofs about the two gates in front of the application: the MCP         *)
(* endpoint (Mcp), for every set of tools, scopes, tokens and ids and      *)
(* every message, and the login throttle (LoginThrottle), for every limit, *)
(* window and number of logins under way.  The two share nothing.          *)
(***************************************************************************)
EXTENDS Mcp, LoginThrottle, FiniteSetTheorems, TLAPS

-----------------------------------------------------------------------------
(* The MCP endpoint.                                                       *)

\* What is known of a message before it is parsed.
LEMMA BodyFields ==
    ASSUME NEW b \in Bodies
    PROVE  /\ b.id \in IdKinds
           /\ b.call.name \in Tools \cup {"unknown", "missing"}
           /\ b.call.name \in Tools => b.call # NoCall /\ b.call.args \in {"good", "bad"}
           /\ b.call.name \notin Tools \cup {"unknown"} => b.call = NoCall
           /\ b.call # NoCall => b.method = "tools/call"
           /\ b.method \in Methods \cup {"missing"}
<1>0. NoCall.name = "missing" /\ "missing" \notin Tools
    BY McpAssumption DEF NoCall
<1>1. NoCall \in Calls /\ NoId \in IdKinds
    BY DEF Calls, IdKinds
<1>2. ASSUME NEW c \in Calls
      PROVE  /\ c.name \in Tools \cup {"unknown", "missing"}
             /\ c.name \in Tools => c # NoCall /\ c.args \in {"good", "bad"}
             /\ c.name \notin Tools \cup {"unknown"} => c = NoCall
    BY <1>0 DEF Calls
<1>3. CASE b = NoMessage \/ b = Batch
  <2>1. b.id = NoId /\ b.call = NoCall /\ b.method = "missing"
    BY <1>3 DEF NoMessage, Batch
  <2> QED
    BY <1>0, <1>1, <2>1
<1>4. CASE b \notin {NoMessage, Batch}
  <2>1. /\ b \in [shape : {"object"}, jsonrpc : BOOLEAN, method : Methods \cup {"missing"},
                  id : IdKinds, call : Calls]
        /\ b.method # "tools/call" => b.call = NoCall
    BY <1>4 DEF Bodies
  <2>2. b.id \in IdKinds /\ b.call \in Calls /\ b.method \in Methods \cup {"missing"}
    BY <2>1
  <2> QED
    BY <1>2, <2>1, <2>2
<1> QED
    BY <1>3, <1>4

\* A message is a request with its id, a notification without one, or invalid.
LEMMA Parsed ==
    ASSUME NEW b \in Bodies
    PROVE  LET m == parseMessage(b) IN
           /\ m.kind \in {"invalid", "notification", "request"}
           /\ m.id = idOf(b) /\ m.id \in Ids \cup {None}
           /\ m.kind = "request" => b.id \in Ids /\ b.method \in Methods
           /\ m.kind = "notification" => b.id = NoId
<1>1. b.id \in IdKinds /\ b.method \in Methods \cup {"missing"}
    BY BodyFields
<1>2. NoId \notin Ids /\ BadId \notin Ids
    BY McpAssumption DEF NoId, BadId
<1> QED
    BY <1>1, <1>2 DEF parseMessage, idOf, IdKinds

LEMMA InitIInv == Init => IInv
<1> SUFFICES ASSUME Init PROVE IInv
    OBVIOUS
<1>1. NoMessage \in Bodies
    BY DEF Bodies
<1>2. NoResponse \in [status : Statuses, challenge : Challenges, id : Ids \cup {None}, says : Says]
      /\ NoResponse.status = "none"
    BY DEF NoResponse, Response, Statuses, Challenges, Says
<1>3. TypeOK
    BY <1>1, <1>2 DEF Init, TypeOK
<1> QED
    BY <1>2, <1>3 DEF Init, IInv, StandingIsFound, ToolIsDue, OnlyLiveTokensGetThrough,
                      ForbiddenSaysNothing, EveryClientIsAnswered

\* An answer without a JSON-RPC result says nothing that depends on the message.
LEMMA Turned ==
    ASSUME IInv, pc \in {"verify", "lookup"},
           NEW s \in {"400", "401", "403", "405", "500"}, NEW ch \in Challenges,
           NEW w \in Says,
           Reply(Response(s, ch, None, w)),
           Unusable => s \in {"401", "500"},
           UNCHANGED <<life, retired, account, token, came, body>>
    PROVE  IInv'
<1>1. /\ answer' = [status |-> s, challenge |-> ch, id |-> None, says |-> w] /\ pc' = "idle"
    BY DEF Reply, Response
<1>2. TypeOK'
    BY <1>1 DEF IInv, TypeOK, Statuses
<1>3. OnlyLiveTokensGetThrough' /\ ForbiddenSaysNothing' /\ EveryClientIsAnswered'
    BY <1>1 DEF IInv, ToolIsDue, OnlyLiveTokensGetThrough, Unusable, ForbiddenSaysNothing,
                EveryClientIsAnswered
<1> QED
    BY <1>1, <1>2, <1>3 DEF IInv, StandingIsFound, ToolIsDue

LEMMA ArriveKeeps ==
    ASSUME IInv, NEW t \in Tokens \cup {Foreign, NoToken}, Arrive(t)
    PROVE  IInv'
<1>1. /\ pc' = "verify" /\ token' = t /\ came' = Standing(t)
      /\ body' = NoMessage /\ answer' = NoResponse
      /\ UNCHANGED <<life, retired, account>>
    BY DEF Arrive
<1>2. NoMessage \in Bodies /\ NoResponse.status = "none"
      /\ NoResponse \in [status : Statuses, challenge : Challenges, id : Ids \cup {None}, says : Says]
    BY DEF Bodies, NoResponse, Response, Statuses, Challenges, Says
<1>3. came' \in {"live", "rotated", "over"}
    BY <1>1 DEF Standing
<1>4. TypeOK'
    BY <1>1, <1>2, <1>3 DEF IInv, TypeOK
<1>5. StandingIsFound'
    BY <1>1 DEF IInv, TypeOK, StandingIsFound, Standing
<1> QED
    BY <1>1, <1>2, <1>4, <1>5 DEF IInv, ToolIsDue, OnlyLiveTokensGetThrough, ForbiddenSaysNothing,
                                  EveryClientIsAnswered

LEMMA VerifyKeeps ==
    ASSUME IInv, Verify
    PROVE  IInv'
<1>1. pc = "verify" /\ UNCHANGED <<life, retired, account, token, came, body>>
    BY DEF Verify
<1>2. CASE token \in Tokens /\ life[token] # "over"
  <2>1. pc' = "lookup" /\ answer' = answer
    BY <1>2 DEF Verify
  <2>2. TypeOK'
    BY <1>1, <1>2, <2>1 DEF IInv, TypeOK
  <2>3. StandingIsFound'
    BY <1>1, <1>2, <2>1 DEF IInv, StandingIsFound, Standing
  <2> QED
    BY <1>1, <2>1, <2>2, <2>3 DEF IInv, TypeOK, ToolIsDue, OnlyLiveTokensGetThrough, ForbiddenSaysNothing,
                                 EveryClientIsAnswered, NoResponse, Response
<1>3. CASE ~(token \in Tokens /\ life[token] # "over")
  <2>1. PICK ch \in Challenges : Reply(Response("401", ch, None, "unauthorized"))
    BY <1>3 DEF Verify, Unauthorized, challenge, Challenges
  <2>2. "unauthorized" \in Says
    BY DEF Says
  <2> QED
    BY <1>1, <2>1, <2>2, Turned
<1> QED
    BY <1>2, <1>3

LEMMA TurnAwayKeeps ==
    ASSUME IInv, NEW ok \in BOOLEAN, TurnAway(ok)
    PROVE  IInv'
<1>1. pc = "lookup" /\ UNCHANGED <<life, retired, account, token, came, body>>
    BY DEF TurnAway
<1>2. "unauthorized" \in Says /\ "internal error" \in Says /\ "none" \in Challenges
    BY DEF Says, Challenges
<1>3. CASE ok
  <2>1. PICK ch \in Challenges : Reply(Response("401", ch, None, "unauthorized"))
    BY <1>3 DEF TurnAway, Unauthorized, challenge, Challenges
  <2> QED
    BY <1>1, <1>2, <2>1, Turned
<1>4. CASE ~ok
  <2>1. Reply(Response("500", "none", None, "internal error"))
    BY <1>4 DEF TurnAway
  <2> QED
    BY <1>1, <1>2, <2>1, Turned
<1> QED
    BY <1>3, <1>4

\* A request that gets beyond the denylist has a live token.
LEMMA AcceptedIsLive ==
    ASSUME IInv, pc = "lookup", NEW ok \in BOOLEAN, Accepted(ok)
    PROVE  ~Unusable
BY DEF IInv, StandingIsFound, Unusable, Accepted, Denied

LEMMA RefuseHeadersKeeps ==
    ASSUME IInv, NEW ok \in BOOLEAN, NEW origin, NEW post, NEW version,
           RefuseHeaders(ok, origin, post, version)
    PROVE  IInv'
<1>1. pc = "lookup" /\ UNCHANGED <<life, retired, account, token, came, body>>
    BY DEF RefuseHeaders
<1>2. ~Unusable
    BY AcceptedIsLive DEF RefuseHeaders
<1>3. PICK s \in {"400", "403", "405"}, w \in Says : Reply(Response(s, "none", None, w))
    BY DEF RefuseHeaders, Failure, Says
<1>4. "none" \in Challenges
    BY DEF Challenges
<1> QED
    BY <1>1, <1>2, <1>3, <1>4, Turned

\* A message is answered.
LEMMA Replied ==
    ASSUME TypeOK, StandingIsFound, ~Unusable, NEW b \in Bodies, NEW s \in {"200", "202", "400"}, NEW w \in Says,
           LET m == parseMessage(b) IN
           /\ s = IF m.kind = "invalid" THEN "400" ELSE IF m.kind = "notification" THEN "202" ELSE "200"
           /\ Reply(Response(s, "none", IF m.kind = "notification" THEN None ELSE m.id, w))
           /\ w = "nothing" <=> m.kind = "notification"
           /\ m.kind = "request" /\ b.method = "tools/call" /\ b.call.name \in Tools
                => (w = "forbidden" <=> ~HasScope(b.call.name)),
           body' = b, UNCHANGED <<life, retired, account, token, came>>
    PROVE  IInv'
<1> DEFINE m == parseMessage(b)
<1>1. PICK i \in Ids \cup {None} :
        /\ i = IF m.kind = "notification" THEN None ELSE m.id
        /\ answer' = [status |-> s, challenge |-> "none", id |-> i, says |-> w]
  <2>1. m.id \in Ids \cup {None}
    BY Parsed
  <2> QED
    BY <2>1 DEF Reply, Response
<1>2. pc' = "idle"
    BY DEF Reply
<1>3. TypeOK'
    BY <1>1, <1>2 DEF TypeOK, Statuses, Challenges
<1>4. ForbiddenSaysNothing'
  <2>1. /\ answer'.status = "200" /\ body'.method = "tools/call" /\ body'.call.name \in Tools
        => (w = "forbidden" <=> ~HasScope(b.call.name))
    BY <1>1, Parsed
  <2>2. \A tool \in Tools : tool \notin listToolsFor(token') <=> ~HasScope(tool)
    BY DEF listToolsFor, HasScope
  <2> QED
    BY <1>1, <2>1, <2>2 DEF ForbiddenSaysNothing
<1>5. EveryClientIsAnswered'
  <2>1. NoId \notin Ids /\ BadId \notin Ids /\ NoId # BadId
    BY McpAssumption DEF NoId, BadId
  <2>2. m.id = idOf(b) /\ (m.kind = "notification" => b.id = NoId)
        /\ (m.kind = "request" => b.id \in Ids) /\ m.kind \in {"invalid", "notification", "request"}
    BY Parsed
  <2> QED
    BY <1>1, <2>1, <2>2 DEF EveryClientIsAnswered, idOf
<1> QED
    BY <1>2, <1>3, <1>4, <1>5 DEF IInv, StandingIsFound, ToolIsDue, OnlyLiveTokensGetThrough, Unusable

\* What respondTo answers to a request that runs no tool.
LEMMA Responded ==
    ASSUME NEW b \in Bodies, NEW i, b.method \in Methods,
           ~(b.call.name \in Tools /\ Runs(b.call))
    PROVE  \E w \in Says \ {"nothing"} :
            /\ respondTo(b.method, b.call, i) = Response("200", "none", i, w)
            /\ b.method = "tools/call" /\ b.call.name \in Tools
                => (w = "forbidden" <=> ~HasScope(b.call.name))
<1> USE DEF Says, Success, Failure
<1>1. CASE b.method = "initialize"
  <2>1. respondTo(b.method, b.call, i) = Response("200", "none", i, "initialized")
    BY <1>1 DEF respondTo
  <2> QED
    BY <1>1, <2>1
<1>2. CASE b.method = "ping"
  <2>1. respondTo(b.method, b.call, i) = Response("200", "none", i, "pong")
    BY <1>2 DEF respondTo
  <2> QED
    BY <1>2, <2>1
<1>3. CASE b.method = "tools/list"
  <2>1. respondTo(b.method, b.call, i) = Response("200", "none", i, "tools")
    BY <1>3 DEF respondTo
  <2> QED
    BY <1>3, <2>1
<1>4. CASE b.method = "no such method"
  <2>1. respondTo(b.method, b.call, i) = Response("200", "none", i, "unknown method")
    BY <1>4 DEF respondTo
  <2> QED
    BY <1>4, <2>1
<1>5. CASE b.method = "tools/call"
  <2>1. /\ b.call.name \in Tools \cup {"unknown", "missing"}
        /\ b.call.name \in Tools => b.call # NoCall
        /\ b.call.name \notin Tools \cup {"unknown"} => b.call = NoCall
        /\ {"unknown", "missing"} \cap Tools = {}
    BY BodyFields, McpAssumption
  <2>2. NoCall.name = "missing"
    BY DEF NoCall
  <2>3. CASE b.call = NoCall
    <3>1. respondTo(b.method, b.call, i) = Response("200", "none", i, "invalid params")
        BY <1>5, <2>1, <2>2, <2>3 DEF respondTo
    <3> QED
        BY <2>1, <2>2, <2>3, <3>1
  <2>4. CASE b.call.name = "unknown"
    <3>1. respondTo(b.method, b.call, i) = Response("200", "none", i, "unknown tool")
        BY <1>5, <2>1, <2>2, <2>4 DEF respondTo
    <3> QED
        BY <2>1, <2>4, <3>1
  <2>5. CASE b.call.name \in Tools
    <3>1. respondTo(b.method, b.call, i) = Refusal(b.call, i)
        BY <1>5, <2>1, <2>5 DEF respondTo
    <3>2. CASE ~HasScope(b.call.name)
      <4>1. respondTo(b.method, b.call, i) = Response("200", "none", i, "forbidden")
        BY <3>1, <3>2 DEF Refusal
      <4> QED
        BY <3>2, <4>1
    <3>3. CASE HasScope(b.call.name)
      <4>1. respondTo(b.method, b.call, i) = Response("200", "none", i, "invalid arguments")
        BY <3>1, <3>3 DEF Refusal
      <4>2. "invalid arguments" \in Says \ {"nothing"} /\ "invalid arguments" # "forbidden"
        OBVIOUS
      <4> QED
        BY <3>3, <4>1, <4>2, Zenon
    <3> QED
        BY <3>2, <3>3
  <2> QED
    BY <2>1, <2>3, <2>4, <2>5
<1> QED
    BY <1>1, <1>2, <1>3, <1>4, <1>5 DEF Methods

LEMMA DispatchKeeps ==
    ASSUME IInv, NEW ok \in BOOLEAN, NEW b \in Bodies, Dispatch(ok, b)
    PROVE  IInv'
<1> DEFINE m == parseMessage(b)
<1>1. /\ pc = "lookup" /\ body' = b /\ TypeOK /\ StandingIsFound
      /\ UNCHANGED <<life, retired, account, token, came>>
    BY DEF Dispatch, IInv
<1>2. ~Unusable
    BY AcceptedIsLive DEF Dispatch
<1>3. /\ m.kind \in {"invalid", "notification", "request"}
      /\ m.kind = "request" => b.method \in Methods
    BY Parsed
<1>4. CASE m.kind = "invalid"
  <2>1. Reply(Response("400", "none", m.id, "invalid request"))
    BY <1>4 DEF Dispatch, Failure
  <2>2. "invalid request" \in Says
    BY DEF Says
  <2> QED
    BY <1>1, <1>2, <1>4, <2>1, <2>2, Replied
<1>5. CASE m.kind = "notification"
  <2>1. Reply(Response("202", "none", None, "nothing"))
    BY <1>5 DEF Dispatch
  <2>2. "nothing" \in Says
    BY DEF Says
  <2> QED
    BY <1>1, <1>2, <1>5, <2>1, <2>2, Replied
<1>6. CASE m.kind = "request"
  <2>1. CASE b.call.name \in Tools /\ Runs(b.call)
    <3>1. pc' = "handler" /\ answer' = answer
        BY <1>6, <2>1 DEF Dispatch
    <3>2. TypeOK'
        BY <1>1, <2>1, <3>1 DEF TypeOK
    <3>3. Runs(body.call)'
        BY <1>1, <2>1 DEF Runs, HasScope
    <3>4. answer.status = "none"
        BY <1>1 DEF TypeOK, NoResponse, Response
    <3> QED
        BY <1>1, <1>2, <1>6, <3>1, <3>2, <3>3, <3>4
        DEF IInv, StandingIsFound, ToolIsDue, OnlyLiveTokensGetThrough, Unusable,
            ForbiddenSaysNothing, EveryClientIsAnswered
  <2>2. CASE ~(b.call.name \in Tools /\ Runs(b.call))
    <3>1. Reply(respondTo(b.method, b.call, m.id))
        BY <1>6, <2>2 DEF Dispatch
    <3>2. PICK w \in Says \ {"nothing"} :
            /\ respondTo(b.method, b.call, m.id) = Response("200", "none", m.id, w)
            /\ b.method = "tools/call" /\ b.call.name \in Tools
                => (w = "forbidden" <=> ~HasScope(b.call.name))
        BY <1>3, <1>6, <2>2, Responded
    <3> QED
        BY <1>1, <1>2, <1>6, <3>1, <3>2, Replied
  <2> QED
    BY <2>1, <2>2
<1> QED
    BY <1>3, <1>4, <1>5, <1>6

LEMMA ToolEndsKeeps ==
    ASSUME IInv, NEW ok \in BOOLEAN, ToolEnds(ok)
    PROVE  IInv'
<1>1. /\ pc = "handler" /\ ~Unusable /\ TypeOK /\ StandingIsFound /\ body \in Bodies
      /\ Runs(body.call) /\ parseMessage(body).kind = "request"
      /\ UNCHANGED <<life, retired, account, token, came, body>>
    BY DEF ToolEnds, IInv, OnlyLiveTokensGetThrough, ToolIsDue, TypeOK
<1>2. parseMessage(body).id = idOf(body)
    BY <1>1, Parsed
<1>3. PICK w \in {"text", "tool error"} : Reply(Response("200", "none", idOf(body), w))
    BY DEF ToolEnds, Success, getProfile
<1>4. w \in Says /\ HasScope(body.call.name)
    BY <1>1 DEF Says, Runs
<1> QED
    BY <1>1, <1>2, <1>3, <1>4, Replied

-----------------------------------------------------------------------------
(* Meanwhile.                                                              *)

\* The world changes, and the request stands where it stood.
LEMMA RequestKeeps ==
    ASSUME IInv, TypeOK', StandingIsFound', Unusable' => Unusable,
           UNCHANGED <<pc, token, body, answer>>
    PROVE  IInv'
BY DEF IInv, ToolIsDue, Runs, HasScope, OnlyLiveTokensGetThrough, ForbiddenSaysNothing, listToolsFor,
       EveryClientIsAnswered

LEMMA AgeKeeps ==
    ASSUME IInv, NEW t \in Tokens, Age(t)
    PROVE  IInv'
<1>1. /\ life' = [life EXCEPT ![t] = IF @ = "fresh" THEN "lapsed" ELSE "over"]
      /\ UNCHANGED <<retired, account, pc, token, came, body, answer>>
    BY DEF Age
<1>2. \A x \in Tokens : life'[x] = "fresh" => life[x] = "fresh"
    BY <1>1 DEF IInv, TypeOK
<1>3. TypeOK'
    BY <1>1 DEF IInv, TypeOK
<1>4. StandingIsFound'
    BY <1>1 DEF IInv, TypeOK, StandingIsFound, Standing
<1>5. Unusable' => Unusable
    BY <1>1, <1>2 DEF IInv, StandingIsFound, Unusable
<1> QED
    BY <1>1, <1>3, <1>4, <1>5, RequestKeeps

LEMMA RotateKeeps ==
    ASSUME IInv, NEW t \in Tokens, Rotate(t)
    PROVE  IInv'
<1>1. retired' = retired \cup {t} /\ UNCHANGED <<life, account, pc, token, came, body, answer>>
    BY DEF Rotate
<1>2. TypeOK'
    BY <1>1 DEF IInv, TypeOK
<1>3. StandingIsFound'
    BY <1>1 DEF IInv, StandingIsFound, Standing
<1> QED
    BY <1>1, <1>2, <1>3, RequestKeeps DEF Unusable

LEMMA DeleteUserKeeps ==
    ASSUME IInv, DeleteUser
    PROVE  IInv'
<1>1. account' = FALSE /\ UNCHANGED <<life, retired, pc, token, came, body, answer>>
    BY DEF DeleteUser
<1>2. TypeOK' /\ StandingIsFound'
    BY <1>1 DEF IInv, TypeOK, StandingIsFound, Standing
<1> QED
    BY <1>1, <1>2, RequestKeeps DEF Unusable

-----------------------------------------------------------------------------
(* The theorems.                                                           *)

LEMMA StepKeepsIInv == IInv /\ [Next]_vars => IInv'
<1> SUFFICES ASSUME IInv, [Next]_vars PROVE IInv'
    OBVIOUS
<1>1. ASSUME NEW t \in Tokens \cup {Foreign, NoToken}, Arrive(t) PROVE IInv'
    BY <1>1, ArriveKeeps
<1>2. ASSUME NEW ok \in BOOLEAN, TurnAway(ok) \/ ToolEnds(ok) PROVE IInv'
    BY <1>2, TurnAwayKeeps, ToolEndsKeeps
<1>3. ASSUME NEW ok \in BOOLEAN, NEW origin \in Origins, NEW post \in BOOLEAN, NEW version \in Versions,
             RefuseHeaders(ok, origin, post, version)
      PROVE  IInv'
    BY <1>3, RefuseHeadersKeeps
<1>4. ASSUME NEW ok \in BOOLEAN, NEW b \in Bodies, Dispatch(ok, b) PROVE IInv'
    BY <1>4, DispatchKeeps
<1>5. ASSUME NEW t \in Tokens, Age(t) \/ Rotate(t) PROVE IInv'
    BY <1>5, AgeKeeps, RotateKeeps
<1>6. CASE UNCHANGED vars
  <2>1. TypeOK' /\ StandingIsFound'
    BY <1>6 DEF vars, IInv, TypeOK, StandingIsFound, Standing
  <2> QED
    BY <1>6, <2>1, RequestKeeps DEF vars, Unusable
<1> QED
    BY <1>1, <1>2, <1>3, <1>4, <1>5, <1>6, VerifyKeeps, DeleteUserKeeps DEF Next

LEMMA Invariant == Spec => []IInv
BY InitIInv, StepKeepsIInv, PTL DEF Spec

\* Requests and their responses have the form the code gives them.
THEOREM TypeCorrect == Spec => []TypeOK
<1>1. IInv => TypeOK
    BY DEF IInv
<1> QED
    BY <1>1, Invariant, PTL

\* A token that was too old when the request came, or had been rotated away and has not
\* reached its exp, gets nothing but a 401 or a 500 (authenticate.ts:58-94).  Past its exp
\* a rotated token passes once more, while the clock tolerance lasts.
THEOREM DeadTokensAreTurnedAway == Spec => []OnlyLiveTokensGetThrough
<1>1. IInv => OnlyLiveTokensGetThrough
    BY DEF IInv
<1> QED
    BY <1>1, Invariant, PTL

\* A tool is forbidden to those it is not listed for, and to nobody else, whatever
\* the arguments are (defineTool.ts:73-87, registry.ts:60-68).
THEOREM RefusalsSayNothing == Spec => []ForbiddenSaysNothing
<1>1. IInv => ForbiddenSaysNothing
    BY DEF IInv
<1> QED
    BY <1>1, Invariant, PTL

\* Every client that waits for an answer gets its own (jsonrpc.ts:65-118).
THEOREM ClientsAreAnswered == Spec => []EveryClientIsAnswered
<1>1. IInv => EveryClientIsAnswered
    BY DEF IInv
<1> QED
    BY <1>1, Invariant, PTL

-----------------------------------------------------------------------------
(* The login throttle: types.                                              *)

StoreType ==
    /\ now \in Times
    /\ count \in [Keys -> Nat] /\ countEnd \in [Keys -> Nat] /\ lock \in [Keys -> Nat]
    /\ \A k \in Keys : /\ (count[k] = 0) = (countEnd[k] = 0)
                       /\ countEnd[k] # 0 => countEnd[k] \in (now + 1)..(now + Window)
                       /\ lock[k] # 0 => lock[k] \in (now + 1)..(now + Window)

LoginType ==
    /\ stage \in [Workers -> Steps]
    /\ login \in [Workers -> Pairs \cup {Nobody}]
    /\ \A w \in Workers : (stage[w] = "idle") = (login[w] = Nobody)
    /\ seen \in [Workers -> [ending : BOOLEAN, address : Nat, pair : Nat]]

HistoryType ==
    /\ tries \in SUBSET [pair : Pairs, at : 0..now, nr : Nat, ending : BOOLEAN]
    /\ IsFiniteSet(tries)
    /\ known \subseteq Pairs
    /\ lost \in 0..MaxLost

\* The types of the store, of the logins and of what has been tried.
LEMMA TypeParts == ThrottleTypeOK <=> StoreType /\ LoginType /\ HistoryType
  BY DEF ThrottleTypeOK, StoreType, LoginType, HistoryType

\* The limits of the configuration.
LEMMA Limits ==
  /\ MaxFailed \in Nat /\ MaxFailed >= 2 /\ Window \in Nat /\ Window >= 1
  /\ MaxTime \in Nat /\ MaxLost \in Nat
  BY LoginThrottleAssumption

\* The keys of a login that is under way, which are two.
LEMMA KeysOf ==
  ASSUME LoginType, NEW w \in Workers, stage[w] # "idle"
  PROVE  /\ login[w] \in Pairs /\ Pair(w) \in Pairs /\ Pair(w) \in Keys
         /\ Address(w) \in Keys /\ Address(w) \notin Pairs
  <1>1. login[w] \in Pairs
    BY DEF LoginType
  <1>2. login[w][2] \in Ips /\ NoAccount \notin Emails
    BY <1>1, LoginThrottleAssumption DEF Pairs
  <1> QED BY <1>1, <1>2 DEF Pair, Address, Keys, Pairs

\* A login that goes on.
LEMMA GotoType ==
  ASSUME LoginType, NEW w \in Workers, NEW s \in Steps \ {"idle"}, stage[w] # "idle",
         Goto(w, s), login' = login, seen' \in [Workers -> [ending : BOOLEAN, address : Nat, pair : Nat]]
  PROVE  LoginType'
  BY DEF LoginType, Goto

\* A login that ends.
LEMMA DoneType ==
  ASSUME LoginType, NEW w \in Workers, Done(w)
  PROVE  LoginType'
  <1>1. NoneSeen \in [ending : BOOLEAN, address : Nat, pair : Nat]
    BY DEF NoneSeen
  <1>2. seen' \in [Workers -> [ending : BOOLEAN, address : Nat, pair : Nat]]
    BY <1>1 DEF LoginType, Done
  <1>3. stage' \in [Workers -> Steps]
    BY DEF LoginType, Done, Goto, Steps
  <1> QED BY <1>2, <1>3 DEF LoginType, Done, Goto

\* A key that is incremented has a counter, of which the end is ahead.
LEMMA IncrementType ==
  ASSUME StoreType, NEW key \in Keys, Increment(key), now' = now
  PROVE  StoreType'
  <1> USE Limits
  <1>1. now + Window \in (now + 1)..(now + Window) /\ now \in Nat
    BY DEF StoreType, Times
  <1>2. count' \in [Keys -> Nat] /\ countEnd' \in [Keys -> Nat] /\ lock' = lock
    BY <1>1 DEF StoreType, Increment
  <1>3. ASSUME NEW k \in Keys
        PROVE  /\ (count'[k] = 0) = (countEnd'[k] = 0)
               /\ countEnd'[k] # 0 => countEnd'[k] \in (now + 1)..(now + Window)
    <2>1. CASE k = key
      <3>1. count'[k] = count[k] + 1 /\ count[k] \in Nat
        BY <2>1 DEF StoreType, Increment
      <3>2. countEnd'[k] = IF count[k] = 0 THEN now + Window ELSE countEnd[k]
        BY <2>1 DEF StoreType, Increment
      <3> QED BY <1>1, <3>1, <3>2 DEF StoreType
    <2>2. CASE k # key
      <3>1. count'[k] = count[k] /\ countEnd'[k] = countEnd[k]
        BY <2>2 DEF StoreType, Increment
      <3> QED BY <3>1 DEF StoreType
    <2> QED BY <2>1, <2>2
  <1> QED BY <1>2, <1>3 DEF StoreType

\* A lock that is set ends a window later.
LEMMA SetLockType ==
  ASSUME StoreType, NEW key \in Keys, SetLock(key), UNCHANGED <<now, count, countEnd>>
  PROVE  StoreType'
  <1>1. now + Window \in (now + 1)..(now + Window) /\ now \in Nat
    BY Limits DEF StoreType, Times
  <1>2. lock' \in [Keys -> Nat]
    BY Limits, <1>1 DEF StoreType, SetLock
  <1>3. ASSUME NEW k \in Keys, lock'[k] # 0 PROVE lock'[k] \in (now + 1)..(now + Window)
    BY <1>1, <1>3 DEF StoreType, SetLock
  <1> QED BY <1>2, <1>3 DEF StoreType

\* What a success deletes.
LEMMA ClearType ==
  ASSUME StoreType, NEW w \in Workers, ClearFailedAttempts(w)
  PROVE  StoreType'
  <1>1. /\ count' \in [Keys -> Nat] /\ countEnd' \in [Keys -> Nat] /\ lock' \in [Keys -> Nat]
        /\ now' = now
    BY DEF StoreType, ClearFailedAttempts
  <1>2. ASSUME NEW k \in Keys
        PROVE  \/ count'[k] = 0 /\ countEnd'[k] = 0 /\ lock'[k] = 0
               \/ count'[k] = count[k] /\ countEnd'[k] = countEnd[k] /\ lock'[k] = lock[k]
    BY DEF ClearFailedAttempts
  <1> QED BY <1>1, <1>2 DEF StoreType

\* What expires.
LEMMA TickType ==
  ASSUME StoreType, HistoryType, Tick
  PROVE  StoreType' /\ HistoryType'
  <1>1. now \in Nat /\ now' = now + 1 /\ now' \in Times
    BY Limits DEF StoreType, Times, Tick
  <1>2. count' \in [Keys -> Nat] /\ countEnd' \in [Keys -> Nat] /\ lock' \in [Keys -> Nat]
    BY DEF StoreType, Tick
  <1>3. ASSUME NEW k \in Keys
        PROVE  /\ (count'[k] = 0) = (countEnd'[k] = 0)
               /\ countEnd'[k] # 0 => countEnd'[k] \in (now' + 1)..(now' + Window)
               /\ lock'[k] # 0 => lock'[k] \in (now' + 1)..(now' + Window)
    <2>1. /\ count'[k] = IF countEnd[k] = now + 1 THEN 0 ELSE count[k]
          /\ countEnd'[k] = IF countEnd[k] = now + 1 THEN 0 ELSE countEnd[k]
          /\ lock'[k] = IF lock[k] = now + 1 THEN 0 ELSE lock[k]
      BY DEF Tick
    <2>2. /\ (count[k] = 0) = (countEnd[k] = 0) /\ countEnd[k] \in Nat /\ lock[k] \in Nat
          /\ countEnd[k] # 0 => now + 1 <= countEnd[k] /\ countEnd[k] <= now + Window
          /\ lock[k] # 0 => now + 1 <= lock[k] /\ lock[k] <= now + Window
      BY DEF StoreType
    <2>3. countEnd'[k] # 0 => countEnd'[k] \in (now' + 1)..(now' + Window)
      BY <1>1, <2>1, <2>2, Limits
    <2>4. lock'[k] # 0 => lock'[k] \in (now' + 1)..(now' + Window)
      BY <1>1, <2>1, <2>2, Limits
    <2> QED BY <2>1, <2>2, <2>3, <2>4
  <1>4. StoreType'
    BY <1>1, <1>2, <1>3 DEF StoreType
  <1>5. tries' \in SUBSET [pair : Pairs, at : 0..now', nr : Nat, ending : BOOLEAN]
    <2>1. 0..now \subseteq 0..now'
      BY <1>1
    <2> QED BY <2>1 DEF HistoryType, Tick, history
  <1>6. HistoryType'
    BY <1>5 DEF HistoryType, Tick, history
  <1> QED BY <1>4, <1>6

\* The wrong passwords at an instant can be counted.
LEMMA TriesAtCount ==
  ASSUME HistoryType, NEW p, NEW t
  PROVE  IsFiniteSet(TriesAt(p, t)) /\ Cardinality(TriesAt(p, t)) \in Nat
  BY FS_Subset, FS_CardinalityType DEF HistoryType, TriesAt

\* A wrong password is one more.
LEMMA WrongPasswordType ==
  ASSUME StoreType, LoginType, HistoryType, NEW w \in Workers, WrongPassword(w)
  PROVE  HistoryType'
  <1> DEFINE x == [pair |-> Pair(w), at |-> now, nr |-> Cardinality(TriesAt(Pair(w), now)),
                   ending |-> seen[w].ending]
  <1>1. now \in 0..now /\ Pair(w) \in Pairs
    BY KeysOf DEF StoreType, Times, WrongPassword
  <1>2. x \in [pair : Pairs, at : 0..now, nr : Nat, ending : BOOLEAN]
    <2>1. seen[w].ending \in BOOLEAN
      BY DEF LoginType
    <2> QED BY <1>1, <2>1, TriesAtCount
  <1>3. tries' = tries \cup {x} /\ UNCHANGED <<now, known, lost>>
    BY DEF WrongPassword
  <1> HIDE DEF x
  <1>4. IsFiniteSet(tries')
    BY <1>3, FS_AddElement DEF HistoryType
  <1> QED BY <1>2, <1>3, <1>4 DEF HistoryType

\* Every step keeps every variable in its type.
LEMMA StepThrottleTypes ==
  ASSUME ThrottleTypeOK, [ThrottleNext]_throttleVars
  PROVE  ThrottleTypeOK'
  <1> SUFFICES StoreType' /\ LoginType' /\ HistoryType'
    BY TypeParts DEF ThrottleTypeOK, StoreType, LoginType, HistoryType
  <1> USE TypeParts
  <1>1. ASSUME NEW w \in Workers, NEW p \in Pairs, NEW read \in BOOLEAN, Start(w, p, read)
        PROVE  StoreType' /\ LoginType' /\ HistoryType'
    <2>1. StoreType' /\ HistoryType'
      <3>1. lost' \in 0..MaxLost
        BY <1>1, Limits DEF HistoryType, Start
      <3> QED BY <1>1, <3>1 DEF StoreType, HistoryType, Start, redis
    <2>2. p # Nobody
      BY LoginThrottleAssumption DEF Pairs, Nobody
    <2>3. seen' \in [Workers -> [ending : BOOLEAN, address : Nat, pair : Nat]]
      <3> DEFINE b == read /\ lock[p] # 0
      <3>1. b \in BOOLEAN /\ seen' = [seen EXCEPT ![w].ending = b]
        BY <1>1 DEF Start
      <3> HIDE DEF b
      <3> QED BY <3>1 DEF LoginType
    <2>4. LoginType'
      BY <1>1, <2>2, <2>3 DEF LoginType, Start, Goto, Steps
    <2> QED BY <2>1, <2>4
  <1>2. ASSUME NEW w \in Workers, NEW solved \in CaptchaAnswers, Assess(w, solved)
        PROVE  StoreType' /\ LoginType' /\ HistoryType'
    <2>1. StoreType' /\ HistoryType'
      BY <1>2 DEF StoreType, HistoryType, Assess, redis, history
    <2>2. LoginType'
      BY <1>2, GotoType, DoneType DEF Assess, locals, LoginType, Steps
    <2> QED BY <2>1, <2>2
  <1>3. ASSUME NEW w \in Workers, WrongPassword(w)
        PROVE  StoreType' /\ LoginType' /\ HistoryType'
    <2>1. StoreType'
      BY <1>3 DEF StoreType, WrongPassword, redis
    <2>2. LoginType'
      BY <1>3, GotoType DEF WrongPassword, locals, LoginType, Steps
    <2> QED BY <1>3, <2>1, <2>2, WrongPasswordType
  <1>4. ASSUME NEW w \in Workers, NEW active \in BOOLEAN, RightPassword(w, active)
        PROVE  StoreType' /\ LoginType' /\ HistoryType'
    <2>1. StoreType' /\ HistoryType'
      BY <1>4 DEF StoreType, HistoryType, RightPassword, redis, history
    <2>2. LoginType'
      BY <1>4, GotoType, DoneType DEF RightPassword, locals, LoginType, Steps
    <2> QED BY <2>1, <2>2
  <1>5. ASSUME NEW w \in Workers, IncrementAddress(w)
        PROVE  StoreType' /\ LoginType' /\ HistoryType'
    <2>1. StoreType'
      BY <1>5, KeysOf, IncrementType DEF IncrementAddress
    <2>2. seen' \in [Workers -> [ending : BOOLEAN, address : Nat, pair : Nat]]
      <3>1. count[Address(w)] + 1 \in Nat
        BY <1>5, KeysOf DEF StoreType, IncrementAddress
      <3> QED BY <1>5, <3>1 DEF LoginType, IncrementAddress
    <2>3. LoginType'
      BY <1>5, <2>2, GotoType DEF IncrementAddress, Steps
    <2> QED BY <1>5, <2>1, <2>3 DEF HistoryType, IncrementAddress, history
  <1>6. ASSUME NEW w \in Workers, IncrementPair(w)
        PROVE  StoreType' /\ LoginType' /\ HistoryType'
    <2>1. StoreType'
      BY <1>6, KeysOf, IncrementType DEF IncrementPair
    <2>2. LoginType'
      <3> DEFINE s == [seen[w] EXCEPT !.pair = count[Pair(w)] + 1]
      <3>1. s \in [ending : BOOLEAN, address : Nat, pair : Nat]
        BY <1>6, KeysOf DEF StoreType, LoginType, IncrementPair
      <3>2. \/ Done(w)
            \/ /\ seen' = [seen EXCEPT ![w] = s] /\ login' = login
               /\ Goto(w, "lock.address") \/ Goto(w, "lock.pair")
        BY <1>6 DEF IncrementPair
      <3> HIDE DEF s
      <3>3. seen' = [seen EXCEPT ![w] = s] => seen' \in [Workers -> [ending : BOOLEAN, address : Nat, pair : Nat]]
        BY <3>1 DEF LoginType
      <3> QED BY <1>6, <3>2, <3>3, GotoType, DoneType DEF IncrementPair, Steps
    <2> QED BY <1>6, <2>1, <2>2 DEF HistoryType, IncrementPair, history
  <1>7. ASSUME NEW w \in Workers, LockAddress(w)
        PROVE  StoreType' /\ LoginType' /\ HistoryType'
    <2>1. StoreType'
      BY <1>7, KeysOf, SetLockType DEF LockAddress
    <2>2. LoginType'
      BY <1>7, GotoType, DoneType DEF LockAddress, locals, LoginType, Steps
    <2> QED BY <1>7, <2>1, <2>2 DEF HistoryType, LockAddress, history
  <1>8. ASSUME NEW w \in Workers, LockPair(w)
        PROVE  StoreType' /\ LoginType' /\ HistoryType'
    <2>1. StoreType'
      BY <1>8, KeysOf, SetLockType DEF LockPair
    <2> QED BY <1>8, <2>1, DoneType DEF HistoryType, LockPair, history
  <1>9. ASSUME NEW w \in Workers, ClearFailedAttempts(w)
        PROVE  StoreType' /\ LoginType' /\ HistoryType'
    <2>1. HistoryType'
      BY <1>9, KeysOf DEF HistoryType, ClearFailedAttempts
    <2>2. LoginType'
      BY <1>9, DoneType DEF ClearFailedAttempts
    <2> QED BY <1>9, <2>1, <2>2, ClearType
  <1>10. ASSUME NEW w \in Workers, Fail(w)
         PROVE  StoreType' /\ LoginType' /\ HistoryType'
    <2>1. lost' \in 0..MaxLost
      BY <1>10, Limits DEF HistoryType, Fail
    <2> QED BY <1>10, <2>1, DoneType DEF StoreType, HistoryType, Fail, redis
  <1>11. CASE Tick
    <2>1. LoginType'
      BY <1>11 DEF LoginType, Tick, locals
    <2> QED BY <1>11, <2>1, TickType
  <1>12. CASE UNCHANGED throttleVars
    BY <1>12 DEF throttleVars, redis, locals, history, StoreType, LoginType, HistoryType
  <1> QED
    BY <1>1, <1>2, <1>3, <1>4, <1>5, <1>6, <1>7, <1>8, <1>9, <1>10, <1>11, <1>12
       DEF ThrottleNext

\* So does the initial state.
LEMMA InitThrottleTypes == ThrottleInit => ThrottleTypeOK
  <1> SUFFICES ASSUME ThrottleInit PROVE ThrottleTypeOK
    OBVIOUS
  <1>1. NoneSeen \in [ending : BOOLEAN, address : Nat, pair : Nat]
    BY DEF NoneSeen
  <1> QED BY <1>1, Limits, FS_EmptySet DEF ThrottleInit, ThrottleTypeOK, Times, Steps

\* Every variable stays in its type: a counter and its end come and go together, and
\* neither a counter nor a lock outlives a window, which a counter whose EXPIRE was
\* not sent would.
THEOREM ThrottleTypeCorrect == ThrottleSpec => []ThrottleTypeOK
  BY InitThrottleTypes, StepThrottleTypes, PTL DEF ThrottleSpec

-----------------------------------------------------------------------------
(* What is counted.                                                        *)

\* Logins that have tried a password of p and have not counted that for the pair.
Uncounted(p) == {w \in Workers : login[w] = p /\ stage[w] \in {"incr.address", "incr.pair"}}

\* Logins that are going to lock p.
Locking(p) == {w \in Workers : /\ login[w] = p
                               /\ stage[w] \in {"lock.address", "lock.pair"}
                               /\ Reached(seen[w].pair)}

\* Logins past the locks of p that may still try a password, and of those that did not
\* come through a lock that was about to end.
Trying(p) == {w \in Workers : /\ login[w] = p
                              /\ stage[w] \in {"assess", "verify"} /\ ~seen[w].ending}

\* What such logins tried on p from t on.
Since(p, t) == {x \in tries : x.pair = p /\ ~x.ending /\ t <= x.at}

uncounted(p) == Cardinality(Uncounted(p))
locking(p)   == Cardinality(Locking(p))
trying(p)    == Cardinality(Trying(p))
since(p, t)  == Cardinality(Since(p, t))
span(p, t)   == Cardinality(TriesFrom(p, t))

\* Logins that may be under way.
Logins == Cardinality(Workers)

\* A set of logins is finite and no larger than all of them.
LEMMA WorkerCounts ==
  ASSUME NEW S \in SUBSET Workers
  PROVE  IsFiniteSet(S) /\ Cardinality(S) \in Nat /\ Logins \in Nat /\ Cardinality(S) <= Logins
  <1>1. IsFiniteSet(Workers)
    BY LoginThrottleAssumption
  <1> QED BY <1>1, FS_Subset, FS_CardinalityType DEF Logins

\* Two sets of logins that agree on all but one.
LEMMA CountWithout ==
  ASSUME NEW A \in SUBSET Workers, NEW B \in SUBSET Workers, NEW w \in Workers, A \ {w} = B \ {w}
  PROVE  /\ Cardinality(A) \in Nat /\ Cardinality(B) \in Nat
         /\ (w \in A <=> w \in B) => Cardinality(B) = Cardinality(A)
         /\ w \in A /\ w \notin B => Cardinality(B) + 1 = Cardinality(A)
         /\ w \notin A /\ w \in B => Cardinality(B) = Cardinality(A) + 1
  <1>1. /\ IsFiniteSet(A) /\ IsFiniteSet(B)
        /\ Cardinality(A) \in Nat /\ Cardinality(B) \in Nat
    BY WorkerCounts
  <1>2. (w \in A <=> w \in B) => A = B
    OBVIOUS
  <1>3. w \in A /\ w \notin B => Cardinality(B) + 1 = Cardinality(A)
    <2>1. w \in A /\ w \notin B => B = A \ {w}
      OBVIOUS
    <2>2. w \in A => Cardinality(A \ {w}) = Cardinality(A) - 1
      BY <1>1, FS_RemoveElement
    <2> QED BY <1>1, <2>1, <2>2
  <1>4. w \notin A /\ w \in B => Cardinality(B) = Cardinality(A) + 1
    <2>1. w \notin A /\ w \in B => B = A \cup {w}
      OBVIOUS
    <2>2. w \notin A => Cardinality(A \cup {w}) = Cardinality(A) + 1
      BY <1>1, FS_AddElement
    <2> QED BY <1>1, <2>1, <2>2
  <1> QED BY <1>1, <1>2, <1>3, <1>4

\* The numbers are numbers, and a login is at one thing at a time.
LEMMA Numbers ==
  ASSUME HistoryType, NEW p \in Pairs
  PROVE  /\ uncounted(p) \in Nat /\ locking(p) \in Nat /\ trying(p) \in Nat /\ Logins \in Nat
         /\ uncounted(p) + locking(p) + trying(p) <= Logins
         /\ \A t \in Nat : since(p, t) \in Nat /\ span(p, t) \in Nat /\ span(p, t) <= since(p, t)
         /\ \A t \in Nat : now \in Nat /\ t > now => since(p, t) = 0
         /\ lost \in Nat
  <1>1. Uncounted(p) \in SUBSET Workers /\ Locking(p) \in SUBSET Workers /\ Trying(p) \in SUBSET Workers
    BY DEF Uncounted, Locking, Trying
  <1>2. /\ uncounted(p) \in Nat /\ locking(p) \in Nat /\ trying(p) \in Nat /\ Logins \in Nat
        /\ IsFiniteSet(Uncounted(p)) /\ IsFiniteSet(Locking(p)) /\ IsFiniteSet(Trying(p))
    BY <1>1, WorkerCounts DEF uncounted, locking, trying
  <1>3. uncounted(p) + locking(p) + trying(p) <= Logins
    <2> DEFINE A == Uncounted(p)
               B == Locking(p)
               C == Trying(p)
    <2>1. A \cap B = {} /\ (A \cup B) \cap C = {}
      BY DEF Uncounted, Locking, Trying
    <2>2. A \cup B \cup C \in SUBSET Workers
      BY <1>1
    <2>3. Cardinality(A \cup B \cup C) <= Logins
      BY <2>2, WorkerCounts
    <2> HIDE DEF A, B, C
    <2>4. IsFiniteSet(A) /\ IsFiniteSet(B) /\ IsFiniteSet(C)
      BY <1>2 DEF A, B, C
    <2>5. IsFiniteSet(A \cup B) /\ Cardinality(A \cup B) = Cardinality(A) + Cardinality(B) - 0
      BY <2>1, <2>4, FS_Union, FS_EmptySet
    <2>6. Cardinality((A \cup B) \cup C) = Cardinality(A \cup B) + Cardinality(C) - 0
      BY <2>1, <2>4, <2>5, FS_Union, FS_EmptySet
    <2>7. Cardinality(A) = uncounted(p) /\ Cardinality(B) = locking(p) /\ Cardinality(C) = trying(p)
      BY DEF A, B, C, uncounted, locking, trying
    <2> QED BY <1>2, <2>3, <2>5, <2>6, <2>7
  <1>4. ASSUME NEW t \in Nat
        PROVE  /\ since(p, t) \in Nat /\ span(p, t) \in Nat /\ span(p, t) <= since(p, t)
               /\ now \in Nat /\ t > now => since(p, t) = 0
    <2>1. Since(p, t) \in SUBSET tries /\ TriesFrom(p, t) \in SUBSET Since(p, t)
      BY DEF Since, TriesFrom
    <2>2. IsFiniteSet(Since(p, t)) /\ IsFiniteSet(TriesFrom(p, t))
      BY <2>1, FS_Subset DEF HistoryType
    <2>3. now \in Nat /\ t > now => Since(p, t) = {}
      <3>1. \A x \in tries : x.at \in 0..now
        BY DEF HistoryType
      <3> QED BY <3>1 DEF Since
    <2> QED BY <2>1, <2>2, <2>3, FS_Subset, FS_CardinalityType, FS_EmptySet DEF since, span
  <1>5. lost \in Nat
    BY Limits DEF HistoryType
  <1> QED BY <1>2, <1>3, <1>4, <1>5

\* The same after a step.
LEMMA NumbersNext ==
  ASSUME HistoryType', NEW p \in Pairs
  PROVE  /\ uncounted(p)' \in Nat /\ locking(p)' \in Nat /\ trying(p)' \in Nat
         /\ \A t \in Nat : since(p, t)' \in Nat /\ span(p, t)' \in Nat
         /\ lost' \in Nat
  <1>1. /\ Uncounted(p)' \in SUBSET Workers /\ Locking(p)' \in SUBSET Workers
        /\ Trying(p)' \in SUBSET Workers
    BY DEF Uncounted, Locking, Trying
  <1>2. uncounted(p)' \in Nat /\ locking(p)' \in Nat /\ trying(p)' \in Nat
    BY <1>1, WorkerCounts DEF uncounted, locking, trying
  <1>3. ASSUME NEW t \in Nat PROVE since(p, t)' \in Nat /\ span(p, t)' \in Nat
    <2>1. Since(p, t)' \in SUBSET tries' /\ TriesFrom(p, t)' \in SUBSET tries'
      BY DEF Since, TriesFrom
    <2>2. IsFiniteSet(Since(p, t)') /\ IsFiniteSet(TriesFrom(p, t)')
      BY <2>1, FS_Subset DEF HistoryType
    <2> QED BY <2>2, FS_CardinalityType DEF since, span
  <1>4. lost' \in Nat
    BY Limits DEF HistoryType
  <1> QED BY <1>2, <1>3, <1>4

\* A step of one login: nothing changes for the others.
Bystanders(w) ==
    \A v \in Workers \ {w} : stage'[v] = stage[v] /\ login'[v] = login[v] /\ seen'[v] = seen[v]

\* It moves the numbers of a pair by that login only.
LEMMA OneLoginMoves ==
  ASSUME NEW w \in Workers, NEW p \in Pairs, Bystanders(w)
  PROVE  /\ uncounted(p) \in Nat /\ uncounted(p)' \in Nat
         /\ locking(p) \in Nat /\ locking(p)' \in Nat
         /\ trying(p) \in Nat /\ trying(p)' \in Nat
         /\ (w \in Uncounted(p) <=> w \in Uncounted(p)') => uncounted(p)' = uncounted(p)
         /\ w \in Uncounted(p) /\ w \notin Uncounted(p)' => uncounted(p)' + 1 = uncounted(p)
         /\ w \notin Uncounted(p) /\ w \in Uncounted(p)' => uncounted(p)' = uncounted(p) + 1
         /\ (w \in Locking(p) <=> w \in Locking(p)') => locking(p)' = locking(p)
         /\ w \in Locking(p) /\ w \notin Locking(p)' => locking(p)' + 1 = locking(p)
         /\ w \notin Locking(p) /\ w \in Locking(p)' => locking(p)' = locking(p) + 1
         /\ (w \in Trying(p) <=> w \in Trying(p)') => trying(p)' = trying(p)
         /\ w \in Trying(p) /\ w \notin Trying(p)' => trying(p)' + 1 = trying(p)
         /\ w \notin Trying(p) /\ w \in Trying(p)' => trying(p)' = trying(p) + 1
  <1>1. /\ Uncounted(p) \in SUBSET Workers /\ Uncounted(p)' \in SUBSET Workers
        /\ Uncounted(p) \ {w} = Uncounted(p)' \ {w}
    BY DEF Uncounted, Bystanders
  <1>2. /\ Locking(p) \in SUBSET Workers /\ Locking(p)' \in SUBSET Workers
        /\ Locking(p) \ {w} = Locking(p)' \ {w}
    BY DEF Locking, Bystanders
  <1>3. /\ Trying(p) \in SUBSET Workers /\ Trying(p)' \in SUBSET Workers
        /\ Trying(p) \ {w} = Trying(p)' \ {w}
    BY DEF Trying, Bystanders
  <1> QED BY <1>1, <1>2, <1>3, CountWithout DEF uncounted, locking, trying

-----------------------------------------------------------------------------
(* The bound on the tries at a pair: the inductive invariant, for a pair   *)
(* nobody has logged in to.                                                *)

\* What the counter of p has counted from t on, as far as it is below the limit.
Counted(p, t) ==
    IF count[p] = 0 \/ countEnd[p] < t + Window THEN 0
    ELSE IF count[p] < MaxFailed THEN count[p] ELSE MaxFailed - 1

\* What was tried after the counter of p was set is counted, or about to be.
TriesAreCounted(p, t) ==
    count[p] # 0 /\ countEnd[p] < t + Window =>
        since(p, t) + 1 <= count[p] + uncounted(p) + lost

\* While there is no lock, what is not counted is about to be, or to lock.
UnlockedBound(p, t) ==
    lock[p] = 0 /\ t <= now /\ now < t + Window =>
        since(p, t) <= Before + Counted(p, t) + uncounted(p) + locking(p) + lost

\* From the moment a lock was set only logins that were past it try.
LockedBefore(p, t) ==
    lock[p] # 0 /\ lock[p] < t + Window => since(p, t) + trying(p) + 1 <= Logins + lost

\* A lock that was set later came after no more tries than that.
LockedSince(p, t) ==
    lock[p] # 0 /\ lock[p] >= t + Window /\ now < t + Window =>
        since(p, t) + trying(p) <= Before + (MaxFailed - 1) + Logins + lost

\* A span that is over.
PastBound(p, t) ==
    now >= t + Window => span(p, t) <= Before + (MaxFailed - 1) + Logins + lost

BoundAt(p) ==
    \A t \in Nat : /\ TriesAreCounted(p, t) /\ UnlockedBound(p, t)
                   /\ LockedBefore(p, t) /\ LockedSince(p, t) /\ PastBound(p, t)

BoundInv == \A p \in Pairs \ known : BoundAt(p)

\* What may have been tried before the last count of a span begins.
LEMMA BeforeFacts ==
  /\ Before \in Nat /\ Before + 2 >= MaxFailed /\ Before + 1 >= Logins
  /\ Logins \in Nat
  <1>1. Logins \in Nat
    BY WorkerCounts
  <1> QED BY <1>1, Limits DEF Before, Logins

\* The times of a pair.
LEMMA TimesOf ==
  ASSUME StoreType, NEW p \in Pairs
  PROVE  /\ p \in Keys /\ now \in Nat
         /\ count[p] \in Nat /\ countEnd[p] \in Nat /\ lock[p] \in Nat
         /\ (count[p] = 0) = (countEnd[p] = 0)
         /\ countEnd[p] # 0 => countEnd[p] >= now + 1
         /\ lock[p] # 0 => lock[p] >= now + 1
  <1>1. p \in Keys
    BY DEF Pairs, Keys
  <1> QED BY <1>1, Limits DEF StoreType, Times

\* The invariant is enough: a span that has not begun has no tries, and one that is
\* under way is covered by the lock or by the counter.
LEMMA BoundSuffices ==
  ASSUME StoreType, HistoryType, NEW p \in Pairs, BoundAt(p), NEW t \in Nat
  PROVE  span(p, t) <= Before + (MaxFailed - 1) + Logins + lost
  <1> USE Limits, BeforeFacts, TimesOf, Numbers
  <1>1. CASE now >= t + Window
    BY <1>1 DEF BoundAt, PastBound
  <1>2. CASE t > now
    <2>1. since(p, t) = 0 /\ span(p, t) <= since(p, t)
      BY <1>2
    <2> QED BY <2>1
  <1>3. CASE t <= now /\ now < t + Window
    <2>1. CASE lock[p] = 0
      <3>1. since(p, t) <= Before + Counted(p, t) + uncounted(p) + locking(p) + lost
        BY <1>3, <2>1 DEF BoundAt, UnlockedBound
      <3>2. Counted(p, t) \in Nat /\ Counted(p, t) <= MaxFailed - 1
        BY DEF Counted
      <3> QED BY <3>1, <3>2
    <2>2. CASE lock[p] # 0 /\ lock[p] < t + Window
      BY <1>3, <2>2 DEF BoundAt, LockedBefore
    <2>3. CASE lock[p] # 0 /\ lock[p] >= t + Window
      BY <1>3, <2>3 DEF BoundAt, LockedSince
    <2> QED BY <2>1, <2>2, <2>3
  <1> QED BY <1>1, <1>2, <1>3

-----------------------------------------------------------------------------
(* The steps that keep the bound.                                          *)

\* Nothing happens to the counter and the lock of p and nothing is tried on it, and
\* a login that stops counting or locking, or starts behind a lock, is lost.
Quiet(p) ==
    /\ UNCHANGED <<now, count[p], countEnd[p], lock[p]>>
    /\ \A t \in Nat : UNCHANGED <<since(p, t), span(p, t)>>
    /\ lost <= lost'
    /\ lock[p] # 0 => trying(p)' + lost <= trying(p) + lost'
    /\ uncounted(p) + lost <= uncounted(p)' + lost'
    /\ uncounted(p) + locking(p) + lost <= uncounted(p)' + locking(p)' + lost'

\* Such a step keeps the bound.
LEMMA QuietKeepsBound ==
  ASSUME StoreType, HistoryType, HistoryType', NEW p \in Pairs, BoundAt(p), Quiet(p)
  PROVE  BoundAt(p)'
  <1> SUFFICES ASSUME NEW t \in Nat
               PROVE  /\ TriesAreCounted(p, t)' /\ UnlockedBound(p, t)'
                      /\ LockedBefore(p, t)' /\ LockedSince(p, t)' /\ PastBound(p, t)'
    BY DEF BoundAt
  <1>1. /\ TriesAreCounted(p, t) /\ UnlockedBound(p, t)
        /\ LockedBefore(p, t) /\ LockedSince(p, t) /\ PastBound(p, t)
    BY DEF BoundAt
  <1>2. /\ now \in Nat /\ count[p] \in Nat /\ countEnd[p] \in Nat /\ lock[p] \in Nat
        /\ since(p, t) \in Nat /\ span(p, t) \in Nat
        /\ uncounted(p) \in Nat /\ locking(p) \in Nat /\ trying(p) \in Nat /\ lost \in Nat
    BY TimesOf, Numbers
  <1>3. /\ uncounted(p)' \in Nat /\ locking(p)' \in Nat /\ trying(p)' \in Nat /\ lost' \in Nat
    BY NumbersNext
  <1>4. /\ now' = now /\ count'[p] = count[p] /\ countEnd'[p] = countEnd[p] /\ lock'[p] = lock[p]
        /\ since(p, t)' = since(p, t) /\ span(p, t)' = span(p, t)
        /\ lost <= lost'
        /\ lock[p] # 0 => trying(p)' + lost <= trying(p) + lost'
        /\ uncounted(p) + lost <= uncounted(p)' + lost'
        /\ uncounted(p) + locking(p) + lost <= uncounted(p)' + locking(p)' + lost'
    BY DEF Quiet
  <1>5. Counted(p, t)' = Counted(p, t) /\ Counted(p, t) \in Nat
    BY <1>2, <1>4, Limits DEF Counted
  <1>6. TriesAreCounted(p, t)'
    BY <1>1, <1>2, <1>3, <1>4, Limits DEF TriesAreCounted
  <1>7. UnlockedBound(p, t)'
    BY <1>1, <1>2, <1>3, <1>4, <1>5, Limits, BeforeFacts DEF UnlockedBound
  <1>8. LockedBefore(p, t)' /\ LockedSince(p, t)'
    BY <1>1, <1>2, <1>3, <1>4, Limits, BeforeFacts DEF LockedBefore, LockedSince
  <1>9. PastBound(p, t)'
    BY <1>1, <1>2, <1>3, <1>4, Limits, BeforeFacts DEF PastBound
  <1> QED BY <1>6, <1>7, <1>8, <1>9

\* A step of one login that leaves a pair alone.
LEMMA QuietLogin ==
  ASSUME HistoryType, HistoryType', NEW w \in Workers, NEW p \in Pairs, Bystanders(w),
         UNCHANGED <<now, count[p], countEnd[p], lock[p]>>,
         \A t \in Nat : UNCHANGED <<since(p, t), span(p, t)>>,
         lost <= lost',
         w \in Uncounted(p) => w \in Uncounted(p)' \/ lost + 1 <= lost',
         w \in Locking(p) => w \in Locking(p)' \/ lost + 1 <= lost',
         lock[p] # 0 /\ w \in Trying(p)' => w \in Trying(p) \/ lost + 1 <= lost'
  PROVE  Quiet(p)
  <1>1. ~(w \in Uncounted(p) /\ w \in Locking(p)) /\ ~(w \in Uncounted(p)' /\ w \in Locking(p)')
    BY DEF Uncounted, Locking
  <1>2. lost \in Nat /\ lost' \in Nat
    BY Numbers, NumbersNext
  <1> QED BY <1>1, <1>2, OneLoginMoves DEF Quiet

\* The tries at a pair stay when no other is added.
LEMMA SameTries ==
  ASSUME NEW p \in Pairs,
         \/ tries' = tries
         \/ \E x : tries' = tries \cup {x} /\ (x.pair # p \/ x.ending)
  PROVE  \A t \in Nat : UNCHANGED <<since(p, t), span(p, t)>>
  <1>1. \A t \in Nat : Since(p, t)' = Since(p, t) /\ TriesFrom(p, t)' = TriesFrom(p, t)
    BY DEF Since, TriesFrom
  <1> QED BY <1>1 DEF since, span

\* What a login that is under way leaves alone when it is at another pair.
LEMMA Elsewhere ==
  ASSUME LoginType, LoginType', HistoryType, HistoryType',
         NEW w \in Workers, NEW p \in Pairs, Bystanders(w),
         login[w] # p, login'[w] \in {login[w], Nobody},
         UNCHANGED <<now, count[p], countEnd[p], lock[p]>>,
         \A t \in Nat : UNCHANGED <<since(p, t), span(p, t)>>, lost <= lost'
  PROVE  Quiet(p)
  <1>1. p # Nobody
    BY LoginThrottleAssumption DEF Pairs, Nobody
  <1>2. /\ w \notin Uncounted(p) /\ w \notin Locking(p) /\ w \notin Trying(p)
        /\ w \notin Uncounted(p)' /\ w \notin Locking(p)' /\ w \notin Trying(p)'
    BY <1>1 DEF Uncounted, Locking, Trying
  <1> QED BY <1>2, QuietLogin

\* The steps of one login, and what they are about.
LEMMA LoginSteps ==
  ASSUME LoginType, NEW w \in Workers,
         \/ \E p \in Pairs, read \in BOOLEAN : Start(w, p, read)
         \/ \E solved \in CaptchaAnswers : Assess(w, solved)
         \/ WrongPassword(w)
         \/ \E active \in BOOLEAN : RightPassword(w, active)
         \/ IncrementAddress(w) \/ IncrementPair(w)
         \/ LockAddress(w) \/ LockPair(w)
         \/ ClearFailedAttempts(w) \/ Fail(w)
  PROVE  Bystanders(w) /\ now' = now
  BY DEF Bystanders, LoginType, Start, Assess, WrongPassword, RightPassword, IncrementAddress,
         IncrementPair, LockAddress, LockPair, ClearFailedAttempts, Fail, Goto, Done, locals

\* A new login tries behind the locks, unless it found one that was about to end, or its
\* read of them failed.
LEMMA StartKeepsBound ==
  ASSUME StoreType, LoginType, HistoryType, HistoryType', NEW w \in Workers, NEW q \in Pairs,
         NEW read \in BOOLEAN, Start(w, q, read), NEW p \in Pairs, BoundAt(p)
  PROVE  BoundAt(p)'
  <1>1. Bystanders(w)
    BY LoginSteps
  <1>2. /\ w \notin Uncounted(p) /\ w \notin Locking(p)
        /\ UNCHANGED <<now, count, countEnd, lock, tries>>
        /\ lost' = IF read THEN lost ELSE lost + 1
    BY DEF Start, Uncounted, Locking, redis
  <1>3. ASSUME lock[p] # 0, w \in Trying(p)' PROVE lost' = lost + 1
    <2>1. q = p /\ ~seen'[w].ending
      BY <1>3 DEF Trying, Start, LoginType
    <2>2. seen'[w].ending = (read /\ lock[q] # 0)
      BY DEF Start, LoginType
    <2> QED BY <1>2, <1>3, <2>1, <2>2
  <1>4. lost \in Nat
    BY Numbers
  <1>5. Quiet(p)
    BY <1>1, <1>2, <1>3, <1>4, SameTries, QuietLogin
  <1> QED BY <1>5, QuietKeepsBound

\* The CAPTCHA and a right password stop logins or let them go on.
LEMMA PassKeepsBound ==
  ASSUME StoreType, LoginType, HistoryType, HistoryType', NEW w \in Workers,
         \/ \E solved \in CaptchaAnswers : Assess(w, solved)
         \/ \E active \in BOOLEAN : RightPassword(w, active),
         NEW p \in Pairs, BoundAt(p)
  PROVE  BoundAt(p)'
  <1>1. Bystanders(w)
    BY LoginSteps
  <1>2. /\ UNCHANGED <<now, count, countEnd, lock, tries, lost>>
        /\ stage[w] \in {"assess", "verify"}
        /\ Done(w) \/ UNCHANGED <<login, seen>>
    BY DEF Assess, RightPassword, redis, history, locals
  <1>3. p # Nobody
    BY LoginThrottleAssumption DEF Pairs, Nobody
  <1>4. w \notin Uncounted(p) /\ w \notin Locking(p) /\ (w \in Trying(p)' => w \in Trying(p))
    BY <1>2, <1>3 DEF Uncounted, Locking, Trying, LoginType, Done
  <1>5. Quiet(p)
    <2>1. lost <= lost'
      BY <1>2, Numbers
    <2> QED BY <1>1, <1>2, <1>4, <2>1, SameTries, QuietLogin
  <1> QED BY <1>5, QuietKeepsBound

\* A wrong password: the login no longer may try, and has one to count.
LEMMA WrongPasswordKeepsBound ==
  ASSUME StoreType, LoginType, LoginType', HistoryType, HistoryType', NEW w \in Workers,
         WrongPassword(w), NEW p \in Pairs, BoundAt(p)
  PROVE  BoundAt(p)'
  <1> DEFINE x == [pair |-> Pair(w), at |-> now, nr |-> Cardinality(TriesAt(Pair(w), now)),
                   ending |-> seen[w].ending]
  <1>1. Bystanders(w) /\ UNCHANGED <<now, count, countEnd, lock, login, seen, lost>>
    BY LoginSteps DEF WrongPassword, redis, locals
  <1>2. tries' = tries \cup {x} /\ x.pair = login[w] /\ x.at = now /\ x.ending = seen[w].ending
    BY DEF WrongPassword, Pair
  <1> HIDE DEF x
  <1>3. CASE login[w] # p
    <2>1. \A t \in Nat : UNCHANGED <<since(p, t), span(p, t)>>
      BY <1>2, <1>3, SameTries
    <2>2. Quiet(p)
      <3>1. lost <= lost'
        BY <1>1, Numbers
      <3> QED BY <1>1, <1>3, <2>1, <3>1, Elsewhere
    <2> QED BY <2>2, QuietKeepsBound
  <1>4. CASE login[w] = p /\ seen[w].ending
    <2>1. \A t \in Nat : UNCHANGED <<since(p, t), span(p, t)>>
      BY <1>2, <1>4, SameTries
    <2>2. w \in Uncounted(p)' /\ w \notin Locking(p) /\ w \notin Trying(p)'
      BY <1>1, <1>4 DEF WrongPassword, Goto, LoginType, Uncounted, Locking, Trying
    <2>3. lost <= lost'
      BY <1>1, Numbers
    <2>4. Quiet(p)
      BY <1>1, <2>1, <2>2, <2>3, QuietLogin
    <2> QED BY <2>4, QuietKeepsBound
  <1>5. CASE login[w] = p /\ ~seen[w].ending
    <2>1. /\ w \notin Uncounted(p) /\ w \in Uncounted(p)'
          /\ w \notin Locking(p) /\ w \notin Locking(p)'
          /\ w \in Trying(p) /\ w \notin Trying(p)'
      BY <1>1, <1>5 DEF WrongPassword, Goto, LoginType, Uncounted, Locking, Trying
    <2>2. /\ uncounted(p)' = uncounted(p) + 1 /\ locking(p)' = locking(p)
          /\ trying(p)' + 1 = trying(p)
      BY <1>1, <2>1, OneLoginMoves
    <2>3. ASSUME NEW t \in Nat
          PROVE  /\ since(p, t)' <= since(p, t) + 1
                 /\ now >= t + Window => span(p, t)' = span(p, t)
      <3>1. IsFiniteSet(Since(p, t)) /\ Since(p, t)' \subseteq Since(p, t) \cup {x}
        <4>1. Since(p, t) \in SUBSET tries
          BY DEF Since
        <4> QED BY <1>2, <4>1, FS_Subset DEF Since, HistoryType
      <3>2. /\ IsFiniteSet(Since(p, t) \cup {x})
            /\ Cardinality(Since(p, t) \cup {x}) <= Cardinality(Since(p, t)) + 1
        <4>1. /\ IsFiniteSet(Since(p, t) \cup {x})
              /\ Cardinality(Since(p, t) \cup {x}) =
                    IF x \in Since(p, t) THEN Cardinality(Since(p, t))
                                         ELSE Cardinality(Since(p, t)) + 1
          BY <3>1, FS_AddElement
        <4>2. Cardinality(Since(p, t)) \in Nat
          BY <3>1, FS_CardinalityType
        <4> QED BY <4>1, <4>2
      <3>3. since(p, t)' <= Cardinality(Since(p, t) \cup {x})
        BY <3>1, <3>2, FS_Subset DEF since
      <3>4. now >= t + Window => TriesFrom(p, t)' = TriesFrom(p, t)
        BY <1>2, Limits, TimesOf DEF TriesFrom
      <3>5. Cardinality(Since(p, t) \cup {x}) \in Nat /\ Cardinality(Since(p, t)) \in Nat
        BY <3>1, <3>2, FS_CardinalityType
      <3>6. since(p, t) = Cardinality(Since(p, t))
        BY DEF since
      <3>7. since(p, t)' \in Nat
        BY NumbersNext
      <3>8. now >= t + Window => span(p, t)' = span(p, t)
        BY <3>4 DEF span
      <3> QED BY <3>2, <3>3, <3>5, <3>6, <3>7, <3>8
    <2> SUFFICES ASSUME NEW t \in Nat
                 PROVE  /\ TriesAreCounted(p, t)' /\ UnlockedBound(p, t)'
                        /\ LockedBefore(p, t)' /\ LockedSince(p, t)' /\ PastBound(p, t)'
      BY DEF BoundAt
    <2>4. /\ TriesAreCounted(p, t) /\ UnlockedBound(p, t)
          /\ LockedBefore(p, t) /\ LockedSince(p, t) /\ PastBound(p, t)
      BY DEF BoundAt
    <2>5. /\ since(p, t) \in Nat /\ since(p, t)' \in Nat /\ span(p, t) \in Nat
          /\ uncounted(p) \in Nat /\ locking(p) \in Nat /\ trying(p) \in Nat
          /\ trying(p)' \in Nat /\ lost \in Nat
      BY Numbers, NumbersNext
    <2>6. /\ now \in Nat /\ count[p] \in Nat /\ countEnd[p] \in Nat /\ lock[p] \in Nat
          /\ count'[p] = count[p] /\ countEnd'[p] = countEnd[p] /\ lock'[p] = lock[p]
          /\ now' = now /\ lost' = lost
      BY <1>1, TimesOf
    <2>7. Counted(p, t)' = Counted(p, t) /\ Counted(p, t) \in Nat
      BY <2>6, Limits DEF Counted
    <2> HIDE DEF x
    <2>8. TriesAreCounted(p, t)' /\ UnlockedBound(p, t)'
      BY <2>2, <2>3, <2>4, <2>5, <2>6, <2>7, Limits, BeforeFacts DEF TriesAreCounted, UnlockedBound
    <2>9. LockedBefore(p, t)' /\ LockedSince(p, t)'
      BY <2>2, <2>3, <2>4, <2>5, <2>6, Limits, BeforeFacts DEF LockedBefore, LockedSince
    <2>10. PastBound(p, t)'
      BY <2>2, <2>3, <2>4, <2>5, <2>6, Limits, BeforeFacts DEF PastBound
    <2> QED BY <2>8, <2>9, <2>10
  <1> QED BY <1>3, <1>4, <1>5

\* A failure is counted for the address: nothing changes for any pair.
LEMMA IncrementAddressKeepsBound ==
  ASSUME StoreType, LoginType, HistoryType, HistoryType', NEW w \in Workers,
         IncrementAddress(w), NEW p \in Pairs, BoundAt(p)
  PROVE  BoundAt(p)'
  <1>1. Bystanders(w)
    BY LoginSteps
  <1>2. Address(w) # p
    BY KeysOf DEF IncrementAddress
  <1>3. /\ UNCHANGED <<now, count[p], countEnd[p], lock[p]>>
        /\ UNCHANGED <<tries, lost, login>>
    BY <1>2, TimesOf DEF IncrementAddress, Increment, StoreType, history
  <1>4. stage[w] = "incr.address" /\ stage'[w] = "incr.pair"
    BY DEF IncrementAddress, Goto, LoginType
  <1>5. /\ w \in Uncounted(p) => w \in Uncounted(p)'
        /\ w \notin Locking(p) /\ w \notin Trying(p)'
    BY <1>3, <1>4 DEF Uncounted, Locking, Trying
  <1>6. lost <= lost'
    BY <1>3, Numbers
  <1>7. Quiet(p)
    BY <1>1, <1>3, <1>5, <1>6, SameTries, QuietLogin
  <1> QED BY <1>7, QuietKeepsBound

\* A failure is counted for the pair: a count that reaches the limit is followed by
\* a lock.
LEMMA IncrementPairKeepsBound ==
  ASSUME StoreType, LoginType, LoginType', HistoryType, HistoryType', NEW w \in Workers,
         IncrementPair(w), NEW p \in Pairs, BoundAt(p)
  PROVE  BoundAt(p)'
  <1>1. Bystanders(w) /\ UNCHANGED <<now, lock, tries, known, lost>>
    BY LoginSteps DEF IncrementPair, Increment, history
  <1>2. login[w] \in Pairs /\ p # Nobody /\ p \in Keys
    BY KeysOf, TimesOf, LoginThrottleAssumption DEF IncrementPair, Pairs, Nobody
  <1>3. login'[w] \in {login[w], Nobody}
    BY DEF IncrementPair, Done, LoginType
  <1>4. \A t \in Nat : UNCHANGED <<since(p, t), span(p, t)>>
    BY <1>1, SameTries
  <1>5. CASE login[w] # p
    <2>1. count'[p] = count[p] /\ countEnd'[p] = countEnd[p]
      BY <1>2, <1>5 DEF IncrementPair, Increment, Pair, StoreType
    <2>2. lost <= lost'
      BY <1>1, Numbers
    <2>3. Quiet(p)
      BY <1>1, <1>3, <1>4, <1>5, <2>1, <2>2, Elsewhere
    <2> QED BY <2>3, QuietKeepsBound
  <1>6. CASE login[w] = p
    <2>1. /\ count'[p] = count[p] + 1
          /\ countEnd'[p] = IF count[p] = 0 THEN now + Window ELSE countEnd[p]
      BY <1>2, <1>6 DEF IncrementPair, Increment, Pair, StoreType
    <2>2. /\ w \in Uncounted(p) /\ w \notin Uncounted(p)'
          /\ w \notin Locking(p) /\ w \notin Trying(p) /\ w \notin Trying(p)'
      BY <1>6 DEF IncrementPair, Done, Goto, LoginType, Uncounted, Locking, Trying
    <2>3. Reached(count[p] + 1) => w \in Locking(p)'
      <3> DEFINE n == [seen[w] EXCEPT !.pair = count[Pair(w)] + 1]
      <3>1. n.pair = count[p] + 1
        BY <1>6 DEF Pair, LoginType
      <3>2. Reached(n.pair) => /\ seen' = [seen EXCEPT ![w] = n] /\ login' = login
                               /\ Goto(w, "lock.address") \/ Goto(w, "lock.pair")
        BY DEF IncrementPair
      <3> HIDE DEF n
      <3>3. Reached(n.pair) => /\ seen'[w] = n /\ login'[w] = p
                               /\ stage'[w] \in {"lock.address", "lock.pair"}
        BY <1>6, <3>2 DEF Goto, LoginType
      <3> QED BY <3>1, <3>3 DEF Locking
    <2>4. /\ uncounted(p)' + 1 = uncounted(p) /\ trying(p)' = trying(p)
          /\ locking(p)' \in {locking(p), locking(p) + 1}
          /\ Reached(count[p] + 1) => locking(p)' = locking(p) + 1
      BY <1>1, <2>2, <2>3, OneLoginMoves
    <2> SUFFICES ASSUME NEW t \in Nat
                 PROVE  /\ TriesAreCounted(p, t)' /\ UnlockedBound(p, t)'
                        /\ LockedBefore(p, t)' /\ LockedSince(p, t)' /\ PastBound(p, t)'
      BY DEF BoundAt
    <2> USE <1>1, <1>4, <2>1, <2>4, Limits, BeforeFacts, TimesOf, Numbers, NumbersNext
    <2>5. TriesAreCounted(p, t)'
      <3>1. TriesAreCounted(p, t)
        BY DEF BoundAt
      <3>2. CASE count[p] = 0
        <4>1. countEnd'[p] < t + Window => since(p, t) = 0
          BY <3>2
        <4> QED BY <3>2, <4>1 DEF TriesAreCounted
      <3>3. CASE count[p] # 0
        BY <3>1, <3>3 DEF TriesAreCounted
      <3> QED BY <3>2, <3>3
    <2>6. UnlockedBound(p, t)'
      <3> SUFFICES ASSUME lock[p] = 0, t <= now, now < t + Window
                   PROVE  since(p, t) <= Before + Counted(p, t)' + uncounted(p)' + locking(p)' + lost
        BY DEF UnlockedBound
      <3>1. since(p, t) <= Before + Counted(p, t) + uncounted(p) + locking(p) + lost
        BY DEF BoundAt, UnlockedBound
      <3>2. CASE count[p] = 0
        <4>1. Counted(p, t) = 0 /\ Counted(p, t)' = 1
          BY <3>2 DEF Counted
        <4> QED BY <3>1, <4>1
      <3>3. CASE count[p] # 0 /\ countEnd[p] < t + Window
        <4>1. Counted(p, t) = 0 /\ Counted(p, t)' = 0
          BY <3>3 DEF Counted
        <4>2. since(p, t) + 1 <= count[p] + uncounted(p) + lost
          BY <3>3 DEF BoundAt, TriesAreCounted
        <4> QED BY <3>1, <4>1, <4>2 DEF Reached
      <3>4. CASE count[p] # 0 /\ ~(countEnd[p] < t + Window)
        <4>1. /\ Counted(p, t) = IF count[p] < MaxFailed THEN count[p] ELSE MaxFailed - 1
              /\ Counted(p, t)' = IF count[p] + 1 < MaxFailed THEN count[p] + 1 ELSE MaxFailed - 1
          BY <3>4 DEF Counted
        <4> QED BY <3>1, <4>1 DEF Reached
      <3> QED BY <3>2, <3>3, <3>4
    <2>7. LockedBefore(p, t)' /\ LockedSince(p, t)'
      BY DEF BoundAt, LockedBefore, LockedSince
    <2>8. PastBound(p, t)'
      BY DEF BoundAt, PastBound
    <2> QED BY <2>5, <2>6, <2>7, <2>8
  <1> QED BY <1>5, <1>6

\* The address is locked, and a login that has to lock the pair as well goes on to.
LEMMA LockAddressKeepsBound ==
  ASSUME StoreType, LoginType, HistoryType, HistoryType', NEW w \in Workers,
         LockAddress(w), NEW p \in Pairs, BoundAt(p)
  PROVE  BoundAt(p)'
  <1>1. Bystanders(w)
    BY LoginSteps
  <1>2. Address(w) # p
    BY KeysOf DEF LockAddress
  <1>3. /\ UNCHANGED <<now, count[p], countEnd[p], lock[p]>>
        /\ UNCHANGED <<tries, lost>>
    BY <1>2, TimesOf DEF LockAddress, SetLock, StoreType, history
  <1>4. p # Nobody
    BY LoginThrottleAssumption DEF Pairs, Nobody
  <1>5. /\ w \notin Uncounted(p) /\ w \notin Trying(p)'
        /\ w \in Locking(p) => w \in Locking(p)'
    BY <1>4 DEF LockAddress, PairToo, Goto, Done, LoginType, Uncounted, Locking, Trying, locals
  <1>6. lost <= lost'
    BY <1>3, Numbers
  <1>7. Quiet(p)
    BY <1>1, <1>3, <1>5, <1>6, SameTries, QuietLogin
  <1> QED BY <1>7, QuietKeepsBound

\* A lock is set: whoever may still try is one of the others.
LEMMA LockPairKeepsBound ==
  ASSUME StoreType, LoginType, LoginType', HistoryType, HistoryType', NEW w \in Workers,
         LockPair(w), Reached(seen[w].pair), NEW p \in Pairs, BoundAt(p)
  PROVE  BoundAt(p)'
  <1>1. Bystanders(w) /\ UNCHANGED <<now, count, countEnd, tries, lost>>
    BY LoginSteps DEF LockPair, history
  <1>2. login[w] \in Pairs /\ p # Nobody /\ p \in Keys
    BY KeysOf, TimesOf, LoginThrottleAssumption DEF LockPair, Pairs, Nobody
  <1>3. login'[w] = Nobody
    BY DEF LockPair, Done, LoginType
  <1>4. \A t \in Nat : UNCHANGED <<since(p, t), span(p, t)>>
    BY <1>1, SameTries
  <1>5. CASE login[w] # p
    <2>1. lock'[p] = lock[p]
      BY <1>2, <1>5 DEF LockPair, SetLock, Pair, StoreType
    <2>2. lost <= lost'
      BY <1>1, Numbers
    <2>3. Quiet(p)
      BY <1>1, <1>3, <1>4, <1>5, <2>1, <2>2, Elsewhere
    <2> QED BY <2>3, QuietKeepsBound
  <1>6. CASE login[w] = p
    <2>1. lock'[p] = IF lock[p] = 0 THEN now + Window ELSE lock[p]
      BY <1>2, <1>6 DEF LockPair, SetLock, Pair, StoreType
    <2>2. /\ w \notin Uncounted(p) /\ w \notin Uncounted(p)'
          /\ w \in Locking(p) /\ w \notin Locking(p)'
          /\ w \notin Trying(p) /\ w \notin Trying(p)'
      BY <1>2, <1>3, <1>6 DEF LockPair, LoginType, Uncounted, Locking, Trying
    <2>3. /\ uncounted(p)' = uncounted(p) /\ trying(p)' = trying(p)
          /\ locking(p)' + 1 = locking(p)
      BY <1>1, <2>2, OneLoginMoves
    <2> SUFFICES ASSUME NEW t \in Nat
                 PROVE  /\ TriesAreCounted(p, t)' /\ UnlockedBound(p, t)'
                        /\ LockedBefore(p, t)' /\ LockedSince(p, t)' /\ PastBound(p, t)'
      BY DEF BoundAt
    <2> USE <1>1, <1>4, <2>1, <2>3, Limits, BeforeFacts, TimesOf, Numbers, NumbersNext
    <2>4. TriesAreCounted(p, t)'
      <3>1. TriesAreCounted(p, t)
        BY DEF BoundAt
      <3> QED BY <3>1 DEF TriesAreCounted
    <2>5. UnlockedBound(p, t)'
      BY DEF UnlockedBound
    <2>6. LockedBefore(p, t)'
      <3>1. CASE lock[p] = 0
        <4>1. lock'[p] < t + Window => since(p, t) = 0
          BY <3>1
        <4>2. trying(p) + 1 <= Logins
          OBVIOUS
        <4> QED BY <4>1, <4>2 DEF LockedBefore
      <3>2. CASE lock[p] # 0
        BY <3>2 DEF BoundAt, LockedBefore
      <3> QED BY <3>1, <3>2
    <2>7. LockedSince(p, t)'
      <3>1. CASE lock[p] = 0
        <4> SUFFICES ASSUME t <= now, now < t + Window
                     PROVE  since(p, t) + trying(p) <= Before + (MaxFailed - 1) + Logins + lost
          BY <3>1 DEF LockedSince
        <4>1. since(p, t) <= Before + Counted(p, t) + uncounted(p) + locking(p) + lost
          BY <3>1 DEF BoundAt, UnlockedBound
        <4>2. Counted(p, t) \in Nat /\ Counted(p, t) <= MaxFailed - 1
          BY DEF Counted
        <4> QED BY <4>1, <4>2
      <3>2. CASE lock[p] # 0
        BY <3>2 DEF BoundAt, LockedSince
      <3> QED BY <3>1, <3>2
    <2>8. PastBound(p, t)'
      BY DEF BoundAt, PastBound
    <2> QED BY <2>4, <2>5, <2>6, <2>7, <2>8
  <1> QED BY <1>5, <1>6

\* A success clears what is known of its own pair and address: another pair keeps its
\* counter and its lock, and its own is a pair somebody has logged in to.
LEMMA ClearKeepsBound ==
  ASSUME StoreType, LoginType, LoginType', HistoryType, HistoryType', NEW w \in Workers,
         ClearFailedAttempts(w), NEW p \in Pairs \ known', BoundAt(p)
  PROVE  BoundAt(p)'
  <1>1. Bystanders(w) /\ UNCHANGED <<now, tries, lost>>
    BY LoginSteps DEF ClearFailedAttempts
  <1>2. login[w] # p /\ Address(w) # p /\ p \in Keys
    BY KeysOf, TimesOf DEF ClearFailedAttempts, Pair
  <1>3. UNCHANGED <<count[p], countEnd[p], lock[p]>>
    BY <1>2 DEF ClearFailedAttempts, Cleared, Pair
  <1>4. login'[w] \in {login[w], Nobody}
    BY DEF ClearFailedAttempts, Done, LoginType
  <1>5. lost <= lost'
    BY <1>1, Numbers
  <1>6. Quiet(p)
    BY <1>1, <1>2, <1>3, <1>4, <1>5, SameTries, Elsewhere
  <1> QED BY <1>6, QuietKeepsBound

\* A login that dies while it records a failure is lost.
LEMMA FailKeepsBound ==
  ASSUME StoreType, LoginType, HistoryType, HistoryType', NEW w \in Workers,
         Fail(w), NEW p \in Pairs, BoundAt(p)
  PROVE  BoundAt(p)'
  <1>1. Bystanders(w)
    BY LoginSteps
  <1>2. UNCHANGED <<now, count, countEnd, lock, tries>>
    BY DEF Fail, redis
  <1>3. /\ w \in Uncounted(p) => lost + 1 <= lost'
        /\ w \in Locking(p) => lost + 1 <= lost'
    BY Numbers DEF Fail, Recording, Uncounted, Locking
  <1>4. p # Nobody
    BY LoginThrottleAssumption DEF Pairs, Nobody
  <1>5. w \notin Trying(p)' /\ lost <= lost'
    BY <1>4, Numbers DEF Fail, Done, LoginType, Trying
  <1>6. Quiet(p)
    BY <1>1, <1>2, <1>3, <1>5, SameTries, QuietLogin
  <1> QED BY <1>6, QuietKeepsBound

\* A counter that expires is older than every span that has not ended; a lock that
\* expires was set before it, so that it let no more in than were past it.
LEMMA TickKeepsBound ==
  ASSUME StoreType, HistoryType, HistoryType', Tick, NEW p \in Pairs, BoundAt(p)
  PROVE  BoundAt(p)'
  <1>1. /\ now' = now + 1 /\ UNCHANGED <<tries, known, lost, stage, login, seen>>
        /\ count'[p] = IF countEnd[p] = now + 1 THEN 0 ELSE count[p]
        /\ countEnd'[p] = IF countEnd[p] = now + 1 THEN 0 ELSE countEnd[p]
        /\ lock'[p] = IF lock[p] = now + 1 THEN 0 ELSE lock[p]
    BY TimesOf DEF Tick, history, locals
  <1>2. /\ uncounted(p)' = uncounted(p) /\ locking(p)' = locking(p) /\ trying(p)' = trying(p)
        /\ \A t \in Nat : since(p, t)' = since(p, t) /\ span(p, t)' = span(p, t)
    BY <1>1, SameTries DEF uncounted, locking, trying, Uncounted, Locking, Trying
  <1> SUFFICES ASSUME NEW t \in Nat
               PROVE  /\ TriesAreCounted(p, t)' /\ UnlockedBound(p, t)'
                      /\ LockedBefore(p, t)' /\ LockedSince(p, t)' /\ PastBound(p, t)'
    BY DEF BoundAt
  <1> USE <1>1, <1>2, Limits, BeforeFacts, TimesOf, Numbers, NumbersNext
  <1>3. TriesAreCounted(p, t)'
    <2>1. TriesAreCounted(p, t)
      BY DEF BoundAt
    <2> QED BY <2>1 DEF TriesAreCounted
  <1>4. UnlockedBound(p, t)'
    <2> SUFFICES ASSUME lock'[p] = 0, t <= now + 1, now + 1 < t + Window
                 PROVE  since(p, t) <= Before + Counted(p, t)' + uncounted(p) + locking(p) + lost
      BY DEF UnlockedBound
    <2>1. Counted(p, t)' = Counted(p, t) /\ Counted(p, t) \in Nat
      BY DEF Counted
    <2>2. CASE t = now + 1
      <3>1. since(p, t) = 0
        BY <2>2
      <3> QED BY <2>1, <3>1
    <2>3. CASE t <= now /\ lock[p] = 0
      BY <2>1, <2>3 DEF BoundAt, UnlockedBound
    <2>4. CASE t <= now /\ lock[p] # 0
      <3>1. since(p, t) + trying(p) + 1 <= Logins + lost
        BY <2>4 DEF BoundAt, LockedBefore
      <3> QED BY <2>1, <3>1
    <2> QED BY <2>2, <2>3, <2>4
  <1>5. LockedBefore(p, t)'
    BY DEF BoundAt, LockedBefore
  <1>6. LockedSince(p, t)'
    BY DEF BoundAt, LockedSince
  <1>7. PastBound(p, t)'
    <2>1. span(p, t) <= Before + (MaxFailed - 1) + Logins + lost
      BY BoundSuffices
    <2> QED BY <2>1 DEF PastBound
  <1> QED BY <1>3, <1>4, <1>5, <1>6, <1>7

\* What a login has seen when it is about to lock.
LockReason ==
    \A w \in Workers : /\ stage[w] = "lock.address" => Reached(seen[w].address)
                       /\ stage[w] = "lock.pair" => Reached(seen[w].pair)

\* A login locks what it saw reach the limit.
LEMMA StepLockReason ==
  ASSUME LoginType, LockReason, [ThrottleNext]_throttleVars
  PROVE  LockReason'
  <1>1. ASSUME NEW w \in Workers, IncrementPair(w) PROVE LockReason'
    <2> DEFINE n == [seen[w] EXCEPT !.pair = count[Pair(w)] + 1]
    <2>1. \/ /\ Reached(n.address) /\ seen'[w] = n /\ stage'[w] = "lock.address"
          \/ /\ Reached(n.pair) /\ seen'[w] = n /\ stage'[w] = "lock.pair"
          \/ stage'[w] = "idle"
      BY <1>1 DEF IncrementPair, Done, Goto, LoginType
    <2>2. Bystanders(w)
      BY <1>1, LoginSteps
    <2> HIDE DEF n
    <2> QED BY <2>1, <2>2 DEF LockReason, Bystanders
  <1>2. ASSUME NEW w \in Workers, LockAddress(w) PROVE LockReason'
    <2>1. /\ stage'[w] = "lock.pair" => Reached(seen'[w].pair)
          /\ stage'[w] # "lock.address"
      BY <1>2 DEF LockAddress, PairToo, Done, Goto, LoginType, locals
    <2>2. Bystanders(w)
      BY <1>2, LoginSteps
    <2> QED BY <2>1, <2>2 DEF LockReason, Bystanders
  <1>3. ASSUME NEW w \in Workers, Bystanders(w), stage'[w] \notin {"lock.address", "lock.pair"}
        PROVE  LockReason'
    BY <1>3 DEF LockReason, Bystanders
  <1>4. ASSUME NEW w \in Workers,
               \/ \E p \in Pairs, read \in BOOLEAN : Start(w, p, read)
               \/ \E solved \in CaptchaAnswers : Assess(w, solved)
               \/ WrongPassword(w)
               \/ \E active \in BOOLEAN : RightPassword(w, active)
               \/ IncrementAddress(w) \/ LockPair(w)
               \/ ClearFailedAttempts(w) \/ Fail(w)
        PROVE  LockReason'
    <2>1. Bystanders(w)
      BY <1>4, LoginSteps
    <2>2. stage'[w] \notin {"lock.address", "lock.pair"}
      BY <1>4 DEF Start, Assess, WrongPassword, RightPassword, IncrementAddress, LockPair,
                  ClearFailedAttempts, Fail, Goto, Done, LoginType
    <2> QED BY <1>3, <2>1, <2>2
  <1>5. CASE Tick \/ UNCHANGED throttleVars
    BY <1>5 DEF LockReason, Tick, throttleVars, locals
  <1> QED BY <1>1, <1>2, <1>4, <1>5 DEF ThrottleNext

\* Every step keeps the bound at every pair.
LEMMA StepBound ==
  ASSUME ThrottleTypeOK, ThrottleTypeOK', LockReason, BoundInv, [ThrottleNext]_throttleVars
  PROVE  BoundInv'
  <1>1. /\ StoreType /\ LoginType /\ HistoryType
        /\ StoreType' /\ LoginType' /\ HistoryType'
    BY DEF ThrottleTypeOK, StoreType, LoginType, HistoryType
  <1>2. known \subseteq known'
    BY DEF ThrottleNext, Start, Assess, WrongPassword, RightPassword, IncrementAddress,
           IncrementPair, LockAddress, LockPair, ClearFailedAttempts, Fail, Tick,
           throttleVars, history
  <1> SUFFICES ASSUME NEW p \in Pairs \ known' PROVE BoundAt(p)'
    BY DEF BoundInv
  <1>3. p \in Pairs /\ BoundAt(p)
    BY <1>2 DEF BoundInv
  <1>4. ASSUME NEW w \in Workers, LockPair(w) PROVE BoundAt(p)'
    <2>1. Reached(seen[w].pair)
      BY <1>4 DEF LockReason, LockPair
    <2> QED BY <1>1, <1>3, <1>4, <2>1, LockPairKeepsBound
  <1>5. ASSUME NEW w \in Workers,
               \/ \E q \in Pairs, read \in BOOLEAN : Start(w, q, read)
               \/ \E solved \in CaptchaAnswers : Assess(w, solved)
               \/ WrongPassword(w)
               \/ \E active \in BOOLEAN : RightPassword(w, active)
        PROVE  BoundAt(p)'
    BY <1>1, <1>3, <1>5, StartKeepsBound, PassKeepsBound, WrongPasswordKeepsBound
  <1>6. ASSUME NEW w \in Workers,
               \/ IncrementAddress(w) \/ IncrementPair(w) \/ LockAddress(w)
               \/ ClearFailedAttempts(w) \/ Fail(w)
        PROVE  BoundAt(p)'
    BY <1>1, <1>3, <1>6, IncrementAddressKeepsBound, IncrementPairKeepsBound,
       LockAddressKeepsBound, ClearKeepsBound, FailKeepsBound
  <1>7. CASE Tick
    BY <1>1, <1>3, <1>7, TickKeepsBound
  <1>8. CASE UNCHANGED throttleVars
    <2>1. /\ UNCHANGED <<now, count, countEnd, lock, tries, lost>>
          /\ UNCHANGED <<uncounted(p), locking(p), trying(p)>>
      BY <1>8 DEF throttleVars, redis, locals, history, uncounted, locking, trying,
                  Uncounted, Locking, Trying
    <2>2. Quiet(p)
      BY <1>1, <1>3, <2>1, SameTries, Numbers DEF Quiet
    <2> QED BY <1>1, <1>3, <2>2, QuietKeepsBound
  <1> QED BY <1>4, <1>5, <1>6, <1>7, <1>8 DEF ThrottleNext

\* At first nothing has been tried.
LEMMA InitBound == ThrottleInit => LockReason /\ BoundInv
  <1> SUFFICES ASSUME ThrottleInit PROVE LockReason /\ BoundInv
    OBVIOUS
  <1>1. LockReason
    BY DEF ThrottleInit, LockReason
  <1>2. ASSUME NEW p \in Pairs PROVE BoundAt(p)
    <2>1. /\ count[p] = 0 /\ lock[p] = 0 /\ now = 0 /\ lost = 0
      BY DEF ThrottleInit, Pairs, Keys
    <2>2. \A t \in Nat : Since(p, t) = {} /\ TriesFrom(p, t) = {}
      BY DEF ThrottleInit, Since, TriesFrom
    <2>3. \A t \in Nat : since(p, t) = 0 /\ span(p, t) = 0
      BY <2>2, FS_EmptySet DEF since, span
    <2>4. Uncounted(p) \in SUBSET Workers /\ Locking(p) \in SUBSET Workers
      BY DEF Uncounted, Locking
    <2>5. uncounted(p) \in Nat /\ locking(p) \in Nat
      BY <2>4, WorkerCounts DEF uncounted, locking
    <2>6. \A t \in Nat : Counted(p, t) = 0
      BY <2>1 DEF Counted
    <2>7. \A t \in Nat : UnlockedBound(p, t) /\ PastBound(p, t)
      BY <2>1, <2>3, <2>5, <2>6, BeforeFacts, Limits DEF UnlockedBound, PastBound
    <2> QED BY <2>1, <2>7 DEF BoundAt, TriesAreCounted, LockedBefore, LockedSince
  <1> QED BY <1>1, <1>2 DEF BoundInv

\* For every limit, window and number of logins under way: until somebody logs in to
\* it, an account is tried from one address no more often in the length of a window
\* than a counter allows, and once more for every login under way and every login or
\* read that was lost, after what the counter or the lock before had allowed, not
\* counting logins that came in the last half second of a lock.
THEOREM GuessesAreBounded == ThrottleSpec => []PairTriesBounded
  <1> DEFINE Inv == ThrottleTypeOK /\ LockReason /\ BoundInv
  <1>1. ThrottleInit => Inv
    BY InitBound, InitThrottleTypes
  <1>2. Inv /\ [ThrottleNext]_throttleVars => Inv'
    <2> SUFFICES ASSUME Inv, [ThrottleNext]_throttleVars PROVE Inv'
      OBVIOUS
    <2>1. ThrottleTypeOK'
      BY StepThrottleTypes
    <2>2. LockReason'
      BY StepLockReason, TypeParts
    <2> QED BY <2>1, <2>2, StepBound
  <1>3. Inv => PairTriesBounded
    <2> SUFFICES ASSUME Inv, NEW p \in Pairs \ known, NEW t \in Times
                 PROVE  Cardinality(TriesFrom(p, t))
                          <= Before + (MaxFailed - 1) + Cardinality(Workers) + lost
      BY DEF PairTriesBounded
    <2>1. StoreType /\ HistoryType /\ BoundAt(p) /\ t \in Nat
      BY TypeParts, Limits DEF BoundInv, Times
    <2> QED BY <2>1, BoundSuffices DEF span, Logins
  <1> QED BY <1>1, <1>2, <1>3, PTL DEF ThrottleSpec

-----------------------------------------------------------------------------
(* Locks are earned: the inductive invariant.                              *)

\* What was tried under a key, and the logins that have tried and not counted there.
TriesUnder(k) == {x \in tries : Covers(k, x.pair)}
Owing(k) == {w \in Workers : \/ stage[w] = "incr.address" /\ k = Address(w)
                             \/ stage[w] \in {"incr.address", "incr.pair"} /\ k = Pair(w)}

earned(k) == Cardinality(TriesUnder(k))
owing(k)  == Cardinality(Owing(k))

\* A counter has counted tries of its key that nobody is going to count again.
CountsAreEarned == \A k \in Keys : count[k] + owing(k) <= earned(k)

\* So has what a login saw.
SeenIsEarned ==
    \A w \in Workers :
        /\ stage[w] \in {"incr.pair", "lock.address", "lock.pair"} =>
              seen[w].address <= earned(Address(w))
        /\ stage[w] \in {"lock.address", "lock.pair"} => seen[w].pair <= earned(Pair(w))

\* The tries of a pair at an instant are numbered from 0.
Numbered == \A x \in tries : x.nr < Cardinality(TriesAt(x.pair, x.at))

EarnedInv == CountsAreEarned /\ SeenIsEarned /\ Numbered /\ LocksAreEarned

\* Tries are never forgotten.
LEMMA TriesGrow == [ThrottleNext]_throttleVars => tries \subseteq tries'
  BY DEF ThrottleNext, Start, Assess, WrongPassword, RightPassword, IncrementAddress,
         IncrementPair, LockAddress, LockPair, ClearFailedAttempts, Fail, Tick,
         throttleVars, history

\* So what a key has earned only grows.
LEMMA EarnedGrows ==
  ASSUME HistoryType, HistoryType', tries \subseteq tries', NEW k \in Keys
  PROVE  /\ earned(k) \in Nat /\ earned(k)' \in Nat /\ earned(k) <= earned(k)'
         /\ IsFiniteSet(TriesUnder(k)) /\ IsFiniteSet(TriesUnder(k)')
  <1>1. /\ TriesUnder(k) \in SUBSET tries /\ TriesUnder(k)' \in SUBSET tries'
        /\ TriesUnder(k) \in SUBSET TriesUnder(k)'
    BY DEF TriesUnder
  <1>2. IsFiniteSet(TriesUnder(k)) /\ IsFiniteSet(TriesUnder(k)')
    BY <1>1, FS_Subset DEF HistoryType
  <1> QED BY <1>1, <1>2, FS_Subset, FS_CardinalityType DEF earned

\* A step of one login moves what is owed to a key by that login only.
LEMMA OwingMoves ==
  ASSUME NEW w \in Workers, NEW k \in Keys, Bystanders(w)
  PROVE  /\ owing(k) \in Nat /\ owing(k)' \in Nat
         /\ (w \in Owing(k) <=> w \in Owing(k)') => owing(k)' = owing(k)
         /\ w \in Owing(k) /\ w \notin Owing(k)' => owing(k)' + 1 = owing(k)
         /\ w \notin Owing(k) /\ w \in Owing(k)' => owing(k)' = owing(k) + 1
  <1>1. /\ Owing(k) \in SUBSET Workers /\ Owing(k)' \in SUBSET Workers
        /\ Owing(k) \ {w} = Owing(k)' \ {w}
    BY DEF Owing, Bystanders, Pair, Address
  <1> QED BY <1>1, CountWithout DEF owing

\* A step of a login that owes a key no more than before, and counts nothing there.
LEMMA OwesNoMore ==
  ASSUME StoreType, HistoryType, HistoryType', tries \subseteq tries', CountsAreEarned,
         NEW w \in Workers, NEW k \in Keys, Bystanders(w),
         count'[k] \in {0, count[k]}, w \in Owing(k)' => w \in Owing(k)
  PROVE  count'[k] + owing(k)' <= earned(k)'
  <1>1. owing(k)' <= owing(k) /\ owing(k) \in Nat /\ owing(k)' \in Nat
    BY OwingMoves
  <1>2. count[k] + owing(k) <= earned(k) /\ count[k] \in Nat
    BY DEF CountsAreEarned, StoreType
  <1> QED BY <1>1, <1>2, EarnedGrows

\* What a login sees while it stays where it is, or at least where it may see it.
LEMMA SeesTheSame ==
  ASSUME LoginType, HistoryType, HistoryType', tries \subseteq tries', SeenIsEarned,
         NEW v \in Workers, login'[v] = login[v], seen'[v] = seen[v],
         stage[v] \in {"incr.pair", "lock.address", "lock.pair"},
         stage'[v] \in {"lock.address", "lock.pair"} => stage[v] \in {"lock.address", "lock.pair"}
  PROVE  /\ seen'[v].address <= earned(Address(v))'
         /\ stage'[v] \in {"lock.address", "lock.pair"} => seen'[v].pair <= earned(Pair(v))'
  <1>1. PICK a \in Keys, b \in Keys : a = Address(v) /\ b = Pair(v)
    BY KeysOf
  <1>2. Address(v)' = a /\ Pair(v)' = b
    BY <1>1 DEF Address, Pair
  <1>3. /\ seen[v].address <= earned(a)
        /\ stage[v] \in {"lock.address", "lock.pair"} => seen[v].pair <= earned(b)
    BY <1>1 DEF SeenIsEarned
  <1>4. /\ earned(a) \in Nat /\ earned(a)' \in Nat /\ earned(a) <= earned(a)'
        /\ earned(b) \in Nat /\ earned(b)' \in Nat /\ earned(b) <= earned(b)'
    BY EarnedGrows
  <1>5. seen[v].address \in Nat /\ seen[v].pair \in Nat
    BY DEF LoginType
  <1> QED BY <1>2, <1>3, <1>4, <1>5

\* A step of a login after which its counts are earned.
LEMMA SeesEarned ==
  ASSUME LoginType, HistoryType, HistoryType', tries \subseteq tries', SeenIsEarned,
         NEW w \in Workers, Bystanders(w),
         stage'[w] \in {"incr.pair", "lock.address", "lock.pair"} =>
            seen'[w].address <= earned(Address(w))',
         stage'[w] \in {"lock.address", "lock.pair"} => seen'[w].pair <= earned(Pair(w))'
  PROVE  SeenIsEarned'
  <1> SUFFICES ASSUME NEW v \in Workers, v # w,
                      stage'[v] \in {"incr.pair", "lock.address", "lock.pair"}
               PROVE  /\ seen'[v].address <= earned(Address(v))'
                      /\ stage'[v] \in {"lock.address", "lock.pair"} =>
                            seen'[v].pair <= earned(Pair(v))'
    BY DEF SeenIsEarned
  <1>1. login'[v] = login[v] /\ seen'[v] = seen[v] /\ stage'[v] = stage[v]
    BY DEF Bystanders
  <1> QED BY <1>1, SeesTheSame

\* A step of a login whose counts at its stage are the ones it had.
LEMMA SeesNoMore ==
  ASSUME LoginType, HistoryType, HistoryType', tries \subseteq tries', SeenIsEarned,
         NEW w \in Workers, Bystanders(w),
         \/ stage'[w] \notin {"incr.pair", "lock.address", "lock.pair"}
         \/ /\ stage[w] \in {"lock.address", "lock.pair"}
            /\ login'[w] = login[w] /\ seen'[w] = seen[w]
  PROVE  SeenIsEarned'
  <1>1. CASE stage'[w] \notin {"incr.pair", "lock.address", "lock.pair"}
    BY <1>1, SeesEarned
  <1>2. CASE /\ stage[w] \in {"lock.address", "lock.pair"}
             /\ login'[w] = login[w] /\ seen'[w] = seen[w]
    BY <1>2, SeesTheSame, SeesEarned
  <1> QED BY <1>1, <1>2

\* Locks that were there have been earned, whatever is tried since.
LEMMA NoNewLock ==
  ASSUME StoreType, HistoryType, HistoryType', tries \subseteq tries', LocksAreEarned,
         \A k \in Keys : lock'[k] \in {0, lock[k]}
  PROVE  LocksAreEarned'
  <1> SUFFICES ASSUME NEW k \in Keys, lock'[k] # 0 PROVE MaxFailed <= earned(k)'
    BY DEF LocksAreEarned, earned, TriesUnder
  <1>1. lock[k] # 0
    OBVIOUS
  <1>2. MaxFailed <= earned(k)
    BY <1>1 DEF LocksAreEarned, earned, TriesUnder
  <1> QED BY <1>2, EarnedGrows, Limits

\* A lock that is set on a key that has seen enough tries.
LEMMA NewLock ==
  ASSUME StoreType, HistoryType, HistoryType', tries \subseteq tries', LocksAreEarned,
         NEW key \in Keys, SetLock(key), MaxFailed <= earned(key)
  PROVE  LocksAreEarned'
  <1> SUFFICES ASSUME NEW k \in Keys, lock'[k] # 0 PROVE MaxFailed <= earned(k)'
    BY DEF LocksAreEarned, earned, TriesUnder
  <1>1. k = key \/ lock[k] # 0
    BY DEF SetLock, StoreType
  <1>2. MaxFailed <= earned(k)
    BY <1>1 DEF LocksAreEarned, earned, TriesUnder
  <1> QED BY <1>2, EarnedGrows, Limits

\* No step but a wrong password disturbs the numbers.
LEMMA SameNumbers ==
  ASSUME Numbered, tries' = tries
  PROVE  Numbered'
  BY DEF Numbered, TriesAt

\* A wrong password has a number of its own, so it is one more under both its keys,
\* and it is owed to both.
LEMMA WrongPasswordEarns ==
  ASSUME StoreType, LoginType, LoginType', HistoryType, HistoryType', EarnedInv,
         NEW w \in Workers, WrongPassword(w)
  PROVE  EarnedInv'
  <1> DEFINE n == Cardinality(TriesAt(Pair(w), now))
             x == [pair |-> Pair(w), at |-> now, nr |-> n, ending |-> seen[w].ending]
  <1>1. Bystanders(w) /\ UNCHANGED <<now, count, lock, login, seen>>
    BY LoginSteps DEF WrongPassword, redis, locals
  <1>2. /\ Pair(w) \in Keys /\ Address(w) \in Keys /\ Pair(w) \in Pairs
        /\ stage[w] = "verify" /\ stage'[w] = "incr.address"
    BY KeysOf DEF WrongPassword, Goto, LoginType
  <1>3. tries' = tries \cup {x} /\ x.pair = Pair(w) /\ x.at = now /\ x.nr = n
    BY DEF WrongPassword
  <1>4. n \in Nat /\ IsFiniteSet(TriesAt(Pair(w), now))
    BY TriesAtCount
  <1>5. n = Cardinality(TriesAt(Pair(w), now))
    OBVIOUS
  <1> HIDE DEF x, n
  <1>6. x \notin tries
    <2>1. x \in tries => n < Cardinality(TriesAt(Pair(w), now))
      BY <1>3 DEF EarnedInv, Numbered
    <2> QED BY <1>4, <1>5, <2>1
  <1>7. Numbered'
    <2> SUFFICES ASSUME NEW y \in tries' PROVE y.nr < Cardinality(TriesAt(y.pair, y.at)')
      BY DEF Numbered
    <2>1. CASE y.pair = Pair(w) /\ y.at = now
      <3>1. TriesAt(y.pair, y.at)' = TriesAt(Pair(w), now) \cup {x}
        BY <1>3, <2>1 DEF TriesAt
      <3>2. x \notin TriesAt(Pair(w), now)
        BY <1>6 DEF TriesAt
      <3>3. Cardinality(TriesAt(y.pair, y.at)') = n + 1
        BY <1>4, <1>5, <3>1, <3>2, FS_AddElement
      <3>4. y \in tries => y.nr \in Nat /\ y.nr < n
        BY <1>5, <2>1 DEF EarnedInv, Numbered, HistoryType
      <3> QED BY <1>3, <1>4, <3>3, <3>4
    <2>2. CASE ~(y.pair = Pair(w) /\ y.at = now)
      <3>1. y \in tries /\ TriesAt(y.pair, y.at)' = TriesAt(y.pair, y.at)
        BY <1>3, <2>2 DEF TriesAt
      <3> QED BY <3>1 DEF EarnedInv, Numbered
    <2> QED BY <2>1, <2>2
  <1>8. CountsAreEarned'
    <2> SUFFICES ASSUME NEW k \in Keys PROVE count'[k] + owing(k)' <= earned(k)'
      BY DEF CountsAreEarned
    <2>1. CASE k \in {Pair(w), Address(w)}
      <3>1. w \notin Owing(k) /\ w \in Owing(k)'
        BY <1>1, <1>2, <2>1 DEF Owing, Pair, Address
      <3>2. owing(k)' = owing(k) + 1 /\ owing(k) \in Nat
        BY <1>1, <3>1, OwingMoves
      <3>3. Covers(k, Pair(w))
        BY <2>1 DEF Covers, Pair, Address
      <3>4. TriesUnder(k)' = TriesUnder(k) \cup {x} /\ x \notin TriesUnder(k)
        BY <1>3, <1>6, <3>3 DEF TriesUnder
      <3>5. earned(k)' = earned(k) + 1 /\ earned(k) \in Nat
        BY <1>3, <3>4, EarnedGrows, FS_AddElement DEF earned
      <3>6. count[k] \in Nat /\ count[k] + owing(k) <= earned(k)
        BY DEF EarnedInv, CountsAreEarned, StoreType
      <3> QED BY <1>1, <3>2, <3>5, <3>6
    <2>2. CASE k \notin {Pair(w), Address(w)}
      <3>1. w \notin Owing(k)'
        BY <1>1, <2>2 DEF Owing, Pair, Address
      <3> QED BY <1>1, <1>3, <3>1, OwesNoMore DEF EarnedInv
    <2> QED BY <2>1, <2>2
  <1>9. SeenIsEarned'
    BY <1>1, <1>2, <1>3, SeesNoMore DEF EarnedInv
  <1>10. LocksAreEarned'
    BY <1>1, <1>3, NoNewLock DEF EarnedInv
  <1> QED BY <1>7, <1>8, <1>9, <1>10 DEF EarnedInv

\* A login that counts at a key where it owed that.
LEMMA CountsWhatItOwes ==
  ASSUME StoreType, HistoryType, HistoryType', UNCHANGED tries, CountsAreEarned,
         NEW w \in Workers, Bystanders(w), NEW key \in Keys, Increment(key),
         w \in Owing(key), w \notin Owing(key)',
         \A k \in Keys : w \in Owing(k)' => w \in Owing(k)
  PROVE  /\ CountsAreEarned'
         /\ count[key] + 1 <= earned(key)'
  <1>1. /\ count[key] + owing(key) <= earned(key) /\ count[key] \in Nat
        /\ owing(key)' + 1 = owing(key) /\ owing(key) \in Nat /\ owing(key)' \in Nat
    BY OwingMoves DEF CountsAreEarned, StoreType
  <1>2. earned(key)' \in Nat /\ earned(key) \in Nat /\ earned(key) <= earned(key)'
    BY EarnedGrows
  <1>3. ASSUME NEW k \in Keys PROVE count'[k] + owing(k)' <= earned(k)'
    <2>1. CASE k = key
      <3>1. count'[k] = count[key] + 1
        BY <2>1 DEF Increment, StoreType
      <3> QED BY <1>1, <1>2, <2>1, <3>1
    <2>2. CASE k # key
      <3>1. count'[k] = count[k]
        BY <2>2 DEF Increment, StoreType
      <3> QED BY <3>1, OwesNoMore
    <2> QED BY <2>1, <2>2
  <1> QED BY <1>1, <1>2, <1>3 DEF CountsAreEarned

\* recordFailedAttempt counts at the address, where the pair is still owed.
LEMMA IncrementAddressEarns ==
  ASSUME StoreType, LoginType, HistoryType, HistoryType', EarnedInv,
         NEW w \in Workers, IncrementAddress(w)
  PROVE  EarnedInv'
  <1>1. PICK a \in Keys, b \in Keys : a = Address(w) /\ b = Pair(w) /\ a # b
    BY KeysOf DEF IncrementAddress
  <1>2. /\ Bystanders(w) /\ UNCHANGED <<tries, login, lock>> /\ Increment(a)
        /\ stage[w] = "incr.address" /\ stage'[w] = "incr.pair"
        /\ seen'[w].address = count[a] + 1
    BY <1>1, LoginSteps DEF IncrementAddress, Increment, history, Goto, LoginType
  <1>3. Address(w)' = a /\ Pair(w)' = b
    BY <1>1, <1>2 DEF Address, Pair
  <1>4. w \in Owing(a) /\ w \notin Owing(a)' /\ \A k \in Keys : w \in Owing(k)' => w \in Owing(k)
    BY <1>1, <1>2, <1>3 DEF Owing
  <1>5. CountsAreEarned' /\ count[a] + 1 <= earned(a)'
    BY <1>2, <1>4, CountsWhatItOwes DEF EarnedInv
  <1>6. SeenIsEarned'
    <2>1. seen'[w].address <= earned(Address(w))'
      BY <1>2, <1>3, <1>5
    <2> QED BY <1>2, <2>1, SeesEarned DEF EarnedInv
  <1>7. LocksAreEarned' /\ Numbered'
    BY <1>2, NoNewLock, SameNumbers DEF EarnedInv
  <1> QED BY <1>5, <1>6, <1>7 DEF EarnedInv

\* It counts at the pair, and goes on to lock with both counts or is done.
LEMMA IncrementPairEarns ==
  ASSUME StoreType, LoginType, HistoryType, HistoryType', EarnedInv,
         NEW w \in Workers, IncrementPair(w)
  PROVE  EarnedInv'
  <1> DEFINE s == [seen[w] EXCEPT !.pair = count[Pair(w)] + 1]
  <1>1. PICK a \in Keys, b \in Keys : a = Address(w) /\ b = Pair(w) /\ a # b
    BY KeysOf DEF IncrementPair
  <1>2. /\ Bystanders(w) /\ UNCHANGED <<tries, lock>> /\ Increment(b)
        /\ stage[w] = "incr.pair" /\ stage'[w] \in {"lock.address", "lock.pair", "idle"}
    BY <1>1, LoginSteps DEF IncrementPair, Increment, history, Goto, LoginType, Done
  <1>3. stage'[w] # "idle" => login' = login /\ seen'[w] = s
    BY DEF IncrementPair, Goto, LoginType, Done
  <1>4. s.address = seen[w].address /\ s.pair = count[b] + 1
    BY <1>1 DEF LoginType
  <1> HIDE DEF s
  <1>5. w \in Owing(b) /\ w \notin Owing(b)' /\ \A k \in Keys : w \in Owing(k)' => w \in Owing(k)
    BY <1>1, <1>2 DEF Owing
  <1>6. CountsAreEarned' /\ count[b] + 1 <= earned(b)'
    BY <1>2, <1>5, CountsWhatItOwes DEF EarnedInv
  <1>7. SeenIsEarned'
    <2>1. seen[w].address <= earned(a) /\ seen[w].address \in Nat
      BY <1>1, <1>2 DEF EarnedInv, SeenIsEarned, LoginType
    <2>2. earned(a) \in Nat /\ earned(a)' \in Nat /\ earned(a) <= earned(a)'
      BY <1>2, EarnedGrows
    <2>3. stage'[w] # "idle" => Address(w)' = a /\ Pair(w)' = b
      BY <1>1, <1>3 DEF Address, Pair
    <2>4. stage'[w] # "idle" => /\ seen'[w].address <= earned(Address(w))'
                               /\ seen'[w].pair <= earned(Pair(w))'
      BY <1>3, <1>4, <1>6, <2>1, <2>2, <2>3
    <2> QED BY <1>2, <2>4, SeesEarned DEF EarnedInv
  <1>8. LocksAreEarned' /\ Numbered'
    BY <1>2, NoNewLock, SameNumbers DEF EarnedInv
  <1> QED BY <1>6, <1>7, <1>8 DEF EarnedInv

\* A lock is set by a login that has seen as many failures as it takes.
LEMMA LockIsEarned ==
  ASSUME StoreType, LoginType, HistoryType, HistoryType', LockReason, EarnedInv,
         NEW w \in Workers, LockAddress(w) \/ LockPair(w)
  PROVE  EarnedInv'
  <1>1. PICK a \in Keys, b \in Keys : a = Address(w) /\ b = Pair(w)
    BY KeysOf DEF LockAddress, LockPair
  <1>2. /\ Bystanders(w) /\ UNCHANGED <<tries, count>>
        /\ stage[w] \in {"lock.address", "lock.pair"}
    BY LoginSteps DEF LockAddress, LockPair, history
  <1>3. \/ stage'[w] = "idle"
        \/ stage'[w] = "lock.pair" /\ login' = login /\ seen' = seen
    BY DEF LockAddress, LockPair, Done, Goto, LoginType, locals
  <1>4. \A k \in Keys : w \notin Owing(k)'
    BY <1>3 DEF Owing
  <1>5. CountsAreEarned'
    BY <1>2, <1>4, OwesNoMore DEF EarnedInv, CountsAreEarned
  <1>6. SeenIsEarned'
    BY <1>2, <1>3, SeesNoMore DEF EarnedInv
  <1>7. LocksAreEarned'
    <2>1. seen[w].address <= earned(a) /\ seen[w].pair <= earned(b)
      BY <1>1, <1>2 DEF EarnedInv, SeenIsEarned
    <2>2. seen[w].address \in Nat /\ seen[w].pair \in Nat /\ earned(a) \in Nat /\ earned(b) \in Nat
      BY <1>2, EarnedGrows DEF LoginType
    <2>3. CASE LockAddress(w)
      <3>1. MaxFailed <= seen[w].address /\ SetLock(a)
        BY <1>1, <2>3 DEF LockReason, LockAddress, Reached
      <3>2. MaxFailed <= earned(a)
        BY <2>1, <2>2, <3>1, Limits
      <3> QED BY <1>2, <3>1, <3>2, NewLock DEF EarnedInv
    <2>4. CASE LockPair(w)
      <3>1. MaxFailed <= seen[w].pair /\ SetLock(b)
        BY <1>1, <2>4 DEF LockReason, LockPair, Reached
      <3>2. MaxFailed <= earned(b)
        BY <2>1, <2>2, <3>1, Limits
      <3> QED BY <1>2, <3>1, <3>2, NewLock DEF EarnedInv
    <2> QED BY <2>3, <2>4
  <1>8. Numbered'
    BY <1>2, SameNumbers DEF EarnedInv
  <1> QED BY <1>5, <1>6, <1>7, <1>8 DEF EarnedInv

\* The other steps of a login try nothing, count nothing and lock nothing: they begin
\* a login, let it through, end it, or clear counters and locks.
LEMMA OtherStepsEarn ==
  ASSUME StoreType, LoginType, HistoryType, HistoryType', EarnedInv, NEW w \in Workers,
         \/ \E p \in Pairs, read \in BOOLEAN : Start(w, p, read)
         \/ \E solved \in CaptchaAnswers : Assess(w, solved)
         \/ \E active \in BOOLEAN : RightPassword(w, active)
         \/ ClearFailedAttempts(w) \/ Fail(w)
  PROVE  EarnedInv'
  <1>1. /\ Bystanders(w) /\ UNCHANGED tries
        /\ stage'[w] \in {"idle", "assess", "verify", "clear"}
    BY LoginSteps DEF Start, Assess, RightPassword, ClearFailedAttempts, Fail, history, Done, Goto,
                      LoginType
  <1>2. \A k \in Keys : count'[k] \in {0, count[k]} /\ lock'[k] \in {0, lock[k]}
    BY DEF Start, Assess, RightPassword, ClearFailedAttempts, Fail, redis
  <1>3. \A k \in Keys : w \notin Owing(k)'
    BY <1>1 DEF Owing
  <1>4. CountsAreEarned'
    BY <1>1, <1>2, <1>3, OwesNoMore DEF EarnedInv, CountsAreEarned
  <1>5. SeenIsEarned'
    BY <1>1, SeesNoMore DEF EarnedInv
  <1>6. LocksAreEarned' /\ Numbered'
    BY <1>1, <1>2, NoNewLock, SameNumbers DEF EarnedInv
  <1> QED BY <1>4, <1>5, <1>6 DEF EarnedInv

\* Keys expire, and the logins stay where they are.
LEMMA TickEarns ==
  ASSUME StoreType, LoginType, HistoryType, HistoryType', EarnedInv,
         Tick \/ UNCHANGED throttleVars
  PROVE  EarnedInv'
  <1>1. /\ UNCHANGED <<stage, login, seen, tries>>
        /\ \A k \in Keys : count'[k] \in {0, count[k]} /\ lock'[k] \in {0, lock[k]}
    BY DEF Tick, throttleVars, redis, locals, history
  <1>2. ASSUME NEW k \in Keys PROVE count'[k] + owing(k)' <= earned(k)'
    <2>1. Owing(k)' = Owing(k) /\ Owing(k) \in SUBSET Workers
      BY <1>1 DEF Owing, Address, Pair
    <2>2. owing(k)' = owing(k) /\ owing(k) \in Nat
      BY <2>1, WorkerCounts DEF owing
    <2>3. count[k] + owing(k) <= earned(k) /\ count[k] \in Nat
      BY DEF EarnedInv, CountsAreEarned, StoreType
    <2>4. earned(k) \in Nat /\ earned(k)' \in Nat /\ earned(k) <= earned(k)'
      BY <1>1, EarnedGrows
    <2> QED BY <1>1, <2>2, <2>3, <2>4
  <1>3. SeenIsEarned'
    <2> SUFFICES ASSUME NEW v \in Workers,
                        stage'[v] \in {"incr.pair", "lock.address", "lock.pair"}
                 PROVE  /\ seen'[v].address <= earned(Address(v))'
                        /\ stage'[v] \in {"lock.address", "lock.pair"} =>
                              seen'[v].pair <= earned(Pair(v))'
      BY DEF SeenIsEarned
    <2> QED BY <1>1, SeesTheSame DEF EarnedInv
  <1>4. LocksAreEarned' /\ Numbered'
    BY <1>1, NoNewLock, SameNumbers DEF EarnedInv
  <1> QED BY <1>2, <1>3, <1>4 DEF EarnedInv, CountsAreEarned

\* Every step keeps counters, what logins saw and locks earned.
LEMMA StepEarned ==
  ASSUME ThrottleTypeOK, ThrottleTypeOK', LockReason, EarnedInv, [ThrottleNext]_throttleVars
  PROVE  EarnedInv'
  <1>1. /\ StoreType /\ LoginType /\ HistoryType
        /\ LoginType' /\ HistoryType'
    BY DEF ThrottleTypeOK, StoreType, LoginType, HistoryType
  <1>2. ASSUME NEW w \in Workers, WrongPassword(w) PROVE EarnedInv'
    BY <1>1, <1>2, WrongPasswordEarns
  <1>3. ASSUME NEW w \in Workers, IncrementAddress(w) \/ IncrementPair(w) PROVE EarnedInv'
    BY <1>1, <1>3, IncrementAddressEarns, IncrementPairEarns
  <1>4. ASSUME NEW w \in Workers, LockAddress(w) \/ LockPair(w) PROVE EarnedInv'
    BY <1>1, <1>4, LockIsEarned
  <1>5. ASSUME NEW w \in Workers,
               \/ \E p \in Pairs, read \in BOOLEAN : Start(w, p, read)
               \/ \E solved \in CaptchaAnswers : Assess(w, solved)
               \/ \E active \in BOOLEAN : RightPassword(w, active)
               \/ ClearFailedAttempts(w) \/ Fail(w)
        PROVE  EarnedInv'
    BY <1>1, <1>5, OtherStepsEarn
  <1>6. CASE Tick \/ UNCHANGED throttleVars
    BY <1>1, <1>6, TickEarns
  <1> QED BY <1>2, <1>3, <1>4, <1>5, <1>6 DEF ThrottleNext

\* At first nothing is counted, seen or locked.
LEMMA InitEarned == ThrottleInit => EarnedInv
  <1> SUFFICES ASSUME ThrottleInit PROVE EarnedInv
    OBVIOUS
  <1>1. ASSUME NEW k \in Keys PROVE count[k] + owing(k) <= earned(k) /\ lock[k] = 0
    <2>1. Owing(k) = {} /\ TriesUnder(k) = {} /\ count[k] = 0 /\ lock[k] = 0
      BY DEF ThrottleInit, Owing, TriesUnder
    <2> QED BY <2>1, FS_EmptySet DEF owing, earned
  <1>2. SeenIsEarned /\ Numbered
    BY DEF ThrottleInit, SeenIsEarned, Numbered
  <1> QED BY <1>1, <1>2 DEF EarnedInv, CountsAreEarned, LocksAreEarned

\* For every limit, window and number of logins under way: an account is locked for an
\* address only after as many wrong passwords for it from there as that takes, and an
\* address after as many from there on whatever accounts; failures from elsewhere
\* lock nobody out.
THEOREM LockoutsAreEarned == ThrottleSpec => []LocksAreEarned
  <1> DEFINE Inv == ThrottleTypeOK /\ LockReason /\ EarnedInv
  <1>1. ThrottleInit => Inv
    BY InitEarned, InitBound, InitThrottleTypes
  <1>2. Inv /\ [ThrottleNext]_throttleVars => Inv'
    <2> SUFFICES ASSUME Inv, [ThrottleNext]_throttleVars PROVE Inv'
      OBVIOUS
    <2>1. ThrottleTypeOK'
      BY StepThrottleTypes
    <2>2. LockReason'
      BY StepLockReason, TypeParts
    <2> QED BY <2>1, <2>2, StepEarned
  <1>3. Inv => LocksAreEarned
    BY DEF EarnedInv
  <1> QED BY <1>1, <1>2, <1>3, PTL DEF ThrottleSpec
=============================================================================
