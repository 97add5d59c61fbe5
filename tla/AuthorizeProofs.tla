--------------------------- MODULE AuthorizeProofs ---------------------------
(***************************************************************************)
(* Proofs about Authorize, for every set of people, clients, queries,      *)
(* tickets, codes and handlers.                                            *)
(***************************************************************************)
EXTENDS Authorize, TLAPS

-----------------------------------------------------------------------------
(* Types and arguments.                                                    *)

\* What a handler keeps between two awaits.
LocalTypes ==
    /\ pc \in [Workers -> Steps]
    /\ key \in [Workers -> Tickets \cup Codes \cup {None}]
    /\ form \in [Workers -> Forms]
    /\ caller \in [Workers -> Users \cup {None}]
    /\ request \in [Workers -> Pending \cup {None}]
    /\ signed \in [Workers -> Users \cup {None}]

\* The handler of w moves and no other.
Only(w) ==
    \A v \in Workers \ {w} :
        /\ pc'[v] = pc[v] /\ key'[v] = key[v] /\ form'[v] = form[v]
        /\ request'[v] = request[v] /\ signed'[v] = signed[v]

Keeps(w) == key'[w] = key[w] /\ form'[w] = form[w] /\ signed'[w] = signed[w]

\* It is gone.
Gone(w) ==
    /\ pc'[w] = "idle" /\ key'[w] = None /\ form'[w] = Empty
    /\ request'[w] = None /\ signed'[w] = None

\* What the end of a handler does to what it kept.
LEMMA DoneDoes ==
    ASSUME LocalTypes, NEW w \in Workers, Done(w)
    PROVE  LocalTypes' /\ Only(w) /\ Gone(w)
<1>1. Empty \in Forms
    BY DEF Empty, Forms, Decisions
<1>2. pc' \in [Workers -> Steps] /\ key' \in [Workers -> Tickets \cup Codes \cup {None}]
    BY DEF Done, Goto, LocalTypes, Steps
<1>3. form' \in [Workers -> Forms] /\ caller' \in [Workers -> Users \cup {None}]
    BY <1>1 DEF Done, LocalTypes
<1>4. request' \in [Workers -> Pending \cup {None}] /\ signed' \in [Workers -> Users \cup {None}]
    BY DEF Done, Hold, LocalTypes
<1>5. Only(w) /\ Gone(w)
    BY DEF Done, Goto, Hold, LocalTypes, Only, Gone
<1> QED
    BY <1>2, <1>3, <1>4, <1>5 DEF LocalTypes

\* What the browser gets with it.
LEMMA AnswerDoes ==
    ASSUME LocalTypes, cookie \in Users \cup {None}, NEW w \in Workers, Answer(w)
    PROVE  LocalTypes' /\ Only(w) /\ Gone(w) /\ cookie' \in Users \cup {None}
<1>1. Done(w)
    BY DEF Answer
<1>2. signed[w] \in Users \cup {None}
    BY DEF LocalTypes
<1> QED
    BY <1>1, <1>2, DoneDoes DEF Answer

\* Placed is about one handler at a time.
LEMMA PlacedByOne ==
    ASSUME Placed, NEW w \in Workers, Only(w), Equipped(w)'
    PROVE  Placed'
<1> SUFFICES ASSUME NEW v \in Workers, v # w PROVE Equipped(v)'
    BY DEF Placed
<1>1. Equipped(v)
    BY DEF Placed
<1> QED
    BY <1>1 DEF Only, Equipped

\* A handler without locals is placed.
LEMMA PlacedWhenGone ==
    ASSUME Placed, NEW w \in Workers, Only(w), Gone(w)
    PROVE  Placed'
<1>1. None # "allow"
    BY AuthorizeAssumption
<1>2. Equipped(w)'
    BY <1>1 DEF Gone, Empty, Equipped, TicketSteps, Completing
<1> QED
    BY <1>2, PlacedByOne

TypeInv == TypeOK /\ Placed

\* Types of everything but the locals.
RestTypes ==
    /\ registered \in [Clients -> Metadata \cup {None}]
    /\ grants \in [Users -> [Clients -> SUBSET Scopes]]
    /\ pending \in [Tickets -> Pending \cup {None}] /\ volatile \subseteq Tickets
    /\ codes \in [Codes -> Pending \cup {None}]
    /\ cookie \in Users \cup {None} /\ pages \subseteq Pages
    /\ unused \subseteq Tickets \cup Codes /\ crossed \subseteq Tickets
    /\ granted \subseteq [code : Codes, ticket : Tickets \cup {None}, user : Users,
                       client : Clients, scopes : SUBSET Scopes]
    /\ opened \in [Codes -> Nat]
    /\ approved \subseteq Approvals /\ mistaken \subseteq Approvals

\* TypeOK in two halves.
LEMMA TypeParts == TypeOK <=> LocalTypes /\ RestTypes
    BY DEF TypeOK, LocalTypes, RestTypes

\* What every record of a request has.
LEMMA PendingFields ==
    ASSUME NEW r \in Pending
    PROVE  /\ r # None /\ r.client \in Clients /\ r.scopes \subseteq Scopes
           /\ r.user \in Users \cup {None}
    BY NullIsNoRecord DEF Pending

\* It is one still when its user is set.
LEMMA WithUser ==
    ASSUME NEW r \in Pending, NEW u \in Users \cup {None}
    PROVE  /\ [r EXCEPT !.user = u] \in Pending /\ [r EXCEPT !.user = u].user = u
           /\ SameRequest([r EXCEPT !.user = u], r)
<1>1. r.client \in Clients /\ r.scopes \subseteq Scopes /\ r.user \in Users \cup {None}
    BY DEF Pending
<1> QED
    BY <1>1 DEF Pending, SameRequest

-----------------------------------------------------------------------------
\* What each action does to the variables, fact by fact: the layers below use these
\* and not the actions.
LEMMA GetAuthorizeDoes ==
    ASSUME TypeInv, NEW w \in Workers, NEW r \in Requests, NEW s \in {cookie, None},
           GetAuthorize(w, r, s)
    PROVE  /\ LocalTypes' /\ Only(w) /\ Keeps(w)
           /\ pc[w] = "idle" /\ key[w] = None
           /\ pc'[w] = (IF s = None THEN "get.create" ELSE "get.resolve")
           /\ request'[w] \in Pending /\ request'[w].user = s /\ s \in Users \cup {None}
           /\ UNCHANGED <<registered, grants, pending, volatile, codes, cookie, pages,
                          unused, granted, opened, approved, mistaken, crossed>>
<1> USE DEF TypeInv
<1>0. UNCHANGED <<registered, grants, pending, volatile, codes, cookie, pages,
                     unused, granted, opened, approved, mistaken, crossed>>
    BY DEF GetAuthorize, tables, redis, browser, history
<1>1. /\ pc[w] = "idle"
      /\ CallbackIsRegistered(r) /\ ScopesAreValid(r)
      /\ request' = [request EXCEPT ![w] = [client |-> r.client, uri |-> r.uri,
                                            scopes |-> RequestedScopes(r), user |-> s]]
      /\ pc' = [pc EXCEPT ![w] = IF s = None THEN "get.create" ELSE "get.resolve"]
      /\ UNCHANGED <<key, form, caller, signed>>
    BY DEF GetAuthorize, Hold, Goto
<1>2. s \in Users \cup {None}
    BY DEF TypeOK
<1>3. r.client \in Clients /\ r.uri \in Uris /\ RequestedScopes(r) \in SUBSET Scopes
  <2>1. r.client \in Clients
    BY AuthorizeAssumption
  <2>2. r.uri \in Uris
    BY Zenon DEF Uris
  <2> QED
    BY <1>1, <2>1, <2>2 DEF ScopesAreValid
<1>4. [client |-> r.client, uri |-> r.uri, scopes |-> RequestedScopes(r), user |-> s] \in Pending
    BY <1>2, <1>3 DEF Pending
<1>5. LocalTypes'
    BY <1>1, <1>4 DEF TypeOK, LocalTypes, Steps
<1>6. Only(w) /\ Keeps(w)
    BY <1>1 DEF TypeOK, Only, Keeps
<1>7. key[w] = None
    BY <1>1 DEF Placed, Equipped
<1> QED
    BY <1>0, <1>1, <1>2, <1>4, <1>5, <1>6, <1>7 DEF TypeOK

LEMMA ResolveGrantDoes ==
    ASSUME TypeInv, NEW w \in Workers, ResolveGrant(w)
    PROVE  /\ LocalTypes' /\ Only(w) /\ Keeps(w) /\ request'[w] = request[w]
           /\ \/ /\ pc[w] = "get.resolve"
                 /\ pc'[w] = (IF NeedsConsent(w) THEN "get.create" ELSE "complete.upsert")
              \/ /\ pc[w] = "post.resolve"
                 /\ pc'[w] = (IF NeedsConsent(w) THEN "update.read" ELSE "post.consume")
           /\ UNCHANGED <<registered, grants, pending, volatile, codes, cookie, pages,
                          unused, granted, opened, approved, mistaken, crossed>>
<1>0. UNCHANGED <<registered, grants, pending, volatile, codes, cookie, pages,
                     unused, granted, opened, approved, mistaken, crossed>>
    BY DEF ResolveGrant, tables, redis, browser, history
<1>1. /\ UNCHANGED <<key, form, caller, request, signed>>
      /\ \/ /\ pc[w] = "get.resolve"
            /\ pc' = [pc EXCEPT ![w] = IF NeedsConsent(w) THEN "get.create" ELSE "complete.upsert"]
         \/ /\ pc[w] = "post.resolve"
            /\ pc' = [pc EXCEPT ![w] = IF NeedsConsent(w) THEN "update.read" ELSE "post.consume"]
    BY DEF ResolveGrant, Goto, locals
<1>2. LocalTypes'
    BY <1>1 DEF TypeInv, TypeOK, LocalTypes, Steps
<1> QED
    BY <1>0, <1>1, <1>2 DEF TypeInv, TypeOK, Only, Keeps

LEMMA CreatePendingDoes ==
    ASSUME TypeInv, NEW w \in Workers, NEW t \in Tickets, CreatePending(w, t)
    PROVE  /\ LocalTypes' /\ Only(w)
           /\ pc[w] = "get.create" /\ pc'[w] = "page" /\ key'[w] = t
           /\ form'[w] = form[w] /\ signed'[w] = signed[w] /\ request'[w] = request[w]
           /\ request[w] \in Pending /\ t \in unused /\ unused' = unused \ {t}
           /\ volatile' = volatile \cup {t}
           /\ pending' \in [Tickets -> Pending \cup {None}] /\ pending'[t] = request[w]
           /\ \A q \in Tickets \ {t} : pending'[q] = pending[q]
           /\ UNCHANGED <<registered, grants, codes, cookie, pages, granted, opened,
                          approved, mistaken, crossed>>
<1>0. UNCHANGED <<registered, grants, codes, cookie, pages, granted, opened,
                     approved, mistaken, crossed>>
    BY DEF CreatePending, tables, browser
<1>1. /\ pc[w] = "get.create" /\ t \in unused /\ unused' = unused \ {t}
      /\ volatile' = volatile \cup {t}
      /\ pending' = [pending EXCEPT ![t] = request[w]]
      /\ key' = [key EXCEPT ![w] = t] /\ pc' = [pc EXCEPT ![w] = "page"]
      /\ UNCHANGED <<form, caller, request, signed>>
    BY DEF CreatePending, Goto
<1>2. request[w] \in Pending
    BY <1>1 DEF TypeInv, Placed, Equipped
<1>3. LocalTypes'
    BY <1>1 DEF TypeInv, TypeOK, LocalTypes, Steps
<1> QED
    BY <1>0, <1>1, <1>2, <1>3 DEF TypeInv, TypeOK, Only

LEMMA SendPageDoes ==
    ASSUME TypeInv, NEW w \in Workers, SendPage(w)
    PROVE  /\ LocalTypes' /\ Only(w) /\ Gone(w) /\ pc[w] = "page"
           /\ key[w] \in Tickets /\ request[w].user \in Users \cup {None}
           /\ cookie' \in Users \cup {None}
           /\ \A p \in pages' \ pages : p.ticket = key[w] /\ p.user = request[w].user
           /\ UNCHANGED <<registered, grants, pending, volatile, codes, unused, granted,
                          opened, approved, mistaken, crossed>>
<1>0. UNCHANGED <<registered, grants, pending, volatile, codes, unused, granted,
                     opened, approved, mistaken, crossed>>
    BY DEF SendPage, tables, redis, history
<1>1. pc[w] = "page" /\ Answer(w)
    BY DEF SendPage
<1>2. key[w] \in Tickets /\ request[w] \in Pending
    BY <1>1 DEF TypeInv, Placed, Equipped, TicketSteps
<1>3. \A p \in pages' \ pages : p.ticket = key[w] /\ p.user = request[w].user
    BY DEF SendPage
<1> QED
    BY <1>3, <1>0, <1>1, <1>2, AnswerDoes, TypeParts, PendingFields DEF TypeInv, RestTypes

LEMMA PostAuthorizeDoes ==
    ASSUME TypeInv, NEW w \in Workers, NEW p \in pages, NEW u \in Users \cup {None},
           NEW d \in Decisions, NEW s \in {cookie, None},
           PostAuthorize(w, p, u, d, s)
    PROVE  /\ LocalTypes' /\ Only(w)
           /\ pc[w] = "idle" /\ pc'[w] = "post.read"
           /\ key'[w] = p.ticket /\ p.ticket \in Tickets /\ p.user \in Users \cup {None}
           /\ form'[w].shown = p.user /\ form'[w].user = u /\ form'[w].decision = d
           /\ p.user = None => d = None
           /\ p.user # None => u = None
           /\ request'[w] = request[w] /\ signed'[w] = signed[w]
           /\ UNCHANGED <<registered, grants, pending, volatile, codes, cookie, pages,
                          unused, granted, opened, approved, mistaken, crossed>>
<1>0. UNCHANGED <<registered, grants, pending, volatile, codes, cookie, pages,
                     unused, granted, opened, approved, mistaken, crossed>>
    BY DEF PostAuthorize, tables, redis, browser, history
<1>1. /\ pc[w] = "idle"
      /\ IF p.user = None THEN u # None /\ d = None ELSE u = None /\ d # None
      /\ key' = [key EXCEPT ![w] = p.ticket]
      /\ form' = [form EXCEPT ![w] = [shown |-> p.user, user |-> u, decision |-> d]]
      /\ caller' = [caller EXCEPT ![w] = s]
      /\ pc' = [pc EXCEPT ![w] = "post.read"]
      /\ UNCHANGED <<request, signed>>
    BY DEF PostAuthorize, Goto
<1>2. p.ticket \in Tickets /\ p.user \in Users \cup {None} /\ s \in Users \cup {None}
    BY DEF TypeInv, TypeOK, Pages
<1>3. [shown |-> p.user, user |-> u, decision |-> d] \in Forms
    BY <1>2 DEF Forms
<1>4. LocalTypes'
    BY <1>1, <1>2, <1>3 DEF TypeInv, TypeOK, LocalTypes, Steps
<1> QED
    BY <1>0, <1>1, <1>2, <1>4 DEF TypeInv, TypeOK, Only

LEMMA ReadPendingDoes ==
    ASSUME TypeInv, NEW w \in Workers, ReadPending(w)
    PROVE  /\ LocalTypes' /\ Only(w) /\ pc[w] = "post.read" /\ key[w] \in Tickets
           /\ \/ pending[key[w]] = None /\ Gone(w)
              \/ /\ pending[key[w]] # None /\ Keeps(w)
                 /\ request'[w] = pending[key[w]] /\ pending[key[w]] \in Pending
                 /\ pc'[w] = (IF pending[key[w]].user = None THEN "post.login" ELSE "post.consent")
           /\ UNCHANGED <<registered, grants, pending, volatile, codes, cookie, pages,
                          unused, granted, opened, approved, mistaken, crossed>>
<1>0. UNCHANGED <<registered, grants, pending, volatile, codes, cookie, pages,
                     unused, granted, opened, approved, mistaken, crossed>>
    BY DEF ReadPending, tables, redis, browser, history
<1>1. pc[w] = "post.read" /\ key[w] \in Tickets
    BY DEF ReadPending, TypeInv, Placed, Equipped, TicketSteps
<1>2. CASE pending[key[w]] = None
    BY <1>0, <1>1, <1>2, DoneDoes, TypeParts DEF ReadPending, TypeInv
<1>3. CASE pending[key[w]] # None
  <2>1. /\ request' = [request EXCEPT ![w] = pending[key[w]]]
        /\ pc' = [pc EXCEPT ![w] =
                     IF pending[key[w]].user = None THEN "post.login" ELSE "post.consent"]
        /\ UNCHANGED <<key, form, caller, signed>>
    BY <1>3 DEF ReadPending, Hold, Goto
  <2>2. pending[key[w]] \in Pending
    BY <1>1, <1>3 DEF TypeInv, TypeOK
  <2>3. LocalTypes'
    BY <2>1, <2>2 DEF TypeInv, TypeOK, LocalTypes, Steps
  <2> QED
    BY <1>0, <1>1, <1>3, <2>1, <2>2, <2>3 DEF TypeInv, TypeOK, Only, Keeps
<1> QED
    BY <1>0, <1>2, <1>3

LEMMA SignInDoes ==
    ASSUME TypeInv, NEW w \in Workers, SignIn(w)
    PROVE  /\ LocalTypes' /\ Only(w) /\ pc[w] = "post.login" /\ pc'[w] = "post.resolve"
           /\ key'[w] = key[w] /\ key[w] \in Tickets /\ form'[w] = form[w]
           /\ form[w].shown = None
           /\ request'[w] \in Pending /\ SameRequest(request'[w], request[w])
           /\ request'[w].user \in Users /\ signed'[w] = request'[w].user
           /\ UNCHANGED <<registered, grants, pending, volatile, codes, cookie, pages,
                          unused, granted, opened, approved, mistaken, crossed>>
<1>0. UNCHANGED <<registered, grants, pending, volatile, codes, cookie, pages,
                     unused, granted, opened, approved, mistaken, crossed>>
    BY DEF SignIn, tables, redis, browser, history
<1>1. /\ pc[w] = "post.login" /\ form[w].user # None
      /\ signed' = [signed EXCEPT ![w] = form[w].user]
      /\ request' = [request EXCEPT ![w] = [request[w] EXCEPT !.user = form[w].user]]
      /\ pc' = [pc EXCEPT ![w] = "post.resolve"]
      /\ UNCHANGED <<key, form, caller>>
    BY DEF SignIn, Hold, Goto
<1>2. form[w].user \in Users
    BY <1>1 DEF TypeInv, TypeOK, Forms
<1>3. key[w] \in Tickets /\ request[w] \in Pending /\ form[w].shown = None
    BY <1>1 DEF TypeInv, Placed, Equipped, TicketSteps
<1>4. LET q == [request[w] EXCEPT !.user = form[w].user] IN
      q \in Pending /\ q.user = form[w].user /\ SameRequest(q, request[w])
    BY <1>2, <1>3, WithUser
<1>5. request'[w] = [request[w] EXCEPT !.user = form[w].user] /\ signed'[w] = form[w].user
    BY <1>1 DEF TypeInv, TypeOK
<1>6. LocalTypes'
    BY <1>1, <1>2, <1>4 DEF TypeInv, TypeOK, LocalTypes, Steps
<1> QED
    BY <1>0, <1>1, <1>2, <1>3, <1>4, <1>5, <1>6 DEF TypeInv, TypeOK, Only

\* GETDEL of a ticket.
LEMMA TakePendingDoes ==
    ASSUME TypeInv, NEW w \in Workers, key[w] \in Tickets, TakePending(w)
    PROVE  /\ pending' \in [Tickets -> Pending \cup {None}]
           /\ pending'[key[w]] = None
           /\ \A q \in Tickets \ {key[w]} : pending'[q] = pending[q]
           /\ volatile' = volatile \ {key[w]}
    BY DEF TakePending, TypeInv, TypeOK

LEMMA ConsumePendingDoes ==
    ASSUME TypeInv, NEW w \in Workers, ConsumePending(w)
    PROVE  /\ LocalTypes' /\ cookie' \in Users \cup {None} /\ Only(w)
           /\ pc[w] = "post.consume" /\ key[w] \in Tickets /\ TakePending(w)
           /\ \/ pending[key[w]] = None /\ Gone(w)
              \/ /\ pending[key[w]] \in Pending /\ Keeps(w) /\ pc'[w] = "complete.upsert"
                 /\ request'[w] \in Pending /\ SameRequest(request'[w], pending[key[w]])
                 /\ request'[w].user = request[w].user /\ request[w].user \in Users
           /\ UNCHANGED <<registered, grants, codes, pages, unused, granted, opened,
                          approved, mistaken, crossed>>
<1> DEFINE r == pending[key[w]]
<1>0. UNCHANGED <<registered, grants, codes, pages, unused, granted, opened,
                     approved, mistaken, crossed>>
    BY DEF ConsumePending, tables, history
<1>1. pc[w] = "post.consume" /\ TakePending(w)
    BY DEF ConsumePending
<1>2. /\ key[w] \in Tickets /\ request[w].user \in Users /\ signed[w] = request[w].user
    BY <1>1 DEF TypeInv, Placed, Equipped, TicketSteps
<1>3. LocalTypes /\ cookie \in Users \cup {None}
    BY TypeParts DEF TypeInv, RestTypes
<1>4. CASE r = None
    BY <1>1, <1>2, <1>3, <1>4, <1>0, AnswerDoes DEF ConsumePending
<1>5. CASE r # None
  <2>1. /\ request' = [request EXCEPT ![w] = [r EXCEPT !.user = signed[w]]]
        /\ pc' = [pc EXCEPT ![w] = "complete.upsert"]
        /\ UNCHANGED <<key, form, caller, signed, cookie>>
    BY <1>5 DEF ConsumePending, Hold, Goto
  <2>2. r \in Pending
    BY <1>2, <1>5 DEF TypeInv, TypeOK
  <2>3. /\ [r EXCEPT !.user = signed[w]] \in Pending
        /\ [r EXCEPT !.user = signed[w]].user = signed[w]
        /\ SameRequest([r EXCEPT !.user = signed[w]], r)
    BY <1>2, <2>2, WithUser
  <2> HIDE DEF r
  <2>4. LocalTypes'
    BY <1>3, <2>1, <2>3 DEF LocalTypes, Steps
  <2>5. /\ request'[w] = [r EXCEPT !.user = signed[w]] /\ Only(w) /\ Keeps(w)
        /\ pc'[w] = "complete.upsert"
    BY <1>3, <2>1 DEF LocalTypes, Only, Keeps
  <2> QED
    BY <1>0, <1>1, <1>2, <1>3, <2>1, <2>2, <2>3, <2>4, <2>5 DEF r
<1> QED
    BY <1>0, <1>4, <1>5

LEMMA DecideDoes ==
    ASSUME TypeInv, NEW w \in Workers, Decide(w)
    PROVE  /\ LocalTypes' /\ Only(w)
           /\ pc[w] = "post.consent" /\ key[w] \in Tickets /\ TakePending(w)
           /\ \/ Gone(w) /\ UNCHANGED approved
              \/ /\ pending[key[w]] \in Pending /\ Keeps(w) /\ pc'[w] = "complete.upsert"
                 /\ request'[w] = pending[key[w]]
                 /\ form[w].decision = "allow" /\ form[w].shown \in Users
                 /\ approved' = approved \cup ({form[w].shown} \X {pending[key[w]].client}
                                                                  \X pending[key[w]].scopes)
           /\ UNCHANGED <<registered, grants, codes, cookie, pages, unused, granted,
                          opened, mistaken, crossed>>
<1> DEFINE r == pending[key[w]]
           stops == r = None \/ caller[w] \notin {None, r.user}
<1>0. UNCHANGED <<registered, grants, codes, cookie, pages, unused, granted,
                     opened, mistaken, crossed>>
    BY DEF Decide, tables, browser
<1>1. pc[w] = "post.consent" /\ TakePending(w)
    BY DEF Decide
<1>2. key[w] \in Tickets /\ LocalTypes
    BY <1>1, TypeParts DEF TypeInv, Placed, Equipped, TicketSteps
<1>3. CASE stops \/ form[w].decision # "allow"
  <2>1. Done(w) /\ UNCHANGED approved
    BY <1>3 DEF Decide
  <2> QED
    BY <1>0, <1>1, <1>2, <2>1, DoneDoes
<1>4. CASE ~stops /\ form[w].decision = "allow"
  <2>1. /\ request' = [request EXCEPT ![w] = r]
        /\ approved' = approved \cup ({form[w].shown} \X {r.client} \X r.scopes)
        /\ pc' = [pc EXCEPT ![w] = "complete.upsert"]
        /\ UNCHANGED <<key, form, caller, signed>>
    BY <1>4 DEF Decide, Hold, Goto
  <2>2. r \in Pending
    BY <1>2, <1>4 DEF TypeInv, TypeOK
  <2>3. form[w].shown \in Users
    BY <1>2, <1>4 DEF TypeInv, Placed, Equipped, LocalTypes, Forms
  <2> HIDE DEF r
  <2>4. LocalTypes' /\ Only(w) /\ Keeps(w) /\ pc'[w] = "complete.upsert" /\ request'[w] = r
    BY <1>2, <2>1, <2>2 DEF LocalTypes, Steps, Only, Keeps
  <2> QED
    BY <1>0, <1>1, <1>2, <1>4, <2>1, <2>2, <2>3, <2>4 DEF r
<1> QED
    BY <1>0, <1>3, <1>4

\* A triple of the product of two singletons and a set.
LEMMA InProduct ==
    ASSUME NEW a, NEW b, NEW S, NEW s \in S
    PROVE  <<a, b, s>> \in {a} \X {b} \X S
    OBVIOUS

\* What an accepted Allow leaves behind.
LEMMA DecideAllows ==
    ASSUME TypeInv, NEW w \in Workers, Decide(w)
    PROVE  /\ approved \subseteq approved'
           /\ Gone(w) \/ \A s \in request'[w].scopes :
                            <<form[w].shown, request'[w].client, s>> \in approved'
<1>1. CASE Gone(w) /\ UNCHANGED approved
    BY <1>1
<1>2. CASE ~(Gone(w) /\ UNCHANGED approved)
  <2>1. PICK r, u : /\ request'[w] = r /\ form[w].shown = u
                    /\ approved' = approved \cup ({u} \X {r.client} \X r.scopes)
    BY <1>2, DecideDoes
  <2>2. \A s \in r.scopes : <<u, r.client, s>> \in {u} \X {r.client} \X r.scopes
    BY InProduct
  <2> QED
    BY <2>1, <2>2
<1> QED
    BY <1>1, <1>2

LEMMA UpdateReadDoes ==
    ASSUME TypeInv, NEW w \in Workers, UpdateRead(w)
    PROVE  /\ LocalTypes' /\ Only(w) /\ Keeps(w) /\ request'[w] = request[w]
           /\ pc[w] = "update.read" /\ key[w] \in Tickets
           /\ pc'[w] = (IF pending[key[w]] = None THEN "page" ELSE "update.set")
           /\ UNCHANGED <<registered, grants, pending, volatile, codes, cookie, pages,
                          unused, granted, opened, approved, mistaken, crossed>>
<1>0. UNCHANGED <<registered, grants, pending, volatile, codes, cookie, pages,
                     unused, granted, opened, approved, mistaken, crossed>>
    BY DEF UpdateRead, tables, redis, browser, history
<1>1. pc[w] = "update.read" /\ key[w] \in Tickets
    BY DEF UpdateRead, TypeInv, Placed, Equipped, TicketSteps
<1>2. /\ pc' = [pc EXCEPT ![w] = IF pending[key[w]] = None THEN "page" ELSE "update.set"]
      /\ UNCHANGED <<key, form, caller, request, signed>>
    BY DEF UpdateRead, Goto, locals
<1> QED
    BY <1>0, <1>1, <1>2 DEF TypeInv, TypeOK, LocalTypes, Steps, Only, Keeps

LEMMA UpdateSetDoes ==
    ASSUME TypeInv, NEW w \in Workers, UpdateSet(w)
    PROVE  /\ LocalTypes' /\ Only(w) /\ Keeps(w) /\ request'[w] = request[w]
           /\ pc[w] = "update.set" /\ pc'[w] = "page"
           /\ key[w] \in Tickets /\ request[w] \in Pending /\ request[w].user \in Users
           /\ pending' \in [Tickets -> Pending \cup {None}]
           /\ pending'[key[w]] = request[w]
           /\ \A q \in Tickets \ {key[w]} : pending'[q] = pending[q]
           /\ crossed \subseteq crossed' /\ crossed' \subseteq crossed \cup {key[w]}
           /\ volatile' = volatile \/ (pending[key[w]] = None /\ volatile' = volatile \ {key[w]})
           /\ key[w] \notin crossed' =>
                pending[key[w]] \in Pending /\ pending[key[w]].user = None
           /\ UNCHANGED <<registered, grants, codes, cookie, pages, unused, granted,
                          opened, approved, mistaken>>
<1>0. UNCHANGED <<registered, grants, codes, cookie, pages, unused, granted,
                     opened, approved, mistaken>>
    BY DEF UpdateSet, tables, browser
<1>1. /\ pc[w] = "update.set" /\ pc' = [pc EXCEPT ![w] = "page"]
      /\ UNCHANGED <<key, form, caller, request, signed>>
      /\ pending' = [pending EXCEPT ![key[w]] = request[w]]
      /\ volatile' = KeepTtl(w)
      /\ crossed' = IF Changed(w) THEN crossed \cup {key[w]} ELSE crossed
    BY DEF UpdateSet, Goto, locals, Updated
<1>2. key[w] \in Tickets /\ request[w] \in Pending /\ request[w].user \in Users
    BY <1>1 DEF TypeInv, Placed, Equipped, TicketSteps
<1>3. LocalTypes' /\ Only(w) /\ Keeps(w) /\ request'[w] = request[w] /\ pc'[w] = "page"
    BY <1>1 DEF TypeInv, TypeOK, LocalTypes, Steps, Only, Keeps
<1>4. /\ pending' \in [Tickets -> Pending \cup {None}]
      /\ pending'[key[w]] = request[w]
      /\ \A q \in Tickets \ {key[w]} : pending'[q] = pending[q]
    BY <1>1, <1>2 DEF TypeInv, TypeOK
<1>5. key[w] \notin crossed' => pending[key[w]] \in Pending /\ pending[key[w]].user = None
  <2>1. /\ [request[w] EXCEPT !.user = None] \in Pending
        /\ [request[w] EXCEPT !.user = None].user = None
    BY <1>2, WithUser
  <2>2. key[w] \notin crossed' => pending[key[w]] = [request[w] EXCEPT !.user = None]
    BY <1>1 DEF Changed
  <2> QED
    BY <2>1, <2>2
<1> QED
    BY <1>0, <1>1, <1>2, <1>3, <1>4, <1>5 DEF KeepTtl

\* Of the actions that change a nested record or a set of records, the rest first.
LEMMA UpsertGrantMoves ==
    ASSUME TypeInv, NEW w \in Workers, UpsertGrant(w)
    PROVE  /\ LocalTypes' /\ Only(w) /\ Keeps(w) /\ request'[w] = request[w]
           /\ pc[w] = "complete.upsert" /\ pc'[w] = "complete.issue"
           /\ request[w] \in Pending /\ request[w].user \in Users
           /\ UNCHANGED <<registered, pending, volatile, codes, cookie, pages, unused,
                          granted, opened, approved, crossed>>
<1>0. UNCHANGED <<registered, pending, volatile, codes, cookie, pages, unused,
                     granted, opened, approved, crossed>>
    BY DEF UpsertGrant, redis, browser
<1>1. /\ pc[w] = "complete.upsert" /\ pc' = [pc EXCEPT ![w] = "complete.issue"]
      /\ UNCHANGED <<key, form, caller, request, signed>>
    BY DEF UpsertGrant, Goto, locals
<1>2. request[w] \in Pending /\ request[w].user \in Users
    BY <1>1 DEF TypeInv, Placed, Equipped, Completing
<1> QED
    BY <1>0, <1>1, <1>2 DEF TypeInv, TypeOK, LocalTypes, Steps, Only, Keeps

LEMMA UpsertGrantDoes ==
    ASSUME TypeInv, NEW w \in Workers, UpsertGrant(w)
    PROVE  LET r == request[w] IN
           /\ grants' \in [Users -> [Clients -> SUBSET Scopes]]
           /\ \A u \in Users, c \in Clients :
                grants'[u][c] = IF u = r.user /\ c = r.client THEN grants[u][c] \cup r.scopes
                                                              ELSE grants[u][c]
           /\ mistaken' = IF form[w].shown \notin {None, r.user}
                            THEN mistaken \cup ({r.user} \X {r.client} \X r.scopes) ELSE mistaken
<1> DEFINE r == request[w]
           row == [grants[r.user] EXCEPT ![r.client] = @ \cup r.scopes]
<1>1. /\ grants' = [grants EXCEPT ![r.user] = row]
      /\ mistaken' = IF form[w].shown \notin {None, r.user}
                       THEN mistaken \cup ({r.user} \X {r.client} \X r.scopes) ELSE mistaken
    BY DEF UpsertGrant
<1>2. r \in Pending /\ r.user \in Users
    BY UpsertGrantMoves
<1>3. r.client \in Clients /\ r.scopes \subseteq Scopes
    BY <1>2, PendingFields
<1> HIDE DEF r
<1>5. /\ row \in [Clients -> SUBSET Scopes]
      /\ row[r.client] = grants[r.user][r.client] \cup r.scopes
      /\ \A c \in Clients \ {r.client} : row[c] = grants[r.user][c]
    BY <1>2, <1>3 DEF TypeInv, TypeOK
<1> HIDE DEF row
<1>6. /\ grants' \in [Users -> [Clients -> SUBSET Scopes]]
      /\ grants'[r.user] = row /\ \A u \in Users \ {r.user} : grants'[u] = grants[u]
    BY <1>1, <1>2, <1>5 DEF TypeInv, TypeOK
<1>7. \A u \in Users, c \in Clients :
        grants'[u][c] = IF u = r.user /\ c = r.client THEN grants[u][c] \cup r.scopes
                                                      ELSE grants[u][c]
    BY <1>2, <1>5, <1>6
<1> QED
    BY <1>1, <1>6, <1>7 DEF r

\* What a form that shows somebody else leaves behind.
LEMMA UpsertGrantAllows ==
    ASSUME TypeInv, NEW w \in Workers, UpsertGrant(w)
    PROVE  /\ mistaken \subseteq mistaken'
           /\ form[w].shown \in {None, request[w].user} => mistaken' = mistaken
           /\ form[w].shown \notin {None, request[w].user} =>
                \A s \in request[w].scopes :
                    <<request[w].user, request[w].client, s>> \in mistaken'
<1>1. CASE form[w].shown \in {None, request[w].user}
    BY <1>1, UpsertGrantDoes
<1>2. CASE form[w].shown \notin {None, request[w].user}
  <2>1. PICK r : request[w] = r
    OBVIOUS
  <2>2. mistaken' = mistaken \cup ({r.user} \X {r.client} \X r.scopes)
    BY <1>2, <2>1, UpsertGrantDoes
  <2>3. \A s \in r.scopes : <<r.user, r.client, s>> \in {r.user} \X {r.client} \X r.scopes
    BY InProduct
  <2> QED
    BY <1>2, <2>1, <2>2, <2>3
<1> QED
    BY <1>1, <1>2

LEMMA IssueCodeMoves ==
    ASSUME TypeInv, NEW w \in Workers, NEW c \in Codes, IssueCode(w, c)
    PROVE  /\ LocalTypes' /\ cookie' \in Users \cup {None} /\ Only(w) /\ Gone(w)
           /\ pc[w] = "complete.issue" /\ key[w] \in Tickets \cup {None}
           /\ request[w] \in Pending /\ request[w].user \in Users
           /\ c \in unused /\ unused' = unused \ {c}
           /\ codes' \in [Codes -> Pending \cup {None}] /\ codes'[c] = request[w]
           /\ \A d \in Codes \ {c} : codes'[d] = codes[d]
           /\ UNCHANGED <<registered, grants, pending, volatile, pages, opened, approved,
                          mistaken, crossed>>
<1>0. UNCHANGED <<registered, grants, pending, volatile, pages, opened, approved,
                     mistaken, crossed>>
    BY DEF IssueCode, tables
<1>1. /\ pc[w] = "complete.issue" /\ Answer(w)
      /\ c \in unused /\ unused' = unused \ {c}
      /\ codes' = [codes EXCEPT ![c] = request[w]]
    BY DEF IssueCode
<1>2. request[w] \in Pending /\ request[w].user \in Users /\ key[w] \in Tickets \cup {None}
    BY <1>1 DEF TypeInv, Placed, Equipped, Completing
<1>3. LocalTypes' /\ cookie' \in Users \cup {None} /\ Only(w) /\ Gone(w)
    BY <1>1, AnswerDoes, TypeParts DEF TypeInv, RestTypes
<1>4. /\ codes' \in [Codes -> Pending \cup {None}] /\ codes'[c] = request[w]
      /\ \A d \in Codes \ {c} : codes'[d] = codes[d]
    BY <1>1, <1>2 DEF TypeInv, TypeOK
<1> QED
    BY <1>0, <1>1, <1>2, <1>3, <1>4

\* The record of the code.
LEMMA IssueCodeDoes ==
    ASSUME TypeInv, NEW w \in Workers, NEW c \in Codes, IssueCode(w, c)
    PROVE  \E g \in [code : Codes, ticket : Tickets \cup {None}, user : Users,
                     client : Clients, scopes : SUBSET Scopes] :
            /\ granted' = granted \cup {g} /\ g.ticket = key[w] /\ g.code = c
            /\ g.user = request[w].user /\ SameRequest(g, request[w])
<1> DEFINE r == request[w]
           g == [code |-> c, ticket |-> key[w], user |-> r.user, client |-> r.client,
                 scopes |-> r.scopes]
<1>1. granted' = granted \cup {g}
    BY DEF IssueCode
<1>2. r \in Pending /\ r.user \in Users /\ key[w] \in Tickets \cup {None}
    BY IssueCodeMoves
<1>3. r.client \in Clients /\ r.scopes \subseteq Scopes
    BY <1>2, PendingFields
<1> HIDE DEF r
<1>4. g \in [code : Codes, ticket : Tickets \cup {None}, user : Users,
             client : Clients, scopes : SUBSET Scopes]
    BY <1>2, <1>3
<1>5. g.ticket = key[w] /\ g.code = c /\ g.user = r.user /\ SameRequest(g, r)
    BY DEF SameRequest
<1>6. g.user = request[w].user /\ SameRequest(g, request[w])
    BY <1>5 DEF r
<1> HIDE DEF g
<1> QED
    BY <1>1, <1>4, <1>5, <1>6

LEMMA ExchangeCodeDoes ==
    ASSUME TypeInv, NEW w \in Workers, NEW c \in Codes, NEW bound \in BOOLEAN,
           ExchangeCode(w, c, bound)
    PROVE  /\ LocalTypes' /\ Only(w) /\ pc[w] = "idle"
           /\ form'[w] = form[w] /\ signed'[w] = signed[w]
           /\ codes[c] # None /\ codes' \in [Codes -> Pending \cup {None}] /\ codes'[c] = None
           /\ \A d \in Codes \ {c} : codes'[d] = codes[d]
           /\ \/ pc'[w] = "token.insert" /\ key'[w] = c /\ request'[w] \in Pending
              \/ pc'[w] = pc[w] /\ key'[w] = key[w] /\ request'[w] = request[w]
           /\ UNCHANGED <<registered, grants, pending, volatile, cookie, pages, unused,
                          granted, opened, approved, mistaken, crossed>>
<1>0. UNCHANGED <<registered, grants, pending, volatile, cookie, pages, unused,
                     granted, opened, approved, mistaken, crossed>>
    BY DEF ExchangeCode, tables, browser, history
<1>1. /\ pc[w] = "idle" /\ codes[c] # None /\ codes' = [codes EXCEPT ![c] = None]
      /\ UNCHANGED <<form, caller, signed>>
    BY DEF ExchangeCode, TakeCode
<1>2. codes[c] \in Pending
    BY <1>1 DEF TypeInv, TypeOK
<1>3. /\ codes' \in [Codes -> Pending \cup {None}] /\ codes'[c] = None
      /\ \A d \in Codes \ {c} : codes'[d] = codes[d]
    BY <1>1 DEF TypeInv, TypeOK
<1>4. CASE bound
  <2>1. /\ request' = [request EXCEPT ![w] = codes[c]] /\ key' = [key EXCEPT ![w] = c]
        /\ pc' = [pc EXCEPT ![w] = "token.insert"]
    BY <1>4 DEF ExchangeCode, Hold, Goto
  <2>2. LocalTypes' /\ Only(w) /\ pc'[w] = "token.insert" /\ key'[w] = c /\ request'[w] = codes[c]
        /\ form'[w] = form[w] /\ signed'[w] = signed[w]
    BY <1>1, <1>2, <2>1 DEF TypeInv, TypeOK, LocalTypes, Steps, Only
  <2> QED
    BY <1>0, <1>1, <1>2, <1>3, <2>2
<1>5. CASE ~bound
  <2>1. UNCHANGED <<pc, key, request>>
    BY <1>5 DEF ExchangeCode
  <2> QED
    BY <1>0, <1>1, <1>3, <2>1 DEF TypeInv, TypeOK, LocalTypes, Only
<1> QED
    BY <1>0, <1>4, <1>5

LEMMA OpenConnectionMoves ==
    ASSUME TypeInv, NEW w \in Workers, OpenConnection(w)
    PROVE  /\ LocalTypes' /\ Only(w) /\ Gone(w) /\ pc[w] = "token.insert" /\ key[w] \in Codes
           /\ UNCHANGED <<registered, grants, pending, volatile, codes, cookie, pages,
                          unused, granted, approved, mistaken, crossed>>
<1>0. UNCHANGED <<registered, grants, pending, volatile, codes, cookie, pages,
                     unused, granted, approved, mistaken, crossed>>
    BY DEF OpenConnection, tables, redis, browser
<1>1. pc[w] = "token.insert" /\ Done(w)
    BY DEF OpenConnection
<1>2. key[w] \in Codes
    BY <1>1 DEF TypeInv, Placed, Equipped
<1> QED
    BY <1>0, <1>1, <1>2, DoneDoes, TypeParts DEF TypeInv

LEMMA OpenConnectionDoes ==
    ASSUME TypeInv, NEW w \in Workers, OpenConnection(w)
    PROVE  /\ opened' \in [Codes -> Nat] /\ opened'[key[w]] = opened[key[w]] + 1
           /\ \A d \in Codes \ {key[w]} : opened'[d] = opened[d]
<1>1. opened' = [opened EXCEPT ![key[w]] = @ + 1] /\ key[w] \in Codes /\ opened \in [Codes -> Nat]
    BY OpenConnectionMoves DEF OpenConnection, TypeInv, TypeOK
<1> QED
    BY <1>1

LEMMA FailDoes ==
    ASSUME TypeInv, NEW w \in Workers, Fail(w)
    PROVE  /\ LocalTypes' /\ Only(w) /\ Gone(w) /\ cookie' \in Users \cup {None}
           /\ UNCHANGED <<registered, grants, pending, volatile, codes, pages, unused,
                          granted, opened, approved, mistaken, crossed>>
    BY AnswerDoes, DoneDoes, TypeParts DEF Fail, tables, redis, history, TypeInv, RestTypes

LEMMA TicketExpiresDoes ==
    ASSUME TypeInv, NEW t \in Tickets, TicketExpires(t)
    PROVE  /\ pending' \in [Tickets -> Pending \cup {None}] /\ pending'[t] = None
           /\ \A q \in Tickets \ {t} : pending'[q] = pending[q]
           /\ volatile' = volatile \ {t}
           /\ UNCHANGED <<registered, grants, codes, cookie, pages, unused, granted,
                          opened, approved, mistaken, crossed, pc, caller, key, form, request,
                          signed>>
    BY DEF TicketExpires, tables, locals, browser, history, TypeInv, TypeOK

LEMMA CodeExpiresDoes ==
    ASSUME TypeInv, NEW c \in Codes, CodeExpires(c)
    PROVE  /\ codes' \in [Codes -> Pending \cup {None}] /\ codes'[c] = None
           /\ \A d \in Codes \ {c} : codes'[d] = codes[d]
           /\ UNCHANGED <<registered, grants, pending, volatile, cookie, pages, unused,
                          granted, opened, approved, mistaken, crossed, pc, caller, key, form,
                          request, signed>>
    BY DEF CodeExpires, tables, locals, browser, history, TypeInv, TypeOK

\* The initial types.
LEMMA TypeInit == Init => TypeInv
<1> SUFFICES ASSUME Init PROVE TypeInv
    OBVIOUS
<1>1. TypeOK
    BY DEF Init, TypeOK, Steps, Forms, Empty, Decisions
<1>2. Placed
    BY AuthorizeAssumption DEF Init, Placed, Equipped, Empty, TicketSteps, Completing
<1> QED
    BY <1>1, <1>2 DEF TypeInv

\* The types of tables, tickets, codes and history.
LEMMA RestTypesNext ==
    ASSUME TypeInv, [Next]_vars
    PROVE  RestTypes'
<1>1. ASSUME NEW c \in Clients, NEW m \in Metadata, RegisterClient(c, m)
      PROVE  RestTypes'
    BY <1>1, TypeParts DEF TypeInv, RestTypes, RegisterClient, redis, browser, history
<1>2. ASSUME NEW w \in Workers, NEW r \in Requests, NEW s \in {cookie, None}, GetAuthorize(w, r, s)
      PROVE  RestTypes'
    BY <1>2, GetAuthorizeDoes, TypeParts DEF TypeInv, RestTypes
<1>3. ASSUME NEW w \in Workers, ResolveGrant(w)
      PROVE  RestTypes'
    BY <1>3, ResolveGrantDoes, TypeParts DEF TypeInv, RestTypes
<1>4. ASSUME NEW w \in Workers, SendPage(w)
      PROVE  RestTypes'
  <2>1. pages' = pages \cup {[ticket |-> key[w], user |-> request[w].user]}
    BY <1>4 DEF SendPage
  <2>2. [ticket |-> key[w], user |-> request[w].user] \in Pages
    BY <1>4, SendPageDoes DEF Pages
  <2>3. pages' \subseteq Pages
    BY <2>1, <2>2, TypeParts DEF TypeInv, RestTypes
  <2> QED
    BY <1>4, <2>3, SendPageDoes, TypeParts DEF TypeInv, RestTypes
<1>5. ASSUME NEW w \in Workers, NEW t \in Tickets, CreatePending(w, t)
      PROVE  RestTypes'
    BY <1>5, CreatePendingDoes, TypeParts DEF TypeInv, RestTypes
<1>6. ASSUME NEW w \in Workers, NEW p \in pages, NEW u \in Users \cup {None},
             NEW d \in Decisions, NEW s \in {cookie, None}, PostAuthorize(w, p, u, d, s)
      PROVE  RestTypes'
  <2>1. UNCHANGED <<registered, grants, pending, volatile, codes, cookie, pages,
                     unused, granted, opened, approved, mistaken, crossed>>
    BY <1>6 DEF PostAuthorize, tables, redis, browser, history
  <2> QED
    BY <2>1, TypeParts DEF TypeInv, RestTypes
<1>7. ASSUME NEW w \in Workers, ReadPending(w)
      PROVE  RestTypes'
    BY <1>7, ReadPendingDoes, TypeParts DEF TypeInv, RestTypes
<1>8. ASSUME NEW w \in Workers, SignIn(w)
      PROVE  RestTypes'
    BY <1>8, SignInDoes, TypeParts DEF TypeInv, RestTypes
<1>9. ASSUME NEW w \in Workers, ConsumePending(w)
      PROVE  RestTypes'
  <2>1. pending' \in [Tickets -> Pending \cup {None}] /\ volatile' \subseteq Tickets
    BY <1>9, ConsumePendingDoes, TakePendingDoes DEF TypeInv, TypeOK
  <2> QED
    BY <1>9, <2>1, ConsumePendingDoes, TypeParts DEF TypeInv, RestTypes
<1>10. ASSUME NEW w \in Workers, Decide(w)
      PROVE  RestTypes'
  <2>1. approved' \subseteq Approvals
    <3>1. CASE UNCHANGED approved
      BY <3>1 DEF TypeInv, TypeOK
    <3>2. CASE ~UNCHANGED approved
      <4>1. /\ pending[key[w]] \in Pending /\ form[w].shown \in Users
            /\ approved' = approved \cup ({form[w].shown} \X {pending[key[w]].client}
                                                              \X pending[key[w]].scopes)
        BY <1>10, <3>2, DecideDoes
      <4>2. pending[key[w]].client \in Clients /\ pending[key[w]].scopes \subseteq Scopes
        BY <4>1, PendingFields
      <4> QED
        BY <4>1, <4>2 DEF TypeInv, TypeOK, Approvals
    <3> QED
      BY <3>1, <3>2
  <2>2. /\ pending' \in [Tickets -> Pending \cup {None}] /\ volatile' \subseteq Tickets
    BY <1>10, DecideDoes, TakePendingDoes DEF TypeInv, TypeOK
  <2> QED
    BY <1>10, <2>1, <2>2, TypeParts DEF TypeInv, RestTypes, Decide, tables, browser
<1>11. ASSUME NEW w \in Workers, UpdateRead(w)
      PROVE  RestTypes'
    BY <1>11, UpdateReadDoes, TypeParts DEF TypeInv, RestTypes
<1>12. ASSUME NEW w \in Workers, UpdateSet(w)
      PROVE  RestTypes'
  <2>1. pending' \in [Tickets -> Pending \cup {None}] /\ volatile' \subseteq Tickets
    BY <1>12, UpdateSetDoes DEF TypeInv, TypeOK
  <2>2. crossed' \subseteq Tickets
    BY <1>12, UpdateSetDoes DEF TypeInv, TypeOK
  <2> QED
    BY <1>12, <2>1, TypeParts DEF TypeInv, RestTypes, UpdateSet, tables, browser
<1>13. ASSUME NEW w \in Workers, UpsertGrant(w)
      PROVE  RestTypes'
  <2>1. request[w] \in Pending /\ request[w].user \in Users
    BY <1>13, UpsertGrantMoves
  <2>2. request[w].client \in Clients /\ request[w].scopes \subseteq Scopes
    BY <2>1, PendingFields
  <2>3. {request[w].user} \X {request[w].client} \X request[w].scopes \subseteq Approvals
    BY <2>1, <2>2 DEF Approvals
  <2>4. mistaken' \subseteq Approvals /\ grants' \in [Users -> [Clients -> SUBSET Scopes]]
    BY <1>13, <2>3, UpsertGrantDoes, TypeParts DEF TypeInv, RestTypes
  <2> QED
    BY <1>13, <2>4, TypeParts DEF TypeInv, RestTypes, UpsertGrant, redis, browser
<1>14. ASSUME NEW w \in Workers, OpenConnection(w)
      PROVE  RestTypes'
    BY <1>14, OpenConnectionMoves, OpenConnectionDoes, TypeParts DEF TypeInv, RestTypes
<1>15. ASSUME NEW w \in Workers, NEW c \in Codes, IssueCode(w, c)
      PROVE  RestTypes'
  <2>1. PICK g \in [code : Codes, ticket : Tickets \cup {None}, user : Users,
                   client : Clients, scopes : SUBSET Scopes] : granted' = granted \cup {g}
    BY <1>15, IssueCodeDoes
  <2>2. granted' \subseteq [code : Codes, ticket : Tickets \cup {None}, user : Users,
                         client : Clients, scopes : SUBSET Scopes]
    BY <2>1 DEF TypeInv, TypeOK
  <2> QED
    BY <1>15, <2>2, IssueCodeMoves, TypeParts DEF TypeInv, RestTypes
<1>16. ASSUME NEW w \in Workers, NEW c \in Codes, NEW bound \in BOOLEAN, ExchangeCode(w, c, bound)
      PROVE  RestTypes'
    BY <1>16, ExchangeCodeDoes, TypeParts DEF TypeInv, RestTypes
<1>17. ASSUME NEW w \in Workers, Fail(w)
      PROVE  RestTypes'
    BY <1>17, FailDoes, TypeParts DEF TypeInv, RestTypes
<1>18. ASSUME NEW t \in Tickets, TicketExpires(t)
      PROVE  RestTypes'
    BY <1>18, TicketExpiresDoes, TypeParts DEF TypeInv, RestTypes
<1>19. ASSUME NEW c \in Codes, CodeExpires(c)
      PROVE  RestTypes'
    BY <1>19, CodeExpiresDoes, TypeParts DEF TypeInv, RestTypes
<1>20. CASE UNCHANGED vars
    BY <1>20, TypeParts DEF TypeInv, RestTypes, vars, tables, redis, browser, history
<1> QED
    BY <1>1, <1>2, <1>3, <1>4, <1>5, <1>6, <1>7, <1>8, <1>9, <1>10, <1>11, <1>12, <1>13,
       <1>14, <1>15, <1>16, <1>17, <1>18, <1>19, <1>20
    DEF Next, Get, Post, Complete

\* The types of what handlers keep.
LEMMA LocalTypesNext ==
    ASSUME TypeInv, [Next]_vars
    PROVE  LocalTypes'
<1>1. ASSUME NEW c \in Clients, NEW m \in Metadata, RegisterClient(c, m)
      PROVE  LocalTypes'
    BY <1>1, TypeParts DEF TypeInv, LocalTypes, RegisterClient, locals
<1>2. ASSUME NEW w \in Workers, NEW r \in Requests, NEW s \in {cookie, None}, GetAuthorize(w, r, s)
      PROVE  LocalTypes'
    BY <1>2, GetAuthorizeDoes
<1>3. ASSUME NEW w \in Workers, ResolveGrant(w)
      PROVE  LocalTypes'
    BY <1>3, ResolveGrantDoes
<1>4. ASSUME NEW w \in Workers, SendPage(w)
      PROVE  LocalTypes'
    BY <1>4, SendPageDoes
<1>5. ASSUME NEW w \in Workers, NEW t \in Tickets, CreatePending(w, t)
      PROVE  LocalTypes'
    BY <1>5, CreatePendingDoes
<1>6. ASSUME NEW w \in Workers, NEW p \in pages, NEW u \in Users \cup {None},
             NEW d \in Decisions, NEW s \in {cookie, None}, PostAuthorize(w, p, u, d, s)
      PROVE  LocalTypes'
    BY <1>6, PostAuthorizeDoes
<1>7. ASSUME NEW w \in Workers, ReadPending(w)
      PROVE  LocalTypes'
    BY <1>7, ReadPendingDoes
<1>8. ASSUME NEW w \in Workers, SignIn(w)
      PROVE  LocalTypes'
    BY <1>8, SignInDoes
<1>9. ASSUME NEW w \in Workers, ConsumePending(w)
      PROVE  LocalTypes'
    BY <1>9, ConsumePendingDoes
<1>10. ASSUME NEW w \in Workers, Decide(w)
      PROVE  LocalTypes'
    BY <1>10, DecideDoes
<1>11. ASSUME NEW w \in Workers, UpdateRead(w)
      PROVE  LocalTypes'
    BY <1>11, UpdateReadDoes
<1>12. ASSUME NEW w \in Workers, UpdateSet(w)
      PROVE  LocalTypes'
    BY <1>12, UpdateSetDoes
<1>13. ASSUME NEW w \in Workers, UpsertGrant(w)
      PROVE  LocalTypes'
    BY <1>13, UpsertGrantMoves
<1>14. ASSUME NEW w \in Workers, OpenConnection(w)
      PROVE  LocalTypes'
    BY <1>14, OpenConnectionMoves
<1>15. ASSUME NEW w \in Workers, NEW c \in Codes, IssueCode(w, c)
      PROVE  LocalTypes'
    BY <1>15, IssueCodeMoves
<1>16. ASSUME NEW w \in Workers, NEW c \in Codes, NEW bound \in BOOLEAN, ExchangeCode(w, c, bound)
      PROVE  LocalTypes'
    BY <1>16, ExchangeCodeDoes
<1>17. ASSUME NEW w \in Workers, Fail(w)
      PROVE  LocalTypes'
    BY <1>17, FailDoes
<1>18. ASSUME NEW t \in Tickets, TicketExpires(t)
      PROVE  LocalTypes'
    BY <1>18, TicketExpiresDoes, TypeParts DEF TypeInv, LocalTypes
<1>19. ASSUME NEW c \in Codes, CodeExpires(c)
      PROVE  LocalTypes'
    BY <1>19, CodeExpiresDoes, TypeParts DEF TypeInv, LocalTypes
<1>20. CASE UNCHANGED vars
    BY <1>20, TypeParts DEF TypeInv, LocalTypes, vars, locals
<1> QED
    BY <1>1, <1>2, <1>3, <1>4, <1>5, <1>6, <1>7, <1>8, <1>9, <1>10, <1>11, <1>12, <1>13,
       <1>14, <1>15, <1>16, <1>17, <1>18, <1>19, <1>20
    DEF Next, Get, Post, Complete

\* A handler that reaches a step has what it needs there: after post.consent that
\* takes Deciding.
LEMMA PlacedNext ==
    ASSUME TypeInv, Deciding, [Next]_vars
    PROVE  Placed'
<1>1. ASSUME NEW c \in Clients, NEW m \in Metadata, RegisterClient(c, m)
      PROVE  Placed'
    BY <1>1 DEF TypeInv, Placed, Equipped, RegisterClient, locals
<1>2. ASSUME NEW w \in Workers, NEW r \in Requests, NEW s \in {cookie, None}, GetAuthorize(w, r, s)
      PROVE  Placed'
  <2>1. Equipped(w)
    BY DEF TypeInv, Placed
  <2>2. Equipped(w)'
    BY <1>2, <2>1, GetAuthorizeDoes DEF Equipped, TicketSteps, Completing, Keeps
  <2> QED
    BY <1>2, <2>2, GetAuthorizeDoes, PlacedByOne DEF TypeInv
<1>3. ASSUME NEW w \in Workers, ResolveGrant(w)
      PROVE  Placed'
  <2>1. Equipped(w)
    BY DEF TypeInv, Placed
  <2>2. Equipped(w)'
    BY <1>3, <2>1, ResolveGrantDoes DEF Equipped, TicketSteps, Keeps
  <2> QED
    BY <1>3, <2>2, ResolveGrantDoes, PlacedByOne DEF TypeInv
<1>4. ASSUME NEW w \in Workers, SendPage(w)
      PROVE  Placed'
    BY <1>4, SendPageDoes, PlacedWhenGone DEF TypeInv
<1>5. ASSUME NEW w \in Workers, NEW t \in Tickets, CreatePending(w, t)
      PROVE  Placed'
  <2>1. Equipped(w)
    BY DEF TypeInv, Placed
  <2>2. Equipped(w)'
    BY <1>5, <2>1, CreatePendingDoes DEF Equipped, Completing
  <2> QED
    BY <1>5, <2>2, CreatePendingDoes, PlacedByOne DEF TypeInv
<1>6. ASSUME NEW w \in Workers, NEW p \in pages, NEW u \in Users \cup {None},
             NEW d \in Decisions, NEW s \in {cookie, None}, PostAuthorize(w, p, u, d, s)
      PROVE  Placed'
  <2>1. /\ pc'[w] = "post.read" /\ key'[w] \in Tickets
        /\ form'[w].shown = p.user /\ form'[w].user = u /\ form'[w].decision = d
        /\ p.user = None => d = None
        /\ p.user # None => u = None
        /\ Only(w)
    BY <1>6, PostAuthorizeDoes
  <2>2. Equipped(w)'
    BY <2>1, AuthorizeAssumption DEF Equipped, Completing
  <2> QED
    BY <2>1, <2>2, PlacedByOne DEF TypeInv
<1>7. ASSUME NEW w \in Workers, ReadPending(w)
      PROVE  Placed'
  <2>1. CASE Gone(w)
    BY <1>7, <2>1, ReadPendingDoes, PlacedWhenGone DEF TypeInv
  <2>2. CASE ~Gone(w)
    <3>1. Equipped(w)
      BY DEF TypeInv, Placed
    <3>2. Equipped(w)'
      BY <1>7, <2>2, <3>1, ReadPendingDoes DEF Equipped, Completing, Keeps
    <3> QED
      BY <1>7, <3>2, ReadPendingDoes, PlacedByOne DEF TypeInv
  <2> QED
    BY <2>1, <2>2
<1>8. ASSUME NEW w \in Workers, SignIn(w)
      PROVE  Placed'
  <2>1. Equipped(w)
    BY DEF TypeInv, Placed
  <2>2. Equipped(w)'
    BY <1>8, <2>1, SignInDoes DEF Equipped
  <2> QED
    BY <1>8, <2>2, SignInDoes, PlacedByOne DEF TypeInv
<1>9. ASSUME NEW w \in Workers, ConsumePending(w)
      PROVE  Placed'
  <2>1. CASE Gone(w)
    BY <1>9, <2>1, ConsumePendingDoes, PlacedWhenGone DEF TypeInv
  <2>2. CASE ~Gone(w)
    <3>1. Equipped(w)
      BY DEF TypeInv, Placed
    <3>2. Equipped(w)'
      BY <1>9, <2>2, <3>1, ConsumePendingDoes DEF Equipped, Keeps
    <3> QED
      BY <1>9, <3>2, ConsumePendingDoes, PlacedByOne DEF TypeInv
  <2> QED
    BY <2>1, <2>2
<1>10. ASSUME NEW w \in Workers, Decide(w)
      PROVE  Placed'
  <2>1. CASE Gone(w)
    BY <1>10, <2>1, DecideDoes, PlacedWhenGone DEF TypeInv
  <2>2. CASE ~Gone(w)
    <3>1. /\ key'[w] = key[w] /\ key[w] \in Tickets /\ pc'[w] = "complete.upsert"
          /\ request'[w] = pending[key[w]] /\ pending[key[w]] \in Pending
          /\ form'[w] = form[w] /\ Only(w) /\ pc[w] = "post.consent"
      BY <1>10, <2>2, DecideDoes DEF Keeps
    <3>2. pending[key[w]].user # None /\ pending[key[w]].user \in Users
      BY <3>1, PendingFields DEF Deciding
    <3>3. Equipped(w)
      BY DEF TypeInv, Placed
    <3>4. Equipped(w)'
      BY <3>1, <3>2, <3>3 DEF Equipped
    <3> QED
      BY <3>1, <3>4, PlacedByOne DEF TypeInv
  <2> QED
    BY <2>1, <2>2
<1>11. ASSUME NEW w \in Workers, UpdateRead(w)
      PROVE  Placed'
  <2>1. Equipped(w)
    BY DEF TypeInv, Placed
  <2>2. Equipped(w)'
    BY <1>11, <2>1, UpdateReadDoes DEF Equipped, Keeps
  <2> QED
    BY <1>11, <2>2, UpdateReadDoes, PlacedByOne DEF TypeInv
<1>12. ASSUME NEW w \in Workers, UpdateSet(w)
      PROVE  Placed'
  <2>1. Equipped(w)
    BY DEF TypeInv, Placed
  <2>2. Equipped(w)'
    BY <1>12, <2>1, UpdateSetDoes DEF Equipped, Keeps
  <2> QED
    BY <1>12, <2>2, UpdateSetDoes, PlacedByOne DEF TypeInv
<1>13. ASSUME NEW w \in Workers, UpsertGrant(w)
      PROVE  Placed'
  <2>1. Equipped(w)
    BY DEF TypeInv, Placed
  <2>2. Equipped(w)'
    BY <1>13, <2>1, UpsertGrantMoves DEF Equipped, TicketSteps, Completing, Keeps
  <2> QED
    BY <1>13, <2>2, UpsertGrantMoves, PlacedByOne DEF TypeInv
<1>14. ASSUME NEW w \in Workers, OpenConnection(w)
      PROVE  Placed'
    BY <1>14, OpenConnectionMoves, PlacedWhenGone DEF TypeInv
<1>15. ASSUME NEW w \in Workers, NEW c \in Codes, IssueCode(w, c)
      PROVE  Placed'
    BY <1>15, IssueCodeMoves, PlacedWhenGone DEF TypeInv
<1>16. ASSUME NEW w \in Workers, NEW c \in Codes, NEW bound \in BOOLEAN, ExchangeCode(w, c, bound)
      PROVE  Placed'
  <2>1. Equipped(w)
    BY DEF TypeInv, Placed
  <2>2. Equipped(w)'
    BY <1>16, <2>1, ExchangeCodeDoes DEF Equipped, TicketSteps, Completing
  <2> QED
    BY <1>16, <2>2, ExchangeCodeDoes, PlacedByOne DEF TypeInv
<1>17. ASSUME NEW w \in Workers, Fail(w)
      PROVE  Placed'
    BY <1>17, FailDoes, PlacedWhenGone DEF TypeInv
<1>18. ASSUME NEW t \in Tickets, TicketExpires(t)
      PROVE  Placed'
    BY <1>18 DEF TypeInv, Placed, Equipped, TicketExpires, locals
<1>19. ASSUME NEW c \in Codes, CodeExpires(c)
      PROVE  Placed'
    BY <1>19 DEF TypeInv, Placed, Equipped, CodeExpires, locals
<1>20. CASE UNCHANGED vars
    BY <1>20 DEF TypeInv, Placed, Equipped, vars, locals
<1> QED
    BY <1>1, <1>2, <1>3, <1>4, <1>5, <1>6, <1>7, <1>8, <1>9, <1>10, <1>11, <1>12, <1>13,
       <1>14, <1>15, <1>16, <1>17, <1>18, <1>19, <1>20
    DEF Next, Get, Post, Complete

-----------------------------------------------------------------------------
(* The invariants, each on top of those before it.                         *)

\* Where a handler that works on a ticket has it from.
LEMMA OnATicket ==
    ASSUME TypeInv
    PROVE  \A w \in Workers :
            /\ pc[w] \in TicketSteps => key[w] \in Tickets
            /\ pc[w] \in Completing => key[w] \in Tickets \cup {None}
            /\ pc[w] = "token.insert" => key[w] \in Codes
            /\ pc[w] \in {"idle", "get.resolve", "get.create"} => key[w] = None
            /\ pc[w] \notin {"idle", "post.read"} => request[w] \in Pending
    BY DEF TypeInv, Placed, Equipped

\* null is not an id.
LEMMA NoneIsNotDrawn == TypeInv => None \notin unused
    BY AuthorizeAssumption, TypeParts DEF TypeInv, RestTypes

\* An id is drawn once.
LEMMA FreshNext ==
    ASSUME TypeInv, Fresh, [Next]_vars
    PROVE  Fresh'
<1>1. ASSUME NEW c \in Clients, NEW m \in Metadata, RegisterClient(c, m)
      PROVE  Fresh'
    BY <1>1 DEF Fresh, RegisterClient, redis, locals, browser, history
<1>2. ASSUME NEW w \in Workers, NEW r \in Requests, NEW s \in {cookie, None}, GetAuthorize(w, r, s)
      PROVE  Fresh'
    BY <1>2, GetAuthorizeDoes DEF Fresh, Only, Keeps
<1>3. ASSUME NEW w \in Workers, ResolveGrant(w)
      PROVE  Fresh'
    BY <1>3, ResolveGrantDoes DEF Fresh, Only, Keeps
<1>4. ASSUME NEW w \in Workers, SendPage(w)
      PROVE  Fresh'
    BY <1>4, SendPageDoes, NoneIsNotDrawn DEF Fresh, Only, Gone
<1>5. ASSUME NEW w \in Workers, NEW t \in Tickets, CreatePending(w, t)
      PROVE  Fresh'
    BY <1>5, CreatePendingDoes DEF Fresh, Only
<1>6. ASSUME NEW w \in Workers, NEW p \in pages, NEW u \in Users \cup {None},
             NEW d \in Decisions, NEW s \in {cookie, None}, PostAuthorize(w, p, u, d, s)
      PROVE  Fresh'
    BY <1>6, PostAuthorizeDoes DEF Fresh, Only
<1>7. ASSUME NEW w \in Workers, ReadPending(w)
      PROVE  Fresh'
    BY <1>7, ReadPendingDoes, NoneIsNotDrawn DEF Fresh, Only, Keeps, Gone
<1>8. ASSUME NEW w \in Workers, SignIn(w)
      PROVE  Fresh'
    BY <1>8, SignInDoes DEF Fresh, Only
<1>9. ASSUME NEW w \in Workers, ConsumePending(w)
      PROVE  Fresh'
    BY <1>9, ConsumePendingDoes, TakePendingDoes, NoneIsNotDrawn
    DEF Fresh, Only, Keeps, Gone
<1>10. ASSUME NEW w \in Workers, Decide(w)
      PROVE  Fresh'
    BY <1>10, DecideDoes, TakePendingDoes, NoneIsNotDrawn DEF Fresh, Only, Keeps, Gone
<1>11. ASSUME NEW w \in Workers, UpdateRead(w)
      PROVE  Fresh'
    BY <1>11, UpdateReadDoes DEF Fresh, Only, Keeps
<1>12. ASSUME NEW w \in Workers, UpdateSet(w)
      PROVE  Fresh'
    BY <1>12, UpdateSetDoes DEF Fresh, Only, Keeps
<1>13. ASSUME NEW w \in Workers, UpsertGrant(w)
      PROVE  Fresh'
    BY <1>13, UpsertGrantMoves DEF Fresh, Only, Keeps
<1>14. ASSUME NEW w \in Workers, OpenConnection(w)
      PROVE  Fresh'
    BY <1>14, OpenConnectionMoves, OpenConnectionDoes, NoneIsNotDrawn DEF Fresh, Only, Gone
<1>15. ASSUME NEW w \in Workers, NEW c \in Codes, IssueCode(w, c)
      PROVE  Fresh'
  <2>1. PICK g : granted' = granted \cup {g} /\ g.ticket = key[w] /\ g.code = c
    BY <1>15, IssueCodeDoes
  <2> QED
    BY <1>15, <2>1, IssueCodeMoves, NoneIsNotDrawn DEF Fresh, Only, Gone
<1>16. ASSUME NEW w \in Workers, NEW c \in Codes, NEW bound \in BOOLEAN, ExchangeCode(w, c, bound)
      PROVE  Fresh'
    BY <1>16, ExchangeCodeDoes DEF Fresh, Only
<1>17. ASSUME NEW w \in Workers, Fail(w)
      PROVE  Fresh'
    BY <1>17, FailDoes, NoneIsNotDrawn DEF Fresh, Only, Gone
<1>18. ASSUME NEW t \in Tickets, TicketExpires(t)
      PROVE  Fresh'
    BY <1>18, TicketExpiresDoes DEF Fresh
<1>19. ASSUME NEW c \in Codes, CodeExpires(c)
      PROVE  Fresh'
    BY <1>19, CodeExpiresDoes DEF Fresh
<1>20. CASE UNCHANGED vars
    BY <1>20 DEF Fresh, vars, redis, locals, browser, history
<1> QED
    BY <1>1, <1>2, <1>3, <1>4, <1>5, <1>6, <1>7, <1>8, <1>9, <1>10, <1>11, <1>12, <1>13,
       <1>14, <1>15, <1>16, <1>17, <1>18, <1>19, <1>20
    DEF Next, Get, Post, Complete

\* Who reads a ticket of somebody decides on it, and nobody ever takes a user out of
\* a ticket.
LEMMA DecidingNext ==
    ASSUME TypeInv, Fresh, Deciding, [Next]_vars
    PROVE  Deciding'
<1>1. ASSUME NEW c \in Clients, NEW m \in Metadata, RegisterClient(c, m)
      PROVE  Deciding'
    BY <1>1 DEF Deciding, RegisterClient, redis, locals
<1>2. ASSUME NEW w \in Workers, NEW r \in Requests, NEW s \in {cookie, None}, GetAuthorize(w, r, s)
      PROVE  Deciding'
    BY <1>2, GetAuthorizeDoes DEF Deciding, Only
<1>3. ASSUME NEW w \in Workers, ResolveGrant(w)
      PROVE  Deciding'
    BY <1>3, ResolveGrantDoes DEF Deciding, Only
<1>4. ASSUME NEW w \in Workers, SendPage(w)
      PROVE  Deciding'
    BY <1>4, SendPageDoes DEF Deciding, Only, Gone
<1>5. ASSUME NEW w \in Workers, NEW t \in Tickets, CreatePending(w, t)
      PROVE  Deciding'
    BY <1>5, CreatePendingDoes, OnATicket DEF Deciding, Fresh, TicketSteps, Only
<1>6. ASSUME NEW w \in Workers, NEW p \in pages, NEW u \in Users \cup {None},
             NEW d \in Decisions, NEW s \in {cookie, None}, PostAuthorize(w, p, u, d, s)
      PROVE  Deciding'
    BY <1>6, PostAuthorizeDoes DEF Deciding, Only
<1>7. ASSUME NEW w \in Workers, ReadPending(w)
      PROVE  Deciding'
    BY <1>7, ReadPendingDoes DEF Deciding, Only, Keeps, Gone
<1>8. ASSUME NEW w \in Workers, SignIn(w)
      PROVE  Deciding'
    BY <1>8, SignInDoes DEF Deciding, Only
<1>9. ASSUME NEW w \in Workers, ConsumePending(w)
      PROVE  Deciding'
    BY <1>9, ConsumePendingDoes, OnATicket, TakePendingDoes
    DEF Deciding, TicketSteps, Only, Gone
<1>10. ASSUME NEW w \in Workers, Decide(w)
      PROVE  Deciding'
    BY <1>10, DecideDoes, OnATicket, TakePendingDoes DEF Deciding, TicketSteps, Only, Gone
<1>11. ASSUME NEW w \in Workers, UpdateRead(w)
      PROVE  Deciding'
    BY <1>11, UpdateReadDoes DEF Deciding, Only
<1>12. ASSUME NEW w \in Workers, UpdateSet(w)
      PROVE  Deciding'
    BY <1>12, UpdateSetDoes, OnATicket, AuthorizeAssumption DEF Deciding, TicketSteps, Only
<1>13. ASSUME NEW w \in Workers, UpsertGrant(w)
      PROVE  Deciding'
    BY <1>13, UpsertGrantMoves DEF Deciding, Only
<1>14. ASSUME NEW w \in Workers, OpenConnection(w)
      PROVE  Deciding'
    BY <1>14, OpenConnectionMoves DEF Deciding, Only, Gone
<1>15. ASSUME NEW w \in Workers, NEW c \in Codes, IssueCode(w, c)
      PROVE  Deciding'
    BY <1>15, IssueCodeMoves DEF Deciding, Only, Gone
<1>16. ASSUME NEW w \in Workers, NEW c \in Codes, NEW bound \in BOOLEAN, ExchangeCode(w, c, bound)
      PROVE  Deciding'
    BY <1>16, ExchangeCodeDoes DEF Deciding, Only
<1>17. ASSUME NEW w \in Workers, Fail(w)
      PROVE  Deciding'
    BY <1>17, FailDoes DEF Deciding, Only, Gone
<1>18. ASSUME NEW t \in Tickets, TicketExpires(t)
      PROVE  Deciding'
    BY <1>18, TicketExpiresDoes, OnATicket DEF Deciding, TicketSteps
<1>19. ASSUME NEW c \in Codes, CodeExpires(c)
      PROVE  Deciding'
    BY <1>19, CodeExpiresDoes DEF Deciding
<1>20. CASE UNCHANGED vars
    BY <1>20 DEF Deciding, vars, redis, locals
<1> QED
    BY <1>1, <1>2, <1>3, <1>4, <1>5, <1>6, <1>7, <1>8, <1>9, <1>10, <1>11, <1>12, <1>13,
       <1>14, <1>15, <1>16, <1>17, <1>18, <1>19, <1>20
    DEF Next, Get, Post, Complete

\* SET KEEPTTL is the only write that leaves a ticket without a TTL, and only where
\* there is none.
LEMMA ImmortalNext ==
    ASSUME TypeInv, ImmortalTicketsAreCrossed, [Next]_vars
    PROVE  ImmortalTicketsAreCrossed'
<1>1. ASSUME NEW c \in Clients, NEW m \in Metadata, RegisterClient(c, m)
      PROVE  ImmortalTicketsAreCrossed'
    BY <1>1 DEF ImmortalTicketsAreCrossed, RegisterClient, redis, history
<1>2. ASSUME NEW w \in Workers, NEW r \in Requests, NEW s \in {cookie, None}, GetAuthorize(w, r, s)
      PROVE  ImmortalTicketsAreCrossed'
    BY <1>2, GetAuthorizeDoes DEF ImmortalTicketsAreCrossed
<1>3. ASSUME NEW w \in Workers, ResolveGrant(w)
      PROVE  ImmortalTicketsAreCrossed'
    BY <1>3, ResolveGrantDoes DEF ImmortalTicketsAreCrossed
<1>4. ASSUME NEW w \in Workers, SendPage(w)
      PROVE  ImmortalTicketsAreCrossed'
    BY <1>4, SendPageDoes DEF ImmortalTicketsAreCrossed
<1>5. ASSUME NEW w \in Workers, NEW t \in Tickets, CreatePending(w, t)
      PROVE  ImmortalTicketsAreCrossed'
    BY <1>5, CreatePendingDoes DEF ImmortalTicketsAreCrossed
<1>6. ASSUME NEW w \in Workers, NEW p \in pages, NEW u \in Users \cup {None},
             NEW d \in Decisions, NEW s \in {cookie, None}, PostAuthorize(w, p, u, d, s)
      PROVE  ImmortalTicketsAreCrossed'
    BY <1>6, PostAuthorizeDoes DEF ImmortalTicketsAreCrossed
<1>7. ASSUME NEW w \in Workers, ReadPending(w)
      PROVE  ImmortalTicketsAreCrossed'
    BY <1>7, ReadPendingDoes DEF ImmortalTicketsAreCrossed
<1>8. ASSUME NEW w \in Workers, SignIn(w)
      PROVE  ImmortalTicketsAreCrossed'
    BY <1>8, SignInDoes DEF ImmortalTicketsAreCrossed
<1>9. ASSUME NEW w \in Workers, ConsumePending(w)
      PROVE  ImmortalTicketsAreCrossed'
    BY <1>9, ConsumePendingDoes, TakePendingDoes DEF ImmortalTicketsAreCrossed
<1>10. ASSUME NEW w \in Workers, Decide(w)
      PROVE  ImmortalTicketsAreCrossed'
    BY <1>10, DecideDoes, TakePendingDoes DEF ImmortalTicketsAreCrossed
<1>11. ASSUME NEW w \in Workers, UpdateRead(w)
      PROVE  ImmortalTicketsAreCrossed'
    BY <1>11, UpdateReadDoes DEF ImmortalTicketsAreCrossed
<1>12. ASSUME NEW w \in Workers, UpdateSet(w)
      PROVE  ImmortalTicketsAreCrossed'
    BY <1>12, UpdateSetDoes, NullIsNoRecord DEF ImmortalTicketsAreCrossed
<1>13. ASSUME NEW w \in Workers, UpsertGrant(w)
      PROVE  ImmortalTicketsAreCrossed'
    BY <1>13, UpsertGrantMoves DEF ImmortalTicketsAreCrossed
<1>14. ASSUME NEW w \in Workers, OpenConnection(w)
      PROVE  ImmortalTicketsAreCrossed'
    BY <1>14, OpenConnectionMoves DEF ImmortalTicketsAreCrossed
<1>15. ASSUME NEW w \in Workers, NEW c \in Codes, IssueCode(w, c)
      PROVE  ImmortalTicketsAreCrossed'
    BY <1>15, IssueCodeMoves DEF ImmortalTicketsAreCrossed
<1>16. ASSUME NEW w \in Workers, NEW c \in Codes, NEW bound \in BOOLEAN, ExchangeCode(w, c, bound)
      PROVE  ImmortalTicketsAreCrossed'
    BY <1>16, ExchangeCodeDoes DEF ImmortalTicketsAreCrossed
<1>17. ASSUME NEW w \in Workers, Fail(w)
      PROVE  ImmortalTicketsAreCrossed'
    BY <1>17, FailDoes DEF ImmortalTicketsAreCrossed
<1>18. ASSUME NEW t \in Tickets, TicketExpires(t)
      PROVE  ImmortalTicketsAreCrossed'
    BY <1>18, TicketExpiresDoes DEF ImmortalTicketsAreCrossed
<1>19. ASSUME NEW c \in Codes, CodeExpires(c)
      PROVE  ImmortalTicketsAreCrossed'
    BY <1>19, CodeExpiresDoes DEF ImmortalTicketsAreCrossed
<1>20. CASE UNCHANGED vars
    BY <1>20 DEF ImmortalTicketsAreCrossed, vars, redis, history
<1> QED
    BY <1>1, <1>2, <1>3, <1>4, <1>5, <1>6, <1>7, <1>8, <1>9, <1>10, <1>11, <1>12, <1>13,
       <1>14, <1>15, <1>16, <1>17, <1>18, <1>19, <1>20
    DEF Next, Get, Post, Complete

\* GETDEL hands a code to one request.
LEMMA CodesOnceNext ==
    ASSUME TypeInv, Fresh, CodesOnce, [Next]_vars
    PROVE  CodesOnce'
<1>1. ASSUME NEW c \in Clients, NEW m \in Metadata, RegisterClient(c, m)
      PROVE  CodesOnce'
    BY <1>1 DEF CodesOnce, Redeeming, RegisterClient, redis, locals, history
<1>2. ASSUME NEW w \in Workers, NEW r \in Requests, NEW s \in {cookie, None}, GetAuthorize(w, r, s)
      PROVE  CodesOnce'
    BY <1>2, GetAuthorizeDoes DEF CodesOnce, Redeeming, Only
<1>3. ASSUME NEW w \in Workers, ResolveGrant(w)
      PROVE  CodesOnce'
    BY <1>3, ResolveGrantDoes DEF CodesOnce, Redeeming, Only
<1>4. ASSUME NEW w \in Workers, SendPage(w)
      PROVE  CodesOnce'
    BY <1>4, SendPageDoes DEF CodesOnce, Redeeming, Only, Gone
<1>5. ASSUME NEW w \in Workers, NEW t \in Tickets, CreatePending(w, t)
      PROVE  CodesOnce'
    BY <1>5, CreatePendingDoes DEF CodesOnce, Redeeming, Only
<1>6. ASSUME NEW w \in Workers, NEW p \in pages, NEW u \in Users \cup {None},
             NEW d \in Decisions, NEW s \in {cookie, None}, PostAuthorize(w, p, u, d, s)
      PROVE  CodesOnce'
    BY <1>6, PostAuthorizeDoes DEF CodesOnce, Redeeming, Only
<1>7. ASSUME NEW w \in Workers, ReadPending(w)
      PROVE  CodesOnce'
    BY <1>7, ReadPendingDoes DEF CodesOnce, Redeeming, Only, Gone
<1>8. ASSUME NEW w \in Workers, SignIn(w)
      PROVE  CodesOnce'
    BY <1>8, SignInDoes DEF CodesOnce, Redeeming, Only
<1>9. ASSUME NEW w \in Workers, ConsumePending(w)
      PROVE  CodesOnce'
    BY <1>9, ConsumePendingDoes DEF CodesOnce, Redeeming, Only, Gone
<1>10. ASSUME NEW w \in Workers, Decide(w)
      PROVE  CodesOnce'
    BY <1>10, DecideDoes DEF CodesOnce, Redeeming, Only, Gone
<1>11. ASSUME NEW w \in Workers, UpdateRead(w)
      PROVE  CodesOnce'
    BY <1>11, UpdateReadDoes DEF CodesOnce, Redeeming, Only
<1>12. ASSUME NEW w \in Workers, UpdateSet(w)
      PROVE  CodesOnce'
    BY <1>12, UpdateSetDoes DEF CodesOnce, Redeeming, Only
<1>13. ASSUME NEW w \in Workers, UpsertGrant(w)
      PROVE  CodesOnce'
    BY <1>13, UpsertGrantMoves DEF CodesOnce, Redeeming, Only
<1>14. ASSUME NEW w \in Workers, OpenConnection(w)
      PROVE  CodesOnce'
    BY <1>14, OpenConnectionMoves, OpenConnectionDoes DEF CodesOnce, Redeeming, Only, Gone
<1>15. ASSUME NEW w \in Workers, NEW c \in Codes, IssueCode(w, c)
      PROVE  CodesOnce'
    BY <1>15, IssueCodeMoves DEF Fresh, CodesOnce, Redeeming, Only, Gone
<1>16. ASSUME NEW w \in Workers, NEW c \in Codes, NEW bound \in BOOLEAN, ExchangeCode(w, c, bound)
      PROVE  CodesOnce'
    BY <1>16, ExchangeCodeDoes DEF CodesOnce, Redeeming, Only
<1>17. ASSUME NEW w \in Workers, Fail(w)
      PROVE  CodesOnce'
    BY <1>17, FailDoes DEF CodesOnce, Redeeming, Only, Gone
<1>18. ASSUME NEW t \in Tickets, TicketExpires(t)
      PROVE  CodesOnce'
    BY <1>18, TicketExpiresDoes DEF CodesOnce, Redeeming
<1>19. ASSUME NEW c \in Codes, CodeExpires(c)
      PROVE  CodesOnce'
    BY <1>19, CodeExpiresDoes DEF CodesOnce, Redeeming
<1>20. CASE UNCHANGED vars
    BY <1>20 DEF CodesOnce, Redeeming, vars, redis, locals, history
<1> QED
    BY <1>1, <1>2, <1>3, <1>4, <1>5, <1>6, <1>7, <1>8, <1>9, <1>10, <1>11, <1>12, <1>13,
       <1>14, <1>15, <1>16, <1>17, <1>18, <1>19, <1>20
    DEF Next, Get, Post, Complete

\* Every copy of a ticket asks for the same.
LEMMA OneRequestNext ==
    ASSUME TypeInv, Fresh, OneRequest, [Next]_vars
    PROVE  OneRequest'
<1>1. ASSUME NEW c \in Clients, NEW m \in Metadata, RegisterClient(c, m)
      PROVE  OneRequest'
    BY <1>1 DEF OneRequest, RegisterClient, redis, locals
<1>2. ASSUME NEW w \in Workers, NEW r \in Requests, NEW s \in {cookie, None}, GetAuthorize(w, r, s)
      PROVE  OneRequest'
    BY <1>2, GetAuthorizeDoes DEF OneRequest, Reading, Only
<1>3. ASSUME NEW w \in Workers, ResolveGrant(w)
      PROVE  OneRequest'
    BY <1>3, ResolveGrantDoes DEF OneRequest, Reading, Only, Keeps
<1>4. ASSUME NEW w \in Workers, SendPage(w)
      PROVE  OneRequest'
    BY <1>4, SendPageDoes DEF OneRequest, Reading, Only, Gone
<1>5. ASSUME NEW w \in Workers, NEW t \in Tickets, CreatePending(w, t)
      PROVE  OneRequest'
    BY <1>5, CreatePendingDoes, OnATicket DEF OneRequest, Fresh, Reading, TicketSteps, Only
<1>6. ASSUME NEW w \in Workers, NEW p \in pages, NEW u \in Users \cup {None},
             NEW d \in Decisions, NEW s \in {cookie, None}, PostAuthorize(w, p, u, d, s)
      PROVE  OneRequest'
    BY <1>6, PostAuthorizeDoes DEF OneRequest, Reading, TicketSteps, Only
<1>7. ASSUME NEW w \in Workers, ReadPending(w)
      PROVE  OneRequest'
    BY <1>7, ReadPendingDoes DEF OneRequest, SameRequest, Reading, Only, Keeps, Gone
<1>8. ASSUME NEW w \in Workers, SignIn(w)
      PROVE  OneRequest'
    BY <1>8, SignInDoes DEF OneRequest, SameRequest, Reading, Only
<1>9. ASSUME NEW w \in Workers, ConsumePending(w)
      PROVE  OneRequest'
    BY <1>9, ConsumePendingDoes, OnATicket, TakePendingDoes
    DEF OneRequest, Reading, TicketSteps, Only, Gone
<1>10. ASSUME NEW w \in Workers, Decide(w)
      PROVE  OneRequest'
    BY <1>10, DecideDoes, OnATicket, TakePendingDoes
    DEF OneRequest, Reading, TicketSteps, Only, Gone
<1>11. ASSUME NEW w \in Workers, UpdateRead(w)
      PROVE  OneRequest'
    BY <1>11, UpdateReadDoes DEF OneRequest, Reading, Only, Keeps
<1>12. ASSUME NEW w \in Workers, UpdateSet(w)
      PROVE  OneRequest'
    BY <1>12, UpdateSetDoes, OnATicket DEF OneRequest, Reading, TicketSteps, Only
<1>13. ASSUME NEW w \in Workers, UpsertGrant(w)
      PROVE  OneRequest'
    BY <1>13, UpsertGrantMoves DEF OneRequest, Reading, Only
<1>14. ASSUME NEW w \in Workers, OpenConnection(w)
      PROVE  OneRequest'
    BY <1>14, OpenConnectionMoves DEF OneRequest, Reading, Only, Gone
<1>15. ASSUME NEW w \in Workers, NEW c \in Codes, IssueCode(w, c)
      PROVE  OneRequest'
    BY <1>15, IssueCodeMoves DEF OneRequest, Reading, Only, Gone
<1>16. ASSUME NEW w \in Workers, NEW c \in Codes, NEW bound \in BOOLEAN, ExchangeCode(w, c, bound)
      PROVE  OneRequest'
    BY <1>16, ExchangeCodeDoes DEF OneRequest, Reading, Only
<1>17. ASSUME NEW w \in Workers, Fail(w)
      PROVE  OneRequest'
    BY <1>17, FailDoes DEF OneRequest, Reading, Only, Gone
<1>18. ASSUME NEW t \in Tickets, TicketExpires(t)
      PROVE  OneRequest'
    BY <1>18, TicketExpiresDoes, OnATicket DEF OneRequest, Reading, TicketSteps
<1>19. ASSUME NEW c \in Codes, CodeExpires(c)
      PROVE  OneRequest'
    BY <1>19, CodeExpiresDoes DEF OneRequest
<1>20. CASE UNCHANGED vars
    BY <1>20 DEF OneRequest, vars, redis, locals
<1> QED
    BY <1>1, <1>2, <1>3, <1>4, <1>5, <1>6, <1>7, <1>8, <1>9, <1>10, <1>11, <1>12, <1>13,
       <1>14, <1>15, <1>16, <1>17, <1>18, <1>19, <1>20
    DEF Next, Get, Post, Complete

\* GETDEL hands a ticket to one handler, and only a crossing puts it back.
LEMMA TicketsOnceNext ==
    ASSUME TypeInv, Fresh, TicketsOnce, [Next]_vars
    PROVE  TicketsOnce'
<1>1. ASSUME NEW c \in Clients, NEW m \in Metadata, RegisterClient(c, m)
      PROVE  TicketsOnce'
    BY <1>1 DEF TicketsOnce, Spending, RegisterClient, redis, locals, history
<1>2. ASSUME NEW w \in Workers, NEW r \in Requests, NEW s \in {cookie, None}, GetAuthorize(w, r, s)
      PROVE  TicketsOnce'
    BY <1>2, GetAuthorizeDoes DEF TicketsOnce, Spending, Completing, Only
<1>3. ASSUME NEW w \in Workers, ResolveGrant(w)
      PROVE  TicketsOnce'
  <2>1. \A t \in Tickets : t # None
    BY AuthorizeAssumption
  <2> QED
    BY <1>3, <2>1, ResolveGrantDoes, OnATicket
    DEF TicketsOnce, Spending, Completing, Only, Keeps
<1>4. ASSUME NEW w \in Workers, SendPage(w)
      PROVE  TicketsOnce'
    BY <1>4, SendPageDoes DEF TicketsOnce, Spending, Completing, Only, Gone
<1>5. ASSUME NEW w \in Workers, NEW t \in Tickets, CreatePending(w, t)
      PROVE  TicketsOnce'
    BY <1>5, CreatePendingDoes DEF TicketsOnce, Fresh, Spending, Completing, Only
<1>6. ASSUME NEW w \in Workers, NEW p \in pages, NEW u \in Users \cup {None},
             NEW d \in Decisions, NEW s \in {cookie, None}, PostAuthorize(w, p, u, d, s)
      PROVE  TicketsOnce'
    BY <1>6, PostAuthorizeDoes DEF TicketsOnce, Spending, Completing, Only
<1>7. ASSUME NEW w \in Workers, ReadPending(w)
      PROVE  TicketsOnce'
    BY <1>7, ReadPendingDoes DEF TicketsOnce, Spending, Completing, Only, Gone
<1>8. ASSUME NEW w \in Workers, SignIn(w)
      PROVE  TicketsOnce'
    BY <1>8, SignInDoes DEF TicketsOnce, Spending, Completing, Only
<1>9. ASSUME NEW w \in Workers, ConsumePending(w)
      PROVE  TicketsOnce'
    BY <1>9, ConsumePendingDoes, TakePendingDoes, NullIsNoRecord
    DEF TicketsOnce, Spending, Completing, Only, Keeps, Gone
<1>10. ASSUME NEW w \in Workers, Decide(w)
      PROVE  TicketsOnce'
    BY <1>10, DecideDoes, TakePendingDoes, NullIsNoRecord
    DEF TicketsOnce, Spending, Completing, Only, Keeps, Gone
<1>11. ASSUME NEW w \in Workers, UpdateRead(w)
      PROVE  TicketsOnce'
    BY <1>11, UpdateReadDoes DEF TicketsOnce, Spending, Completing, Only
<1>12. ASSUME NEW w \in Workers, UpdateSet(w)
      PROVE  TicketsOnce'
    BY <1>12, UpdateSetDoes, NullIsNoRecord DEF TicketsOnce, Spending, Completing, Only
<1>13. ASSUME NEW w \in Workers, UpsertGrant(w)
      PROVE  TicketsOnce'
    BY <1>13, UpsertGrantMoves DEF TicketsOnce, Spending, Completing, Only, Keeps
<1>14. ASSUME NEW w \in Workers, OpenConnection(w)
      PROVE  TicketsOnce'
    BY <1>14, OpenConnectionMoves DEF TicketsOnce, Spending, Completing, Only, Gone
<1>15. ASSUME NEW w \in Workers, NEW c \in Codes, IssueCode(w, c)
      PROVE  TicketsOnce'
  <2>1. PICK g : granted' = granted \cup {g} /\ g.ticket = key[w] /\ g.code = c
    BY <1>15, IssueCodeDoes
  <2> QED
    BY <1>15, <2>1, IssueCodeMoves DEF TicketsOnce, Spending, Completing, Only, Gone
<1>16. ASSUME NEW w \in Workers, NEW c \in Codes, NEW bound \in BOOLEAN, ExchangeCode(w, c, bound)
      PROVE  TicketsOnce'
    BY <1>16, ExchangeCodeDoes DEF TicketsOnce, Spending, Completing, Only
<1>17. ASSUME NEW w \in Workers, Fail(w)
      PROVE  TicketsOnce'
    BY <1>17, FailDoes DEF TicketsOnce, Spending, Completing, Only, Gone
<1>18. ASSUME NEW t \in Tickets, TicketExpires(t)
      PROVE  TicketsOnce'
    BY <1>18, TicketExpiresDoes DEF TicketsOnce, Spending
<1>19. ASSUME NEW c \in Codes, CodeExpires(c)
      PROVE  TicketsOnce'
    BY <1>19, CodeExpiresDoes DEF TicketsOnce, Spending
<1>20. CASE UNCHANGED vars
    BY <1>20 DEF TicketsOnce, Spending, vars, redis, locals, history
<1> QED
    BY <1>1, <1>2, <1>3, <1>4, <1>5, <1>6, <1>7, <1>8, <1>9, <1>10, <1>11, <1>12, <1>13,
       <1>14, <1>15, <1>16, <1>17, <1>18, <1>19, <1>20
    DEF Next, Get, Post, Complete

\* The user of a request, and a form that shows nobody.
LEMMA OnASignIn ==
    ASSUME TypeInv
    PROVE  \A w \in Workers :
            /\ pc[w] \in {"get.resolve", "post.resolve", "post.consume", "update.read",
                         "update.set"} \cup Completing => request[w].user \in Users
            /\ pc[w] \in {"idle", "get.resolve", "get.create", "post.resolve", "post.consume",
                         "update.read", "update.set"} => form[w].shown = None
    BY DEF TypeInv, Placed, Equipped

\* A handler that moves while nothing that was granted or allowed is lost.
LEMMA ConsentedGrows ==
    ASSUME Consented, NEW w \in Workers, Only(w), Backed(w)', UNCHANGED grants,
           approved \subseteq approved', mistaken \subseteq mistaken'
    PROVE  Consented'
<1>1. \A u \in Users, c \in Clients : \A s \in grants'[u][c] : Allowed(u, c, s)'
    BY DEF Consented, Allowed
<1>2. ASSUME NEW v \in Workers, v # w PROVE Backed(v)'
    BY DEF Consented, Backed, Allowed, Only
<1> QED
    BY <1>1, <1>2 DEF Consented

\* A grant grows by what was allowed, so what resolveGrant read there still holds when
\* the code is issued.
LEMMA ConsentedNext ==
    ASSUME TypeInv, OneRequest, Consented, [Next]_vars
    PROVE  Consented'
<1>1. ASSUME NEW c \in Clients, NEW m \in Metadata, RegisterClient(c, m)
      PROVE  Consented'
    BY <1>1 DEF Consented, Backed, Allowed, RegisterClient, locals, history
<1>2. ASSUME NEW w \in Workers, NEW r \in Requests, NEW s \in {cookie, None}, GetAuthorize(w, r, s)
      PROVE  Consented'
    BY <1>2, GetAuthorizeDoes DEF Consented, Backed, Allowed, Only
<1>3. ASSUME NEW w \in Workers, ResolveGrant(w)
      PROVE  Consented'
  <2>1. /\ form[w].shown = None /\ request[w].user \in Users /\ None \notin Users
        /\ form'[w] = form[w] /\ request'[w] = request[w]
    BY <1>3, ResolveGrantDoes, OnASignIn, AuthorizeAssumption DEF Keeps
  <2>2. pc'[w] \in {"post.consume", "complete.upsert"} =>
            request[w].scopes \subseteq grants[request[w].user][request[w].client]
    BY <1>3, ResolveGrantDoes DEF NeedsConsent
  <2>3. pc'[w] # "complete.issue" /\ UNCHANGED <<grants, approved, mistaken>> /\ Only(w)
    BY <1>3, ResolveGrantDoes
  <2> QED
    BY <2>1, <2>2, <2>3 DEF Consented, Backed, Allowed, Only
<1>4. ASSUME NEW w \in Workers, SendPage(w)
      PROVE  Consented'
    BY <1>4, SendPageDoes DEF Consented, Backed, Allowed, Only, Gone
<1>5. ASSUME NEW w \in Workers, NEW t \in Tickets, CreatePending(w, t)
      PROVE  Consented'
    BY <1>5, CreatePendingDoes DEF Consented, Backed, Allowed, Only
<1>6. ASSUME NEW w \in Workers, NEW p \in pages, NEW u \in Users \cup {None},
             NEW d \in Decisions, NEW s \in {cookie, None}, PostAuthorize(w, p, u, d, s)
      PROVE  Consented'
    BY <1>6, PostAuthorizeDoes, OnATicket, TakePendingDoes
    DEF Consented, Backed, Allowed, SameRequest, OneRequest, Reading, TicketSteps, Only,
        Keeps, Gone
<1>7. ASSUME NEW w \in Workers, ReadPending(w)
      PROVE  Consented'
    BY <1>7, ReadPendingDoes DEF Consented, Backed, Allowed, Only, Gone
<1>8. ASSUME NEW w \in Workers, SignIn(w)
      PROVE  Consented'
    BY <1>8, SignInDoes DEF Consented, Backed, Allowed, Only
<1>9. ASSUME NEW w \in Workers, ConsumePending(w)
      PROVE  Consented'
    BY <1>9, ConsumePendingDoes, PendingFields
    DEF Consented, Backed, Allowed, SameRequest, OneRequest, Reading, Only, Gone
<1>10. ASSUME NEW w \in Workers, Decide(w)
      PROVE  Consented'
  <2>1. /\ approved \subseteq approved' /\ UNCHANGED <<grants, mistaken>> /\ Only(w)
        /\ Gone(w) \/ \A s \in request'[w].scopes :
                         <<form[w].shown, request'[w].client, s>> \in approved'
    BY <1>10, DecideDoes
  <2>2. Backed(w)'
    <3>1. CASE Gone(w)
      BY <3>1 DEF Backed, Gone
    <3>2. CASE ~Gone(w)
      <4>1. form'[w] = form[w] /\ form[w].shown \in Users /\ pc'[w] = "complete.upsert"
        BY <1>10, <3>2, DecideDoes DEF Keeps
      <4> QED
        BY <2>1, <3>2, <4>1, AuthorizeAssumption DEF Backed, Allowed
    <3> QED
      BY <3>1, <3>2
  <2> QED
    BY <2>1, <2>2, ConsentedGrows
<1>11. ASSUME NEW w \in Workers, UpdateRead(w)
      PROVE  Consented'
    BY <1>11, UpdateReadDoes DEF Consented, Backed, Allowed, Only
<1>12. ASSUME NEW w \in Workers, UpdateSet(w)
      PROVE  Consented'
    BY <1>12, UpdateSetDoes DEF Consented, Backed, Allowed, Only
<1>13. ASSUME NEW w \in Workers, UpsertGrant(w)
      PROVE  Consented'
  <2>1. /\ pc[w] = "complete.upsert" /\ pc'[w] = "complete.issue" /\ Only(w)
        /\ request'[w] = request[w] /\ approved' = approved
    BY <1>13, UpsertGrantMoves
  <2>2. mistaken \subseteq mistaken'
    BY <1>13, UpsertGrantAllows
  <2>3. PICK r : r = request[w] /\ r \in Pending /\ r.user \in Users
    BY <1>13, UpsertGrantMoves
  <2>4. r.client \in Clients
    BY <2>3, PendingFields
  <2>5. \A u \in Users, k \in Clients :
            grants'[u][k] = IF u = r.user /\ k = r.client THEN grants[u][k] \cup r.scopes
                                                          ELSE grants[u][k]
    <3>1. \A u \in Users, k \in Clients :
            grants'[u][k] = IF u = request[w].user /\ k = request[w].client
                              THEN grants[u][k] \cup request[w].scopes ELSE grants[u][k]
      BY <1>13, UpsertGrantDoes
    <3> QED
      BY <2>3, <3>1
  <2>6. \A s \in r.scopes : <<r.user, r.client, s>> \in approved' \cup mistaken'
    <3>1. CASE form[w].shown = None
      <4>1. r.scopes \subseteq grants[r.user][r.client]
        BY <2>1, <2>3, <3>1 DEF Consented, Backed
      <4> QED
        BY <2>1, <2>2, <2>3, <2>4, <4>1 DEF Consented, Allowed
    <3>2. CASE form[w].shown = r.user
      BY <2>1, <2>2, <2>3, <3>2 DEF Consented, Backed, Allowed
    <3>3. CASE form[w].shown \notin {None, r.user}
      BY <1>13, <2>3, <3>3, UpsertGrantAllows
    <3> QED
      BY <3>1, <3>2, <3>3
  <2>7. \A u \in Users, k \in Clients : \A s \in grants'[u][k] : Allowed(u, k, s)'
    BY <2>1, <2>2, <2>5, <2>6 DEF Consented, Allowed
  <2>8. ASSUME NEW v \in Workers PROVE Backed(v)'
    <3>1. CASE v = w
      BY <2>1, <2>3, <2>6, <3>1 DEF Backed, Allowed
    <3>2. CASE v # w
      <4>1. pc'[v] = pc[v] /\ form'[v] = form[v] /\ request'[v] = request[v] /\ Backed(v)
        BY <2>1, <3>2 DEF Only, Consented
      <4>2. pc[v] \in {"post.consume", "complete.upsert"} =>
                request[v].user \in Users /\ request[v].client \in Clients
        BY OnASignIn, OnATicket, PendingFields DEF Completing
      <4>3. pc[v] \in {"post.consume", "complete.upsert"} =>
                grants[request[v].user][request[v].client]
                    \subseteq grants'[request[v].user][request[v].client]
        BY <2>5, <4>2
      <4> QED
        BY <2>1, <2>2, <4>1, <4>3 DEF Backed, Allowed
    <3> QED
      BY <3>1, <3>2
  <2> QED
    BY <2>7, <2>8 DEF Consented
<1>14. ASSUME NEW w \in Workers, OpenConnection(w)
      PROVE  Consented'
    BY <1>14, OpenConnectionMoves DEF Consented, Backed, Allowed, Only, Gone
<1>15. ASSUME NEW w \in Workers, NEW c \in Codes, IssueCode(w, c)
      PROVE  Consented'
    BY <1>15, IssueCodeMoves DEF Consented, Backed, Allowed, Only, Gone
<1>16. ASSUME NEW w \in Workers, NEW c \in Codes, NEW bound \in BOOLEAN, ExchangeCode(w, c, bound)
      PROVE  Consented'
    BY <1>16, ExchangeCodeDoes DEF Consented, Backed, Allowed, Only
<1>17. ASSUME NEW w \in Workers, Fail(w)
      PROVE  Consented'
    BY <1>17, FailDoes DEF Consented, Backed, Allowed, Only, Gone
<1>18. ASSUME NEW t \in Tickets, TicketExpires(t)
      PROVE  Consented'
    BY <1>18, TicketExpiresDoes DEF Consented, Backed, Allowed
<1>19. ASSUME NEW c \in Codes, CodeExpires(c)
      PROVE  Consented'
    BY <1>19, CodeExpiresDoes DEF Consented, Backed, Allowed
<1>20. CASE UNCHANGED vars
    BY <1>20 DEF Consented, Backed, Allowed, vars, tables, locals, history
<1> QED
    BY <1>1, <1>2, <1>3, <1>4, <1>5, <1>6, <1>7, <1>8, <1>9, <1>10, <1>11, <1>12, <1>13,
       <1>14, <1>15, <1>16, <1>17, <1>18, <1>19, <1>20
    DEF Next, Get, Post, Complete

\* Pages are about tickets.
LEMMA PageTickets == TypeInv => \A p \in pages : p.ticket \in Tickets
    BY TypeParts DEF TypeInv, RestTypes, Pages

\* Without a crossing the user of a ticket is set once, and pages name him.
LEMMA TicketsAreTheirsNext ==
    ASSUME TypeInv, Fresh, TicketsAreTheirs, [Next]_vars
    PROVE  TicketsAreTheirs'
<1>1. ASSUME NEW c \in Clients, NEW m \in Metadata, RegisterClient(c, m)
      PROVE  TicketsAreTheirs'
    BY <1>1 DEF TicketsAreTheirs, Names, RegisterClient, redis, locals, browser, history
<1>2. ASSUME NEW w \in Workers, NEW r \in Requests, NEW s \in {cookie, None}, GetAuthorize(w, r, s)
      PROVE  TicketsAreTheirs'
    BY <1>2, GetAuthorizeDoes DEF TicketsAreTheirs, Names, Only
<1>3. ASSUME NEW w \in Workers, ResolveGrant(w)
      PROVE  TicketsAreTheirs'
  <2>1. form[w].shown = None /\ form'[w] = form[w]
    BY <1>3, ResolveGrantDoes, OnASignIn DEF Keeps
  <2> QED
    BY <1>3, <2>1, ResolveGrantDoes DEF TicketsAreTheirs, Names, Only
<1>4. ASSUME NEW w \in Workers, SendPage(w)
      PROVE  TicketsAreTheirs'
    BY <1>4, SendPageDoes DEF TicketsAreTheirs, Names, Only, Gone
<1>5. ASSUME NEW w \in Workers, NEW t \in Tickets, CreatePending(w, t)
      PROVE  TicketsAreTheirs'
  <2>1. /\ \A q \in Tickets \ {t} : pending'[q] = pending[q]
        /\ pending'[t] = request[w] /\ t \in unused /\ Only(w)
        /\ pc'[w] = "page" /\ key'[w] = t /\ request'[w] = request[w]
        /\ UNCHANGED <<pages, mistaken, crossed>>
    BY <1>5, CreatePendingDoes
  <2>2. \A p \in pages : p.ticket \in Tickets \ {t}
    BY <2>1, TypeParts DEF Fresh, TypeInv, RestTypes, Pages
  <2>3. \A v \in Workers \ {w} : pc[v] \in {"page", "post.read", "post.login", "post.consent"} =>
            key[v] \in Tickets \ {t}
    BY <2>1, OnATicket DEF Fresh, TicketSteps
  <2> QED
    BY <2>1, <2>2, <2>3 DEF TicketsAreTheirs, Names, Only
<1>6. ASSUME NEW w \in Workers, NEW p \in pages, NEW u \in Users \cup {None},
             NEW d \in Decisions, NEW s \in {cookie, None}, PostAuthorize(w, p, u, d, s)
      PROVE  TicketsAreTheirs'
    BY <1>6, PostAuthorizeDoes, OnATicket, TakePendingDoes, NullIsNoRecord
    DEF TicketsAreTheirs, Fresh, Names, TicketSteps, Only, Keeps, Gone
<1>7. ASSUME NEW w \in Workers, ReadPending(w)
      PROVE  TicketsAreTheirs'
    BY <1>7, ReadPendingDoes DEF TicketsAreTheirs, Names, Only, Keeps, Gone
<1>8. ASSUME NEW w \in Workers, SignIn(w)
      PROVE  TicketsAreTheirs'
    BY <1>8, SignInDoes DEF TicketsAreTheirs, Names, Only
<1>9. ASSUME NEW w \in Workers, ConsumePending(w)
      PROVE  TicketsAreTheirs'
  <2>1. /\ \A q \in Tickets : pending'[q] \in {None, pending[q]}
        /\ UNCHANGED <<pages, mistaken, crossed>> /\ Only(w)
        /\ form[w].shown = None
    BY <1>9, ConsumePendingDoes, TakePendingDoes, OnASignIn
  <2>2. \A q \in Tickets : \A u : Names(q, u) => Names(q, u)'
    BY <2>1 DEF Names
  <2>3. Gone(w) \/ (pc'[w] = "complete.upsert" /\ form'[w] = form[w])
    BY <1>9, ConsumePendingDoes DEF Keeps
  <2> QED
    BY <2>1, <2>2, <2>3, OnATicket, PageTickets
    DEF TicketsAreTheirs, Only, Gone, TicketSteps
<1>10. ASSUME NEW w \in Workers, Decide(w)
      PROVE  TicketsAreTheirs'
  <2>1. /\ \A q \in Tickets : pending'[q] \in {None, pending[q]}
        /\ UNCHANGED <<pages, mistaken, crossed>> /\ Only(w)
        /\ pc[w] = "post.consent"
    BY <1>10, DecideDoes, TakePendingDoes
  <2>2. \/ Gone(w)
        \/ /\ pc'[w] = "complete.upsert" /\ form'[w] = form[w] /\ request'[w] = pending[key[w]]
           /\ pending[key[w]] # None
    BY <1>10, DecideDoes, PendingFields DEF Keeps
  <2> QED
    BY <2>1, <2>2, OnATicket, PageTickets
    DEF TicketsAreTheirs, Names, Only, Gone, TicketSteps
<1>11. ASSUME NEW w \in Workers, UpdateRead(w)
      PROVE  TicketsAreTheirs'
    BY <1>11, UpdateReadDoes DEF TicketsAreTheirs, Names, Only, Keeps
<1>12. ASSUME NEW w \in Workers, UpdateSet(w)
      PROVE  TicketsAreTheirs'
  <2>1. SUFFICES ASSUME crossed' = {} PROVE TicketsAreTheirs'
    BY DEF TicketsAreTheirs
  <2>2. /\ \A q \in Tickets \ {key[w]} : pending'[q] = pending[q]
        /\ pending'[key[w]] = request[w] /\ key[w] \in Tickets /\ request[w].user # None
        /\ pc'[w] = "page" /\ key'[w] = key[w] /\ request'[w] = request[w]
        /\ UNCHANGED <<pages, mistaken>> /\ Only(w) /\ crossed = {}
    BY <1>12, <2>1, UpdateSetDoes, AuthorizeAssumption DEF Keeps
  <2>3. pending[key[w]] # None /\ pending[key[w]].user = None
    BY <1>12, <2>1, UpdateSetDoes, NullIsNoRecord
  <2>4. \A q \in Tickets : \A u : Names(q, u) => Names(q, u)'
    BY <2>2, <2>3 DEF Names
  <2>5. pc'[w] = "page" /\ (Names(key[w], request[w].user))'
    BY <2>2 DEF Names
  <2> QED
    BY <2>2, <2>4, <2>5, OnATicket, PageTickets DEF TicketsAreTheirs, Only, TicketSteps
<1>13. ASSUME NEW w \in Workers, UpsertGrant(w)
      PROVE  TicketsAreTheirs'
  <2>1. /\ pc[w] = "complete.upsert" /\ pc'[w] = "complete.issue" /\ Only(w)
        /\ UNCHANGED <<pending, pages, crossed>>
    BY <1>13, UpsertGrantMoves
  <2>2. crossed = {} => mistaken' = mistaken
    <3>1. crossed = {} => form[w].shown \in {None, request[w].user}
      BY <2>1 DEF TicketsAreTheirs
    <3>2. form[w].shown \in {None, request[w].user} => mistaken' = mistaken
      BY <1>13, UpsertGrantAllows
    <3> QED
      BY <3>1, <3>2
  <2> QED
    BY <2>1, <2>2 DEF TicketsAreTheirs, Names, Only
<1>14. ASSUME NEW w \in Workers, OpenConnection(w)
      PROVE  TicketsAreTheirs'
    BY <1>14, OpenConnectionMoves DEF TicketsAreTheirs, Names, Only, Gone
<1>15. ASSUME NEW w \in Workers, NEW c \in Codes, IssueCode(w, c)
      PROVE  TicketsAreTheirs'
    BY <1>15, IssueCodeMoves DEF TicketsAreTheirs, Names, Only, Gone
<1>16. ASSUME NEW w \in Workers, NEW c \in Codes, NEW bound \in BOOLEAN, ExchangeCode(w, c, bound)
      PROVE  TicketsAreTheirs'
    BY <1>16, ExchangeCodeDoes DEF TicketsAreTheirs, Names, Only
<1>17. ASSUME NEW w \in Workers, Fail(w)
      PROVE  TicketsAreTheirs'
    BY <1>17, FailDoes DEF TicketsAreTheirs, Names, Only, Gone
<1>18. ASSUME NEW t \in Tickets, TicketExpires(t)
      PROVE  TicketsAreTheirs'
  <2>1. /\ \A q \in Tickets : pending'[q] \in {None, pending[q]}
        /\ UNCHANGED <<pages, mistaken, crossed, pc, key, form, request>>
    BY <1>18, TicketExpiresDoes
  <2>2. \A q \in Tickets : \A u : Names(q, u) => Names(q, u)'
    BY <2>1 DEF Names
  <2> QED
    BY <2>1, <2>2, OnATicket, PageTickets DEF TicketsAreTheirs, TicketSteps
<1>19. ASSUME NEW c \in Codes, CodeExpires(c)
      PROVE  TicketsAreTheirs'
    BY <1>19, CodeExpiresDoes DEF TicketsAreTheirs, Names
<1>20. CASE UNCHANGED vars
    BY <1>20 DEF TicketsAreTheirs, Names, vars, redis, locals, browser, history
<1> QED
    BY <1>1, <1>2, <1>3, <1>4, <1>5, <1>6, <1>7, <1>8, <1>9, <1>10, <1>11, <1>12, <1>13,
       <1>14, <1>15, <1>16, <1>17, <1>18, <1>19, <1>20
    DEF Next, Get, Post, Complete

\* A code takes over what its handler has to show.
LEMMA CodesAreConsentedNext ==
    ASSUME TypeInv, Consented, CodesAreConsented, [Next]_vars
    PROVE  CodesAreConsented'
<1>1. ASSUME NEW c \in Clients, NEW m \in Metadata, RegisterClient(c, m)
      PROVE  CodesAreConsented'
    BY <1>1 DEF CodesAreConsented, RegisterClient, history
<1>2. ASSUME NEW w \in Workers, NEW r \in Requests, NEW s \in {cookie, None}, GetAuthorize(w, r, s)
      PROVE  CodesAreConsented'
    BY <1>2, GetAuthorizeDoes DEF CodesAreConsented
<1>3. ASSUME NEW w \in Workers, ResolveGrant(w)
      PROVE  CodesAreConsented'
    BY <1>3, ResolveGrantDoes DEF CodesAreConsented
<1>4. ASSUME NEW w \in Workers, SendPage(w)
      PROVE  CodesAreConsented'
    BY <1>4, SendPageDoes DEF CodesAreConsented
<1>5. ASSUME NEW w \in Workers, NEW t \in Tickets, CreatePending(w, t)
      PROVE  CodesAreConsented'
    BY <1>5, CreatePendingDoes DEF CodesAreConsented
<1>6. ASSUME NEW w \in Workers, NEW p \in pages, NEW u \in Users \cup {None},
             NEW d \in Decisions, NEW s \in {cookie, None}, PostAuthorize(w, p, u, d, s)
      PROVE  CodesAreConsented'
    BY <1>6, PostAuthorizeDoes DEF CodesAreConsented
<1>7. ASSUME NEW w \in Workers, ReadPending(w)
      PROVE  CodesAreConsented'
    BY <1>7, ReadPendingDoes DEF CodesAreConsented
<1>8. ASSUME NEW w \in Workers, SignIn(w)
      PROVE  CodesAreConsented'
    BY <1>8, SignInDoes DEF CodesAreConsented
<1>9. ASSUME NEW w \in Workers, ConsumePending(w)
      PROVE  CodesAreConsented'
    BY <1>9, ConsumePendingDoes DEF CodesAreConsented
<1>10. ASSUME NEW w \in Workers, Decide(w)
      PROVE  CodesAreConsented'
    BY <1>10, DecideDoes, DecideAllows DEF CodesAreConsented
<1>11. ASSUME NEW w \in Workers, UpdateRead(w)
      PROVE  CodesAreConsented'
    BY <1>11, UpdateReadDoes DEF CodesAreConsented
<1>12. ASSUME NEW w \in Workers, UpdateSet(w)
      PROVE  CodesAreConsented'
    BY <1>12, UpdateSetDoes DEF CodesAreConsented
<1>13. ASSUME NEW w \in Workers, UpsertGrant(w)
      PROVE  CodesAreConsented'
    BY <1>13, UpsertGrantMoves, UpsertGrantAllows DEF CodesAreConsented
<1>14. ASSUME NEW w \in Workers, OpenConnection(w)
      PROVE  CodesAreConsented'
    BY <1>14, OpenConnectionMoves DEF CodesAreConsented
<1>15. ASSUME NEW w \in Workers, NEW c \in Codes, IssueCode(w, c)
      PROVE  CodesAreConsented'
  <2>1. PICK g : /\ granted' = granted \cup {g} /\ g.user = request[w].user
                 /\ SameRequest(g, request[w])
    BY <1>15, IssueCodeDoes
  <2>2. pc[w] = "complete.issue" /\ UNCHANGED <<approved, mistaken>>
    BY <1>15, IssueCodeMoves
  <2>3. \A s \in g.scopes : <<g.user, g.client, s>> \in approved \cup mistaken
    BY <2>1, <2>2 DEF Consented, Backed, Allowed, SameRequest
  <2> QED
    BY <2>1, <2>2, <2>3 DEF CodesAreConsented
<1>16. ASSUME NEW w \in Workers, NEW c \in Codes, NEW bound \in BOOLEAN, ExchangeCode(w, c, bound)
      PROVE  CodesAreConsented'
    BY <1>16, ExchangeCodeDoes DEF CodesAreConsented
<1>17. ASSUME NEW w \in Workers, Fail(w)
      PROVE  CodesAreConsented'
    BY <1>17, FailDoes DEF CodesAreConsented
<1>18. ASSUME NEW t \in Tickets, TicketExpires(t)
      PROVE  CodesAreConsented'
    BY <1>18, TicketExpiresDoes DEF CodesAreConsented
<1>19. ASSUME NEW c \in Codes, CodeExpires(c)
      PROVE  CodesAreConsented'
    BY <1>19, CodeExpiresDoes DEF CodesAreConsented
<1>20. CASE UNCHANGED vars
    BY <1>20 DEF CodesAreConsented, vars, history
<1> QED
    BY <1>1, <1>2, <1>3, <1>4, <1>5, <1>6, <1>7, <1>8, <1>9, <1>10, <1>11, <1>12, <1>13,
       <1>14, <1>15, <1>16, <1>17, <1>18, <1>19, <1>20
    DEF Next, Get, Post, Complete

-----------------------------------------------------------------------------
(* The inductive invariant and the theorems.                               *)

\* It holds at first.
LEMMA InitIInv == Init => IInv
<1> SUFFICES ASSUME Init PROVE IInv
    OBVIOUS
<1>1. TypeOK /\ Placed
    BY TypeInit DEF TypeInv
<1>2. Deciding /\ Fresh /\ ImmortalTicketsAreCrossed
    BY AuthorizeAssumption DEF Init, Deciding, Fresh, ImmortalTicketsAreCrossed
<1>3. CodesOnce /\ TicketsOnce
    BY DEF Init, CodesOnce, Redeeming, TicketsOnce, Spending, Completing
<1>4. OneRequest /\ Consented /\ CodesAreConsented /\ TicketsAreTheirs
    BY DEF Init, OneRequest, Reading, Consented, Backed, CodesAreConsented, TicketsAreTheirs
<1> QED
    BY <1>1, <1>2, <1>3, <1>4 DEF IInv

\* Every step keeps it.
LEMMA NextIInv == IInv /\ [Next]_vars => IInv'
<1> SUFFICES ASSUME IInv, [Next]_vars PROVE IInv'
    OBVIOUS
<1>1. TypeInv
    BY DEF IInv, TypeInv
<1>2. TypeOK'
    BY <1>1, RestTypesNext, LocalTypesNext DEF TypeOK, LocalTypes, RestTypes
<1>3. Placed' /\ Deciding'
    BY <1>1, PlacedNext, DecidingNext DEF IInv
<1>4. Fresh' /\ ImmortalTicketsAreCrossed'
    BY <1>1, FreshNext, ImmortalNext DEF IInv
<1>5. CodesOnce' /\ TicketsOnce'
    BY <1>1, CodesOnceNext, TicketsOnceNext DEF IInv
<1>6. OneRequest' /\ Consented' /\ CodesAreConsented'
    BY <1>1, OneRequestNext, ConsentedNext, CodesAreConsentedNext DEF IInv
<1>7. TicketsAreTheirs'
    BY <1>1, TicketsAreTheirsNext DEF IInv
<1> QED
    BY <1>2, <1>3, <1>4, <1>5, <1>6, <1>7 DEF IInv

\* So it is an invariant.
LEMMA Invariance == Spec => []IInv
    BY InitIInv, NextIInv, PTL DEF Spec

\* Every variable keeps its type: in particular no code is ever issued for
\* nobody, and no grant is upserted for a user the request does not have.
THEOREM TypeCorrect == Spec => []TypeOK
<1>1. IInv => TypeOK
    BY DEF IInv
<1> QED
    BY <1>1, Invariance, PTL

\* completeAuthorization never issues a code for a scope its user, or somebody
\* at a ticket of his, did not allow the client on a page.
THEOREM CodesAlwaysConsented == Spec => []CodesAreConsented
<1>1. IInv => CodesAreConsented
    BY DEF IInv
<1> QED
    BY <1>1, Invariance, PTL

\* A client gets into an account whose owner did not allow it only after two
\* updates crossed on a ticket (updatePendingAuthorizationRequest).
THEOREM MistakesAlwaysNeedARace == Spec => []MistakesNeedARace
<1>1. IInv => MistakesNeedARace
    BY DEF IInv, TicketsAreTheirs, MistakesNeedARace
<1> QED
    BY <1>1, Invariance, PTL

\* The GETDELs of a ticket and of a code let one of those who race for it win.
THEOREM TicketsAlwaysSpentOnce == Spec => []TicketsAreSpentOnce
<1>1. IInv => TicketsAreSpentOnce
  <2> SUFFICES ASSUME IInv PROVE TicketsAreSpentOnce
    OBVIOUS
  <2>1. \A c \in Codes : opened[c] <= 1
    BY DEF IInv, CodesOnce
  <2>2. ASSUME NEW g \in granted, NEW h \in granted, g.ticket = h.ticket, g # h
        PROVE  g.ticket \in crossed \cup {None}
    <3>1. g.ticket \in Tickets \cup {None}
      BY DEF IInv, TypeOK
    <3> QED
      BY <2>2, <3>1 DEF IInv, TicketsOnce
  <2> QED
    BY <2>1, <2>2 DEF TicketsAreSpentOnce
<1> QED
    BY <1>1, Invariance, PTL

\* SET KEEPTTL makes a ticket immortal only where it brings one back.
THEOREM ImmortalTicketsAlwaysCrossed == Spec => []ImmortalTicketsAreCrossed
<1>1. IInv => ImmortalTicketsAreCrossed
    BY DEF IInv
<1> QED
    BY <1>1, Invariance, PTL

=============================================================================
