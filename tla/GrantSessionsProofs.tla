------------------------ MODULE GrantSessionsProofs ------------------------
(***************************************************************************)
(* Proofs about GrantSessions.tla, for every set of connections, scopes    *)
(* and handlers, every lifetime and every bound: type correctness, the     *)
(* safety invariants of the run, and the refinement of RotatingTokens.     *)
(* TypeInv says that a handler at a step has the arguments of the step;    *)
(* CoreInv says how the rows, the denylist and the handlers hang together. *)
(***************************************************************************)
EXTENDS GrantSessions, TLAPS

-----------------------------------------------------------------------------
(* Type correctness.                                                       *)

Placed ==
    \A w \in Workers :
        /\ pc[w] # "idle" => conn[w] \in Conns
        /\ pc[w] \in {"grant", "rotate", "deny"} => seen[w] \in Gens

TypeInv == TypeOK /\ Placed

USE DEF NoToken

LEMMA TypeInvInit == Init => TypeInv
  <1> SUFFICES ASSUME Init PROVE TypeInv
    OBVIOUS
  <1>1. TypeOK
    BY GrantSessionsAssumption DEF Init, TypeOK, Steps, Gens
  <1>2. Placed
    BY DEF Init, Placed
  <1> QED BY <1>1, <1>2 DEF TypeInv

\* A handler that finishes is left without arguments.
LEMMA FinishType ==
  ASSUME TypeInv, NEW w \in Workers, Finish(w)
  PROVE  /\ pc' \in [Workers -> Steps]
         /\ conn' \in [Workers -> Conns \cup {None}]
         /\ seen' \in [Workers -> 0..MaxGen-1]
         /\ signedAt' \in [Workers -> Nat]
         /\ signed' \in [Workers -> SUBSET Scopes]
         /\ Placed'
  <1>1. 0 \in 0..MaxGen-1
    BY GrantSessionsAssumption
  <1>2. pc' \in [Workers -> Steps]
    BY DEF TypeInv, TypeOK, Finish, Goto, Steps
  <1>3. Placed'
    BY DEF TypeInv, TypeOK, Placed, Finish, Goto
  <1> QED BY <1>1, <1>2, <1>3 DEF TypeInv, TypeOK, Finish

\* What a handler signed goes into the row of its connection.
LEMMA RecordType ==
  ASSUME TypeInv, NEW w \in Workers, NEW g \in Gens, conn[w] \in Conns, Record(w, g)
  PROVE  /\ hash' \in [Conns -> Gens \cup {NoToken}]
         /\ exp' \in [Conns -> [Gens -> Nat]]
         /\ scope' \in [Conns -> [Gens -> SUBSET Scopes]]
  <1>1. signedAt[w] + AccessTtl \in Nat /\ signed[w] \in SUBSET Scopes
    BY GrantSessionsAssumption DEF TypeInv, TypeOK
  <1>2. hash' \in [Conns -> Gens \cup {NoToken}]
    BY DEF Record, TypeInv, TypeOK
  <1>3. exp' \in [Conns -> [Gens -> Nat]]
    <2> DEFINE row == [exp[conn[w]] EXCEPT ![g] = signedAt[w] + AccessTtl]
    <2>1. exp' = [exp EXCEPT ![conn[w]] = row]
      BY DEF Record
    <2>2. row \in [Gens -> Nat]
      BY <1>1 DEF TypeInv, TypeOK
    <2> HIDE DEF row
    <2> QED BY <2>1, <2>2 DEF TypeInv, TypeOK
  <1>4. scope' \in [Conns -> [Gens -> SUBSET Scopes]]
    <2> DEFINE row == [scope[conn[w]] EXCEPT ![g] = signed[w]]
    <2>1. scope' = [scope EXCEPT ![conn[w]] = row]
      BY DEF Record
    <2>2. row \in [Gens -> SUBSET Scopes]
      BY <1>1 DEF TypeInv, TypeOK
    <2> HIDE DEF row
    <2> QED BY <2>1, <2>2 DEF TypeInv, TypeOK
  <1> QED BY <1>2, <1>3, <1>4

\* Every step keeps the types: one case per action.
LEMMA TypeInvNext == TypeInv /\ [Next]_vars => TypeInv'
  <1> SUFFICES ASSUME TypeInv, [Next]_vars PROVE TypeInv'
    OBVIOUS
  <1> USE GrantSessionsAssumption
  <1>1. ASSUME NEW w \in Workers, NEW c \in Conns, NEW S \in SUBSET Scopes, ExchangeCode(w, c, S)
        PROVE  TypeInv'
    <2>1. TypeOK'
      BY <1>1 DEF TypeInv, TypeOK, ExchangeCode, Sign, Goto, Steps, connectionRows
    <2>2. Placed'
      BY <1>1 DEF TypeInv, TypeOK, Placed, ExchangeCode, Sign, Goto
    <2> QED BY <2>1, <2>2 DEF TypeInv
  <1>2. ASSUME NEW w \in Workers, InsertGrantSession(w) PROVE TypeInv'
    <2>0. conn[w] \in Conns /\ 1 \in Gens
      BY <1>2 DEF TypeInv, Placed, InsertGrantSession, Gens
    <2>1. /\ hash' \in [Conns -> Gens \cup {NoToken}]
          /\ exp' \in [Conns -> [Gens -> Nat]]
          /\ scope' \in [Conns -> [Gens -> SUBSET Scopes]]
      BY <1>2, <2>0, RecordType DEF InsertGrantSession
    <2>2. expires' \in [Conns -> Nat] /\ ceiling' \in [Conns -> Nat]
      BY <1>2, <2>0 DEF TypeInv, TypeOK, InsertGrantSession
    <2>3. pc' \in [Workers -> Steps]
      BY <1>2 DEF TypeInv, TypeOK, InsertGrantSession, Goto, Steps
    <2>4. TypeOK'
      BY <1>2, <2>0, <2>1, <2>2, <2>3 DEF TypeInv, TypeOK, InsertGrantSession, request
    <2>5. Placed'
      BY <1>2 DEF TypeInv, TypeOK, Placed, InsertGrantSession, Goto, request
    <2> QED BY <2>4, <2>5 DEF TypeInv
  <1>3. ASSUME NEW w \in Workers, NEW c \in Conns, NEW g \in Gens, PresentRefreshToken(w, c, g)
        PROVE  TypeInv'
    <2>1. g \in 0..MaxGen-1
      BY <1>3 DEF PresentRefreshToken, Gens
    <2>2. TypeOK'
      BY <1>3, <2>1 DEF TypeInv, TypeOK, PresentRefreshToken, Goto, Steps, connectionRows
    <2>3. Placed'
      BY <1>3 DEF TypeInv, TypeOK, Placed, PresentRefreshToken, Goto
    <2> QED BY <2>2, <2>3 DEF TypeInv
  <1>4. ASSUME NEW w \in Workers, NEW S \in SUBSET Scopes, ReadGrant(w, S) PROVE TypeInv'
    <2>1. TypeOK'
      BY <1>4 DEF TypeInv, TypeOK, ReadGrant, Sign, Goto, Steps, connectionRows
    <2>2. Placed'
      BY <1>4 DEF TypeInv, TypeOK, Placed, ReadGrant, Sign, Goto
    <2> QED BY <2>1, <2>2 DEF TypeInv
  <1>5. ASSUME NEW w \in Workers, RotateGrantSession(w) PROVE TypeInv'
    <2>0. conn[w] \in Conns /\ seen[w] \in Gens /\ Replacement(conn[w]) \in Gens
      BY <1>5 DEF TypeInv, TypeOK, Placed, RotateGrantSession, Claims, Replacement, Gens
    <2>1. /\ hash' \in [Conns -> Gens \cup {NoToken}]
          /\ exp' \in [Conns -> [Gens -> Nat]]
          /\ scope' \in [Conns -> [Gens -> SUBSET Scopes]]
      BY <1>5, <2>0, RecordType DEF RotateGrantSession
    <2>2. expires' \in [Conns -> Nat]
      BY <1>5, <2>0 DEF TypeInv, TypeOK, RotateGrantSession, NextExpiry
    <2>3. redeemed' \in [Conns -> [Gens -> Nat]]
      <3> DEFINE row == [redeemed[conn[w]] EXCEPT ![seen[w]] = @ + 1]
      <3>1. redeemed' = [redeemed EXCEPT ![conn[w]] = row]
        BY <1>5 DEF RotateGrantSession
      <3>2. row \in [Gens -> Nat]
        BY <2>0 DEF TypeInv, TypeOK
      <3> HIDE DEF row
      <3> QED BY <3>1, <3>2 DEF TypeInv, TypeOK
    <2>4. pc' \in [Workers -> Steps]
      BY <1>5 DEF TypeInv, TypeOK, RotateGrantSession, Goto, Steps
    <2>5. TypeOK'
      BY <1>5, <2>1, <2>2, <2>3, <2>4 DEF TypeInv, TypeOK, RotateGrantSession, request
    <2>6. Placed'
      BY <1>5, <2>0 DEF TypeInv, TypeOK, Placed, RotateGrantSession, Goto, request
    <2> QED BY <2>5, <2>6 DEF TypeInv
  <1>6. ASSUME NEW w \in Workers, LoseClaim(w) PROVE TypeInv'
    BY <1>6, FinishType DEF TypeInv, TypeOK, LoseClaim, connectionRows
  <1>7. ASSUME NEW w \in Workers, DenyAccessToken(w) PROVE TypeInv'
    <2>0. conn[w] \in Conns /\ seen[w] \in Gens
      BY <1>7 DEF TypeInv, Placed, DenyAccessToken
    <2>1. deny' \in [Conns -> [Gens -> Nat]]
      <3> DEFINE row == [deny[conn[w]] EXCEPT ![seen[w]] = exp[conn[w]][seen[w]]]
      <3>1. deny' = deny \/ deny' = [deny EXCEPT ![conn[w]] = row]
        BY <1>7 DEF DenyAccessToken, RetiringJti
      <3>2. row \in [Gens -> Nat]
        BY <2>0 DEF TypeInv, TypeOK
      <3> HIDE DEF row
      <3> QED BY <3>1, <3>2 DEF TypeInv, TypeOK
    <2>2. pc' \in [Workers -> Steps]
      BY <1>7 DEF TypeInv, TypeOK, DenyAccessToken, Goto, Steps
    <2>3. TypeOK'
      BY <1>7, <2>1, <2>2 DEF TypeInv, TypeOK, DenyAccessToken, request, connectionRows
    <2>4. Placed'
      BY <1>7 DEF TypeInv, TypeOK, Placed, DenyAccessToken, Goto, request
    <2> QED BY <2>3, <2>4 DEF TypeInv
  <1>8. ASSUME NEW w \in Workers, Respond(w) PROVE TypeInv'
    <2>1. seen[w] + 1 \in Gens /\ conn[w] \in Conns
      BY <1>8 DEF TypeInv, TypeOK, Placed, Respond, Gens
    <2>2. held' \in [Conns -> SUBSET Gens]
      BY <1>8, <2>1 DEF TypeInv, TypeOK, Respond
    <2>3. TypeOK'
      BY <1>8, <2>2, FinishType DEF TypeInv, TypeOK, Respond, connectionRows
    <2> QED BY <1>8, <2>3, FinishType DEF TypeInv, Respond
  <1>9. ASSUME NEW w \in Workers, Fail(w) PROVE TypeInv'
    <2>1. abandoned' \subseteq Conns \X Gens
      BY <1>9 DEF TypeInv, TypeOK, Placed, Fail
    <2>2. TypeOK'
      BY <1>9, <2>1, FinishType DEF TypeInv, TypeOK, Fail, connectionRows
    <2> QED BY <1>9, <2>2, FinishType DEF TypeInv, Fail
  <1>10. ASSUME NEW S \in SUBSET Scopes, UpsertGrant(S) PROVE TypeInv'
    BY <1>10 DEF TypeInv, TypeOK, Placed, UpsertGrant, connectionRows, request
  <1>11. CASE Tick
    BY <1>11 DEF TypeInv, TypeOK, Placed, Tick, connectionRows, request
  <1>12. CASE PruneExpiredGrantSessions
    BY <1>12 DEF TypeInv, TypeOK, Placed, PruneExpiredGrantSessions, request
  <1>13. CASE UNCHANGED vars
    BY <1>13 DEF TypeInv, TypeOK, Placed, vars, connectionRows, request
  <1> QED
    BY <1>1, <1>2, <1>3, <1>4, <1>5, <1>6, <1>7, <1>8, <1>9, <1>10, <1>11, <1>12, <1>13
       DEF Next, Start, Continue

\* Every variable stays in its type, and a handler has the connection and the
\* pair its next step uses.
THEOREM TypeCorrect == Spec => []TypeOK
  <1>1. Spec => []TypeInv
    BY TypeInvInit, TypeInvNext, PTL DEF Spec
  <1>2. TypeInv => TypeOK
    BY DEF TypeInv
  <1> QED BY <1>1, <1>2, PTL

-----------------------------------------------------------------------------
(* How the rows, the denylist and the handlers hang together.              *)

\* A connection being inserted is new, and no other handler works on it.
Fresh ==
    \A w \in Workers :
        pc[w] = "insert" =>
            /\ conn[w] \notin used
            /\ \A x \in Workers \ {w} : conn[x] # conn[w]

\* A pair that is live, or still to come, was neither traded nor denied, and
\* none of a connection that was never inserted was signed.
Untouched ==
    \A c \in Conns :
        /\ c \notin used => hash[c] = NoToken /\ \A g \in Gens : exp[c][g] = NoToken
        /\ \A g \in Gens : hash[c] <= g => redeemed[c][g] = 0 /\ deny[c][g] = NoToken

\* A denial is about to hit a pair that was swapped, and holds for as long as
\* the access token lives.
Denials ==
    /\ \A w \in Workers : pc[w] = "deny" => seen[w] < hash[conn[w]]
    /\ \A c \in Conns, g \in Gens : deny[c][g] \in {NoToken, exp[c][g]}

CoreInv == /\ Fresh /\ Untouched /\ Denials
           /\ SingleRedemption /\ RetiredPairRefused /\ ConnectionIsMortal

LEMMA CoreInvInit == Init => CoreInv
  <1> SUFFICES ASSUME Init PROVE CoreInv
    OBVIOUS
  <1>1. Fresh /\ Untouched /\ Denials
    BY DEF Init, Fresh, Untouched, Denials
  <1>2. SingleRedemption /\ ConnectionIsMortal
    BY DEF Init, SingleRedemption, ConnectionIsMortal
  <1>3. RetiredPairRefused
    BY DEF Init, RetiredPairRefused, Gens
  <1> QED BY <1>1, <1>2, <1>3 DEF CoreInv

\* The clock, the consents, the rows that are swept and the steps before the
\* rotation do not matter.
LEMMA CoreFrame ==
  ASSUME TypeInv, CoreInv, now <= now', now' \in Nat,
         UNCHANGED <<hash, expires, ceiling, exp, used, redeemed, deny, conn, seen, abandoned>>,
         \A x \in Workers : (pc'[x] = "insert" => pc[x] = "insert")
                            /\ (pc'[x] = "deny" <=> pc[x] = "deny")
  PROVE  CoreInv'
  <1> USE DEF CoreInv
  <1>1. Fresh'
    BY DEF Fresh
  <1>2. Untouched'
    BY DEF Untouched
  <1>3. Denials'
    BY DEF Denials
  <1>4. SingleRedemption' /\ ConnectionIsMortal'
    BY DEF SingleRedemption, ConnectionIsMortal
  <1>5. RetiredPairRefused'
    <2> SUFFICES ASSUME NEW c \in Conns, NEW g \in Gens, g < hash[c], now' < exp[c][g]
                 PROVE  \/ now' < deny[c][g] \/ <<c, g>> \in abandoned
                        \/ \E w \in Workers : pc'[w] = "deny" /\ conn[w] = c /\ seen[w] = g
      BY DEF RetiredPairRefused, Denied
    <2>1. now \in Nat /\ exp[c][g] \in Nat /\ deny[c][g] \in {NoToken, exp[c][g]}
      BY DEF Denials, TypeInv, TypeOK
    <2>2. now < exp[c][g]
      BY <2>1
    <2>3. \/ now < deny[c][g] \/ <<c, g>> \in abandoned
          \/ \E w \in Workers : pc[w] = "deny" /\ conn[w] = c /\ seen[w] = g
      BY <2>2 DEF RetiredPairRefused, Denied
    <2> QED BY <2>1, <2>3
  <1> QED BY <1>1, <1>2, <1>3, <1>4, <1>5

\* A handler may end, provided its denial is made or known to be missing.
LEMMA CoreFinish ==
  ASSUME TypeInv, CoreInv, NEW w \in Workers, Finish(w),
         pc[w] = "deny" => <<conn[w], seen[w]>> \in abandoned',
         abandoned \subseteq abandoned',
         UNCHANGED <<now, hash, expires, ceiling, exp, used, redeemed, deny>>
  PROVE  CoreInv'
  <1> USE DEF CoreInv
  <1>0. /\ \A x \in Workers \ {w} : pc'[x] = pc[x] /\ conn'[x] = conn[x] /\ seen'[x] = seen[x]
        /\ pc'[w] = "idle" /\ conn'[w] = None
    BY DEF Finish, Goto, TypeInv, TypeOK
  <1>1. Fresh'
    <2> SUFFICES ASSUME NEW x \in Workers, pc'[x] = "insert"
                 PROVE  conn'[x] \notin used /\ \A y \in Workers \ {x} : conn'[y] # conn'[x]
      BY DEF Fresh
    <2>1. conn[x] \in Conns /\ None \notin Conns
      BY <1>0, GrantSessionsAssumption DEF TypeInv, Placed
    <2> QED BY <1>0, <2>1 DEF Fresh
  <1>2. Untouched'
    BY DEF Untouched
  <1>3. Denials'
    BY <1>0 DEF Denials
  <1>4. SingleRedemption' /\ ConnectionIsMortal'
    BY DEF SingleRedemption, ConnectionIsMortal
  <1>5. RetiredPairRefused'
    <2> SUFFICES ASSUME NEW c \in Conns, NEW g \in Gens, g < hash[c], now < exp[c][g]
                 PROVE  \/ now < deny[c][g] \/ <<c, g>> \in abandoned'
                        \/ \E x \in Workers : pc'[x] = "deny" /\ conn'[x] = c /\ seen'[x] = g
      BY DEF RetiredPairRefused, Denied
    <2>1. \/ now < deny[c][g] \/ <<c, g>> \in abandoned
          \/ \E x \in Workers : pc[x] = "deny" /\ conn[x] = c /\ seen[x] = g
      BY DEF RetiredPairRefused, Denied
    <2>2. ASSUME NEW x \in Workers, pc[x] = "deny", conn[x] = c, seen[x] = g
          PROVE  \/ <<c, g>> \in abandoned'
                 \/ \E y \in Workers : pc'[y] = "deny" /\ conn'[y] = c /\ seen'[y] = g
      BY <1>0, <2>2
    <2> QED BY <2>1, <2>2
  <1> QED BY <1>1, <1>2, <1>3, <1>4, <1>5

\* A request that starts takes a connection nobody inserts.
LEMMA CoreStart ==
  ASSUME TypeInv, CoreInv, NEW w \in Workers, Start(w)
  PROVE  CoreInv'
  <1> USE DEF CoreInv
  <1>1. PICK c \in Conns : (\E S \in SUBSET Scopes : ExchangeCode(w, c, S))
                           \/ (\E g \in Gens : PresentRefreshToken(w, c, g))
    BY DEF Start
  <1>2. /\ pc[w] = "idle" /\ pc'[w] \in {"insert", "grant"} /\ conn'[w] = c
        /\ pc'[w] = "insert" => c \notin used /\ \A x \in Workers : conn[x] # c
        /\ pc'[w] = "grant" => c \in used
        /\ \A x \in Workers \ {w} : pc'[x] = pc[x] /\ conn'[x] = conn[x] /\ seen'[x] = seen[x]
        /\ UNCHANGED <<now, connectionRows, deny, abandoned>>
    BY <1>1 DEF ExchangeCode, PresentRefreshToken, Sign, Goto, TypeInv, TypeOK
  <1>3. Fresh'
    <2> SUFFICES ASSUME NEW x \in Workers, pc'[x] = "insert"
                 PROVE  conn'[x] \notin used /\ \A y \in Workers \ {x} : conn'[y] # conn'[x]
      BY <1>2 DEF Fresh, connectionRows
    <2> QED BY <1>2 DEF Fresh
  <1>4. Untouched' /\ SingleRedemption' /\ ConnectionIsMortal'
    BY <1>2 DEF Untouched, SingleRedemption, ConnectionIsMortal, connectionRows
  <1>5. Denials'
    BY <1>2 DEF Denials, connectionRows
  <1>6. RetiredPairRefused'
    <2>1. \A x \in Workers : pc[x] = "deny" => pc'[x] = "deny" /\ conn'[x] = conn[x] /\ seen'[x] = seen[x]
      BY <1>2
    <2> QED BY <1>2, <2>1 DEF RetiredPairRefused, Denied, connectionRows
  <1> QED BY <1>3, <1>4, <1>5, <1>6

\* What InsertGrantSession and RotateGrantSession write of the new pair.
LEMMA RecordEffect ==
  ASSUME TypeInv, NEW w \in Workers, NEW g \in Gens, conn[w] \in Conns, Record(w, g)
  PROVE  /\ \A c \in Conns : hash'[c] = IF c = conn[w] THEN g ELSE hash[c]
         /\ \A c \in Conns, i \in Gens :
               exp'[c][i] = IF c = conn[w] /\ i = g THEN signedAt[w] + AccessTtl ELSE exp[c][i]
  BY DEF Record, TypeInv, TypeOK

LEMMA CoreInsert ==
  ASSUME TypeInv, CoreInv, NEW w \in Workers, InsertGrantSession(w)
  PROVE  CoreInv'
  <1> USE DEF CoreInv
  <1>0. PICK c \in Conns : c = conn[w]
    BY DEF InsertGrantSession, TypeInv, Placed
  <1>1. /\ c \notin used /\ used' = used \cup {c}
        /\ \A x \in Workers \ {w} : conn[x] # c
        /\ signedAt[w] \in Nat /\ 1 \in Gens
    BY <1>0, GrantSessionsAssumption DEF InsertGrantSession, Fresh, TypeInv, TypeOK, Gens
  <1>2. /\ \A x \in Conns : hash'[x] = IF x = c THEN 1 ELSE hash[x]
        /\ \A x \in Conns, i \in Gens :
              exp'[x][i] = IF x = c /\ i = 1 THEN signedAt[w] + AccessTtl ELSE exp[x][i]
    BY <1>0, <1>1, RecordEffect DEF InsertGrantSession
  <1>3. /\ \A x \in Conns : expires'[x] = IF x = c THEN signedAt[w] + RefreshTtl ELSE expires[x]
        /\ \A x \in Conns : ceiling'[x] = IF x = c THEN signedAt[w] + AbsoluteTtl ELSE ceiling[x]
        /\ \A x \in Workers : pc'[x] = IF x = w THEN "respond" ELSE pc[x]
        /\ UNCHANGED <<now, redeemed, deny, conn, seen, abandoned>> /\ pc[w] = "insert"
    BY <1>0 DEF InsertGrantSession, Goto, request, TypeInv, TypeOK
  <1>4. hash[c] = 0 /\ \A g \in Gens : exp[c][g] = 0 /\ redeemed[c][g] = 0 /\ deny[c][g] = 0
    BY <1>1 DEF Untouched, Gens
  <1>5. Fresh'
    BY <1>0, <1>1, <1>3 DEF Fresh
  <1>6. Untouched'
    <2> SUFFICES ASSUME NEW x \in Conns
                 PROVE  /\ x \notin used' => hash'[x] = 0 /\ \A g \in Gens : exp'[x][g] = 0
                        /\ \A g \in Gens : hash'[x] <= g => redeemed[x][g] = 0 /\ deny[x][g] = 0
      BY <1>3 DEF Untouched
    <2> QED BY <1>1, <1>2, <1>4 DEF Untouched
  <1>7. Denials'
    <2>1. ASSUME NEW x \in Workers, pc'[x] = "deny" PROVE seen[x] < hash'[conn[x]]
      <3>1. x # w /\ pc[x] = "deny" /\ conn[x] # c /\ conn[x] \in Conns
        BY <1>1, <1>3, <2>1 DEF TypeInv, Placed
      <3> QED BY <1>2, <3>1 DEF Denials
    <2>2. ASSUME NEW x \in Conns, NEW g \in Gens PROVE deny[x][g] \in {0, exp'[x][g]}
      BY <1>2, <1>4 DEF Denials
    <2> QED BY <1>3, <2>1, <2>2 DEF Denials
  <1>8. SingleRedemption'
    BY <1>3 DEF SingleRedemption
  <1>9. RetiredPairRefused'
    <2> SUFFICES ASSUME NEW x \in Conns, NEW g \in Gens, g < hash'[x], now < exp'[x][g]
                 PROVE  \/ now < deny[x][g] \/ <<x, g>> \in abandoned
                        \/ \E y \in Workers : pc'[y] = "deny" /\ conn[y] = x /\ seen[y] = g
      BY <1>3 DEF RetiredPairRefused, Denied
    <2>1. x # c
      BY <1>2 DEF Gens
    <2>2. \/ now < deny[x][g] \/ <<x, g>> \in abandoned
          \/ \E y \in Workers : pc[y] = "deny" /\ conn[y] = x /\ seen[y] = g
      BY <1>2, <2>1 DEF RetiredPairRefused, Denied
    <2>3. \A y \in Workers : pc[y] = "deny" => pc'[y] = "deny"
      BY <1>3
    <2> QED BY <2>2, <2>3
  <1>10. ConnectionIsMortal'
    <2> SUFFICES ASSUME NEW x \in used'
                 PROVE  /\ expires'[x] <= ceiling'[x]
                        /\ \A g \in Gens : exp'[x][g] < ceiling'[x] + AccessTtl
      BY DEF ConnectionIsMortal
    <2>1. CASE x = c
      BY <1>1, <1>2, <1>3, <1>4, <2>1, GrantSessionsAssumption
    <2>2. CASE x # c
      <3>1. x \in used /\ x \in Conns
        BY <1>1, <2>2 DEF TypeInv, TypeOK
      <3> QED BY <1>2, <1>3, <2>2, <3>1 DEF ConnectionIsMortal
    <2> QED BY <2>1, <2>2
  <1> QED BY <1>5, <1>6, <1>7, <1>8, <1>9, <1>10

\* The rotation: the pair that goes is spent once, the one that comes is fresh,
\* and the handler that swapped them is the one that owes the denial.
LEMMA CoreRotate ==
  ASSUME TypeInv, CoreInv, NEW w \in Workers, RotateGrantSession(w)
  PROVE  CoreInv'
  <1> USE DEF CoreInv
  <1>0. PICK c \in Conns, g \in Gens, n \in Gens :
          c = conn[w] /\ g = seen[w] /\ g = hash[c] /\ n = g + 1
    <2>1. /\ conn[w] \in Conns /\ seen[w] \in Gens /\ seen[w] = hash[conn[w]]
          /\ hash[conn[w]] < MaxGen
      BY DEF RotateGrantSession, Claims, TypeInv, Placed
    <2> QED BY <2>1, GrantSessionsAssumption DEF Gens
  <1>1. /\ c \in used /\ signedAt[w] \in Nat /\ ceiling[c] \in Nat /\ signedAt[w] < ceiling[c]
        /\ redeemed[c][g] = 0 /\ pc[w] = "rotate" /\ g < n
    BY <1>0 DEF RotateGrantSession, Claims, Untouched, TypeInv, TypeOK, Gens
  <1>2. /\ \A x \in Conns : hash'[x] = IF x = c THEN n ELSE hash[x]
        /\ \A x \in Conns, i \in Gens :
              exp'[x][i] = IF x = c /\ i = n THEN signedAt[w] + AccessTtl ELSE exp[x][i]
    BY <1>0, RecordEffect DEF RotateGrantSession, Replacement
  <1>3. /\ UNCHANGED <<now, rows, ceiling, used, deny, conn, seen, abandoned>>
        /\ \A x \in Conns : expires'[x] = IF x = c THEN NextExpiry(w) ELSE expires[x]
        /\ \A x \in Workers : pc'[x] = IF x = w THEN "deny" ELSE pc[x]
    BY <1>0 DEF RotateGrantSession, Goto, request, TypeInv, TypeOK
  <1>4. \A x \in Conns, i \in Gens :
          redeemed'[x][i] = IF x = c /\ i = g THEN 1 ELSE redeemed[x][i]
    <2> DEFINE row == [redeemed[c] EXCEPT ![g] = @ + 1]
    <2>1. redeemed' = [redeemed EXCEPT ![c] = row]
      BY <1>0 DEF RotateGrantSession
    <2>2. \A i \in Gens : row[i] = IF i = g THEN 1 ELSE redeemed[c][i]
      BY <1>1 DEF TypeInv, TypeOK
    <2> HIDE DEF row
    <2> QED BY <2>1, <2>2 DEF TypeInv, TypeOK
  <1>5. NextExpiry(w) <= ceiling[c]
    BY <1>0, <1>1, GrantSessionsAssumption DEF NextExpiry
  <1>6. Fresh'
    BY <1>1, <1>3 DEF Fresh
  <1>7. Untouched'
    <2> SUFFICES ASSUME NEW x \in Conns
                 PROVE  /\ x \notin used => hash'[x] = 0 /\ \A i \in Gens : exp'[x][i] = 0
                        /\ \A i \in Gens : hash'[x] <= i => redeemed'[x][i] = 0 /\ deny[x][i] = 0
      BY <1>3 DEF Untouched
    <2>1. CASE x = c
      BY <1>0, <1>1, <1>2, <1>4, <2>1 DEF Untouched, Gens
    <2>2. CASE x # c
      BY <1>2, <1>4, <2>2 DEF Untouched
    <2> QED BY <2>1, <2>2
  <1>8. Denials'
    <2>1. ASSUME NEW x \in Workers, pc'[x] = "deny" PROVE seen[x] < hash'[conn[x]]
      <3>1. CASE x = w
        BY <1>0, <1>1, <1>2, <3>1
      <3>2. CASE x # w
        <4>1. pc[x] = "deny" /\ conn[x] \in Conns /\ seen[x] \in Gens /\ seen[x] < hash[conn[x]]
          BY <1>3, <2>1, <3>2 DEF Denials, TypeInv, Placed
        <4> QED BY <1>0, <1>1, <1>2, <4>1 DEF Gens
      <3> QED BY <3>1, <3>2
    <2>2. ASSUME NEW x \in Conns, NEW i \in Gens PROVE deny[x][i] \in {0, exp'[x][i]}
      <3>1. CASE x = c /\ i = n
        BY <1>0, <3>1 DEF Untouched, Gens
      <3>2. CASE ~(x = c /\ i = n)
        BY <1>2, <3>2 DEF Denials
      <3> QED BY <3>1, <3>2
    <2> QED BY <1>3, <2>1, <2>2 DEF Denials
  <1>9. SingleRedemption'
    BY <1>4 DEF SingleRedemption
  <1>10. RetiredPairRefused'
    <2> SUFFICES ASSUME NEW x \in Conns, NEW i \in Gens, i < hash'[x], now < exp'[x][i]
                 PROVE  \/ now < deny[x][i] \/ <<x, i>> \in abandoned
                        \/ \E y \in Workers : pc'[y] = "deny" /\ conn[y] = x /\ seen[y] = i
      BY <1>3 DEF RetiredPairRefused, Denied
    <2>1. CASE x = c /\ i = g
      BY <1>0, <1>3, <2>1
    <2>2. CASE ~(x = c /\ i = g)
      <3>1. i < hash[x] /\ now < exp[x][i]
        BY <1>0, <1>1, <1>2, <2>2 DEF Gens
      <3>2. \/ now < deny[x][i] \/ <<x, i>> \in abandoned
            \/ \E y \in Workers : pc[y] = "deny" /\ conn[y] = x /\ seen[y] = i
        BY <3>1 DEF RetiredPairRefused, Denied
      <3>3. \A y \in Workers : pc[y] = "deny" => pc'[y] = "deny"
        BY <1>3
      <3> QED BY <3>2, <3>3
    <2> QED BY <2>1, <2>2
  <1>11. ConnectionIsMortal'
    <2> SUFFICES ASSUME NEW x \in used
                 PROVE  /\ expires'[x] <= ceiling[x]
                        /\ \A i \in Gens : exp'[x][i] < ceiling[x] + AccessTtl
      BY <1>3 DEF ConnectionIsMortal
    <2>1. x \in Conns
      BY DEF TypeInv, TypeOK
    <2> QED BY <1>1, <1>2, <1>3, <1>5, <2>1, GrantSessionsAssumption DEF ConnectionIsMortal
  <1> QED BY <1>6, <1>7, <1>8, <1>9, <1>10, <1>11

\* The denial: of a pair that was swapped, until its access token expires.
LEMMA CoreDeny ==
  ASSUME TypeInv, CoreInv, NEW w \in Workers, DenyAccessToken(w)
  PROVE  CoreInv'
  <1> USE DEF CoreInv
  <1>0. PICK c \in Conns, g \in Gens : c = conn[w] /\ g = seen[w]
    BY DEF DenyAccessToken, TypeInv, Placed
  <1>1. /\ UNCHANGED <<now, hash, expires, ceiling, exp, used, redeemed, conn, seen, abandoned>>
        /\ \A x \in Workers : pc'[x] = IF x = w THEN "respond" ELSE pc[x]
        /\ pc[w] = "deny" /\ now \in Nat /\ exp[c][g] \in Nat
    BY DEF DenyAccessToken, Goto, connectionRows, request, TypeInv, TypeOK
  <1>2. g < hash[c]
    BY <1>0, <1>1 DEF Denials
  <1>3. \A x \in Conns, i \in Gens :
          deny'[x][i] = IF x = c /\ i = g /\ now < exp[c][g] THEN exp[c][g] ELSE deny[x][i]
    <2> DEFINE row == [deny[c] EXCEPT ![g] = exp[c][g]]
    <2>1. deny' = IF now < exp[c][g] THEN [deny EXCEPT ![c] = row] ELSE deny
      BY <1>0 DEF DenyAccessToken, RetiringJti
    <2>2. \A i \in Gens : row[i] = IF i = g THEN exp[c][g] ELSE deny[c][i]
      BY DEF TypeInv, TypeOK
    <2> HIDE DEF row
    <2> QED BY <2>1, <2>2 DEF TypeInv, TypeOK
  <1>4. Fresh' /\ SingleRedemption' /\ ConnectionIsMortal'
    BY <1>1 DEF Fresh, SingleRedemption, ConnectionIsMortal
  <1>5. Untouched'
    <2>1. hash[c] \in Nat /\ g \in Nat
      BY DEF TypeInv, TypeOK, Gens
    <2>2. ~(hash[c] <= g)
      BY <1>2, <2>1
    <2> QED BY <1>1, <1>3, <2>2 DEF Untouched
  <1>6. Denials'
    BY <1>1, <1>3 DEF Denials
  <1>7. RetiredPairRefused'
    <2> SUFFICES ASSUME NEW x \in Conns, NEW i \in Gens, i < hash[x], now < exp[x][i]
                 PROVE  \/ now < deny'[x][i] \/ <<x, i>> \in abandoned
                        \/ \E y \in Workers : pc'[y] = "deny" /\ conn[y] = x /\ seen[y] = i
      BY <1>1 DEF RetiredPairRefused, Denied
    <2>1. CASE x = c /\ i = g
      BY <1>3, <2>1
    <2>2. CASE ~(x = c /\ i = g)
      <3>1. \/ now < deny[x][i] \/ <<x, i>> \in abandoned
            \/ \E y \in Workers : pc[y] = "deny" /\ conn[y] = x /\ seen[y] = i
        BY DEF RetiredPairRefused, Denied
      <3>2. \A y \in Workers : pc[y] = "deny" /\ conn[y] = x /\ seen[y] = i => pc'[y] = "deny"
        BY <1>0, <1>1, <2>2
      <3> QED BY <1>3, <2>2, <3>1, <3>2
    <2> QED BY <2>1, <2>2
  <1> QED BY <1>4, <1>5, <1>6, <1>7

LEMMA CoreInvNext == TypeInv /\ CoreInv /\ [Next]_vars => CoreInv'
  <1> SUFFICES ASSUME TypeInv, CoreInv, [Next]_vars PROVE CoreInv'
    OBVIOUS
  <1>0. now \in Nat
    BY DEF TypeInv, TypeOK
  <1>1. ASSUME NEW w \in Workers, NEW S \in SUBSET Scopes, ReadGrant(w, S) PROVE CoreInv'
    BY <1>0, <1>1, CoreFrame DEF ReadGrant, Sign, Goto, connectionRows, TypeInv, TypeOK
  <1>2. ASSUME NEW w \in Workers, LoseClaim(w) PROVE CoreInv'
    BY <1>2, CoreFinish DEF LoseClaim, connectionRows
  <1>3. ASSUME NEW w \in Workers, Respond(w) PROVE CoreInv'
    BY <1>3, CoreFinish DEF Respond, connectionRows
  <1>4. ASSUME NEW w \in Workers, Fail(w) PROVE CoreInv'
    BY <1>4, CoreFinish DEF Fail, connectionRows
  <1>5. ASSUME NEW S \in SUBSET Scopes, UpsertGrant(S) PROVE CoreInv'
    BY <1>0, <1>5, CoreFrame DEF UpsertGrant, connectionRows, request
  <1>6. CASE Tick
    BY <1>0, <1>6, CoreFrame DEF Tick, connectionRows, request
  <1>7. CASE PruneExpiredGrantSessions
    BY <1>0, <1>7, CoreFrame DEF PruneExpiredGrantSessions, request
  <1>8. CASE UNCHANGED vars
    BY <1>0, <1>8, CoreFrame DEF vars, connectionRows, request
  <1> QED
    BY <1>1, <1>2, <1>3, <1>4, <1>5, <1>6, <1>7, <1>8, CoreStart, CoreInsert, CoreRotate, CoreDeny
       DEF Next, Continue

LEMMA Invariance == Spec => [](TypeInv /\ CoreInv)
  BY TypeInvInit, TypeInvNext, CoreInvInit, CoreInvNext, PTL DEF Spec

-----------------------------------------------------------------------------
(* What follows.                                                           *)

\* However many handlers present a refresh token at the same time, and however
\* stale what they read, rotateGrantSession trades it at most once.
THEOREM RefreshTokensAreSingleUse == Spec => []SingleRedemption
  <1>1. CoreInv => SingleRedemption
    BY DEF CoreInv
  <1> QED BY <1>1, Invariance, PTL

\* No interleaving of rotations and denials ever puts the access token of the
\* live pair, or of one still to come, on the denylist.
THEOREM LivePairIsNeverDenied == Spec => []LivePairNotDenied
  <1>1. CoreInv => LivePairNotDenied
    BY DEF CoreInv, Untouched, LivePairNotDenied
  <1> QED BY <1>1, Invariance, PTL

\* An access token whose pair was swapped is on the denylist until it expires,
\* or its handler is about to put it there, or that handler failed.
THEOREM SwappedPairsAreRefused == Spec => []RetiredPairRefused
  <1>1. CoreInv => RetiredPairRefused
    BY DEF CoreInv
  <1> QED BY <1>1, Invariance, PTL

\* Whatever the lifetimes, refreshing never carries a connection past the
\* ceiling that was set when its code was exchanged.
THEOREM ConnectionsEnd == Spec => []ConnectionIsMortal
  <1>1. CoreInv => ConnectionIsMortal
    BY DEF CoreInv
  <1> QED BY <1>1, Invariance, PTL

-----------------------------------------------------------------------------
(* A dead token stays dead.                                                 *)

\* Rows that only go away bring no token back.
LEMMA DeadFrame ==
  ASSUME rows' \subseteq rows, UNCHANGED hash
  PROVE  \A c \in used : \A g \in 1..hash[c] : ~Redeemable(c, g) => ~Redeemable(c, g)'
  BY DEF Redeemable

\* A step brings no token back: a row is inserted under an id that had none, and a
\* rotation makes way for a pair that comes after all those before.
LEMMA DeadStayDeadNext ==
  ASSUME TypeInv, CoreInv, [Next]_vars, NEW c \in used, NEW g \in 1..hash[c],
         ~Redeemable(c, g)
  PROVE  ~Redeemable(c, g)'
  <1>1. ASSUME NEW w \in Workers, Start(w) \/ Fail(w) PROVE ~Redeemable(c, g)'
    <2>1. UNCHANGED <<rows, hash>>
      BY <1>1 DEF Start, ExchangeCode, PresentRefreshToken, Fail, connectionRows
    <2> QED BY <2>1, DeadFrame
  <1>2. ASSUME NEW w \in Workers, InsertGrantSession(w) PROVE ~Redeemable(c, g)'
    <2>1. conn[w] # c
      BY <1>2 DEF InsertGrantSession, CoreInv, Fresh
    <2>2. hash'[c] = hash[c] /\ (c \in rows' => c \in rows)
      BY <1>2, <2>1 DEF InsertGrantSession, Record, TypeInv, TypeOK
    <2> QED BY <2>2 DEF Redeemable
  <1>3. ASSUME NEW w \in Workers, RotateGrantSession(w) PROVE ~Redeemable(c, g)'
    <2>1. rows' = rows
      BY <1>3 DEF RotateGrantSession
    <2>2. CASE conn[w] = c
      <3>1. c \in rows
        BY <1>3, <2>2 DEF RotateGrantSession, Claims
      <3>2. hash[c] \in Nat /\ hash'[c] = hash[c] + 1
        BY <1>3, <2>2, GrantSessionsAssumption
           DEF RotateGrantSession, Record, Replacement, TypeInv, TypeOK, Gens
      <3> QED BY <3>1, <3>2 DEF Redeemable
    <2>3. CASE conn[w] # c
      <3>1. hash'[c] = hash[c]
        BY <1>3, <2>3 DEF RotateGrantSession, Record, TypeInv, TypeOK
      <3> QED BY <2>1, <3>1 DEF Redeemable
    <2> QED BY <2>2, <2>3
  <1>4. ASSUME NEW w \in Workers,
               \/ \E S \in SUBSET Scopes : ReadGrant(w, S)
               \/ LoseClaim(w) \/ DenyAccessToken(w) \/ Respond(w)
        PROVE  ~Redeemable(c, g)'
    <2>1. UNCHANGED <<rows, hash>>
      BY <1>4 DEF ReadGrant, LoseClaim, DenyAccessToken, Respond, connectionRows
    <2> QED BY <2>1, DeadFrame
  <1>5. CASE (\E S \in SUBSET Scopes : UpsertGrant(S)) \/ Tick \/ UNCHANGED vars
    <2>1. UNCHANGED <<rows, hash>>
      BY <1>5 DEF UpsertGrant, Tick, vars, connectionRows
    <2> QED BY <2>1, DeadFrame
  <1>6. CASE PruneExpiredGrantSessions
    BY <1>6, DeadFrame DEF PruneExpiredGrantSessions
  <1> QED BY <1>1, <1>2, <1>3, <1>4, <1>5, <1>6 DEF Next, Continue

\* A refresh token of a connection that was traded, or whose connection was pruned, is
\* never traded again.
THEOREM RetiredTokensStayRetired == Spec => DeadTokensStayDead
  <1>1. TypeInv /\ CoreInv /\ [Next]_vars =>
          [\A c \in used : \A g \in 1..hash[c] : ~Redeemable(c, g) => ~Redeemable(c, g)']_vars
    BY DeadStayDeadNext
  <1> QED BY <1>1, Invariance, PTL DEF Spec, DeadTokensStayDead

-----------------------------------------------------------------------------
(* The connection table implements the abstract store of rotating tokens.  *)

validTokens == {t \in Conns \X Gens : t[1] \in rows /\ t[2] = hash[t[1]]}
spentTokens == {t \in Conns \X Gens : redeemed[t[1]][t[2]] > 0}

LEMMA TokensInit == Init => Tokens!Init
  BY DEF Init, Tokens!Init

\* A step that leaves the tokens alone is a stutter of the abstract store.
LEMMA TokensStutter ==
  ASSUME UNCHANGED <<rows, hash, used, redeemed>>
  PROVE  UNCHANGED Tokens!vars
  BY DEF Tokens!vars

\* The expiry sweep closes families and touches nothing else.
LEMMA TokensClose ==
  ASSUME TypeInv, PruneExpiredGrantSessions
  PROVE  Tokens!Next
  <1>1. PICK S \in SUBSET Conns : rows' = rows \ S /\ UNCHANGED <<hash, used, redeemed>>
    <2>1. /\ rows \ rows' \in SUBSET Conns /\ rows' = rows \ (rows \ rows')
          /\ UNCHANGED <<hash, used, redeemed>>
      BY DEF PruneExpiredGrantSessions, TypeInv, TypeOK
    <2> QED BY <2>1
  <1>2. validTokens' = {t \in validTokens : t[1] \notin S}
    BY <1>1 DEF validTokens
  <1>3. Tokens!Close(S)
    BY <1>1, <1>2 DEF Tokens!Close, validTokens
  <1> QED BY <1>1, <1>3 DEF Tokens!Next

\* The insert of a connection opens its family.
LEMMA TokensOpen ==
  ASSUME TypeInv, CoreInv, NEW w \in Workers, InsertGrantSession(w)
  PROVE  Tokens!Next
  <1>1. PICK c \in Conns : c = conn[w]
    BY DEF InsertGrantSession, TypeInv, Placed
  <1>2. /\ c \notin used /\ c \notin rows /\ 1 \in Gens
        /\ used' = used \cup {c} /\ rows' = rows \cup {c} /\ redeemed' = redeemed
    BY <1>1, GrantSessionsAssumption DEF InsertGrantSession, CoreInv, Fresh, TypeInv, TypeOK, Gens
  <1>3. \A x \in Conns : hash'[x] = IF x = c THEN 1 ELSE hash[x]
    BY <1>1, <1>2, RecordEffect DEF InsertGrantSession
  <1>4. validTokens' = validTokens \cup {<<c, 1>>}
    BY <1>2, <1>3 DEF validTokens
  <1>5. Tokens!Open(c, 1)
    BY <1>2, <1>4, Zenon DEF Tokens!Open, validTokens
  <1> QED BY <1>2, <1>5 DEF Tokens!Next

\* A rotation is one trade of the valid token for a fresh one.
LEMMA TokensRedeem ==
  ASSUME TypeInv, CoreInv, NEW w \in Workers, RotateGrantSession(w)
  PROVE  Tokens!Next
  <1>1. PICK c \in Conns, g \in Gens, n \in Gens :
          c = conn[w] /\ g = seen[w] /\ g = hash[c] /\ n = g + 1
    <2>1. /\ conn[w] \in Conns /\ seen[w] \in Gens /\ seen[w] = hash[conn[w]]
          /\ hash[conn[w]] < MaxGen
      BY DEF RotateGrantSession, Claims, TypeInv, Placed
    <2> QED BY <2>1, GrantSessionsAssumption DEF Gens
  <1>2. c \in rows /\ redeemed[c][g] = 0 /\ redeemed[c][n] = 0 /\ g # n
    BY <1>1 DEF RotateGrantSession, Claims, CoreInv, Untouched, Gens
  <1>3. \A x \in Conns : hash'[x] = IF x = c THEN n ELSE hash[x]
    BY <1>1, RecordEffect DEF RotateGrantSession, Replacement
  <1>4. \A x \in Conns, i \in Gens :
          redeemed'[x][i] = IF x = c /\ i = g THEN 1 ELSE redeemed[x][i]
    <2> DEFINE row == [redeemed[c] EXCEPT ![g] = @ + 1]
    <2>1. redeemed' = [redeemed EXCEPT ![c] = row]
      BY <1>1 DEF RotateGrantSession
    <2>2. \A i \in Gens : row[i] = IF i = g THEN 1 ELSE redeemed[c][i]
      BY <1>2 DEF TypeInv, TypeOK
    <2> HIDE DEF row
    <2> QED BY <2>1, <2>2 DEF TypeInv, TypeOK
  <1>5. UNCHANGED <<rows, used>>
    BY DEF RotateGrantSession
  <1>6. validTokens' = (validTokens \ {<<c, g>>}) \cup {<<c, n>>}
    BY <1>1, <1>2, <1>3, <1>5 DEF validTokens
  <1>7. spentTokens' = spentTokens \cup {<<c, g>>}
    BY <1>4 DEF spentTokens
  <1>8. <<c, g>> \in validTokens /\ <<c, n>> \notin validTokens \cup spentTokens
    BY <1>1, <1>2 DEF validTokens, spentTokens
  <1>9. Tokens!Redeem(c, g, n)
    BY <1>5, <1>6, <1>7, <1>8, Zenon DEF Tokens!Redeem, validTokens, spentTokens
  <1> QED BY <1>9 DEF Tokens!Next

LEMMA TokensNext == TypeInv /\ CoreInv /\ [Next]_vars => [Tokens!Next]_(Tokens!vars)
  <1> SUFFICES ASSUME TypeInv, CoreInv, [Next]_vars
               PROVE  Tokens!Next \/ UNCHANGED Tokens!vars
    OBVIOUS
  <1>1. ASSUME NEW w \in Workers, Start(w) \/ Fail(w) PROVE UNCHANGED Tokens!vars
    BY <1>1, TokensStutter
       DEF Start, ExchangeCode, PresentRefreshToken, Fail, connectionRows
  <1>2. ASSUME NEW w \in Workers, Continue(w) PROVE Tokens!Next \/ UNCHANGED Tokens!vars
    <2>1. CASE \/ \E S \in SUBSET Scopes : ReadGrant(w, S)
               \/ LoseClaim(w) \/ DenyAccessToken(w) \/ Respond(w)
      BY <2>1, TokensStutter DEF ReadGrant, LoseClaim, DenyAccessToken, Respond, connectionRows
    <2> QED BY <1>2, <2>1, TokensOpen, TokensRedeem DEF Continue
  <1>3. ASSUME NEW S \in SUBSET Scopes, UpsertGrant(S) PROVE UNCHANGED Tokens!vars
    BY <1>3, TokensStutter DEF UpsertGrant, connectionRows
  <1>4. CASE Tick
    BY <1>4, TokensStutter DEF Tick, connectionRows
  <1>5. CASE UNCHANGED vars
    BY <1>5, TokensStutter DEF vars, connectionRows
  <1> QED BY <1>1, <1>2, <1>3, <1>4, <1>5, TokensClose DEF Next

\* Every behaviour of the /token handlers, failures included, is one of the
\* abstract store: a refresh token is traded atomically, once, for a fresh one.
THEOREM GrantSessionsImplementRotatingTokens == Spec => ImplementsRotatingTokens
  BY Invariance, TokensInit, TokensNext, PTL DEF Spec, ImplementsRotatingTokens, Tokens!Spec
=============================================================================
