--------------------------- MODULE SessionsProofs ---------------------------
(***************************************************************************)
(* Proofs about Sessions.tla, for every set of ids, users and handlers and *)
(* every bound: type correctness, and the safety invariants that the runs  *)
(* of MCSessions check.  The inductive invariant comes in two layers:      *)
(* TypeInv says that a handler at a step has the arguments the step needs, *)
(* CoreInv says who may carry which token.                                 *)
(***************************************************************************)
EXTENDS Sessions, TLAPS

-----------------------------------------------------------------------------
(* Type correctness.                                                       *)

SessionSteps == Steps \ {"idle", "pwd.update", "pwd.deleteAll", "pwd.revokeAll"}

Placed ==
    \A w \in Workers :
        /\ pc[w] \in SessionSteps => sid[w] \in SessionIds
        /\ Issuing(w) \/ pc[w] \in {"login.insert", "renew.rotate"} => tok[w] \in Gens
        /\ pc[w] \in {"pwd.update", "pwd.deleteAll", "pwd.revokeAll"} => usr[w] \in Users

TypeInv == TypeOK /\ Placed

USE DEF NoHash

\* In the initial states no handler runs.
LEMMA TypeInvInit == Init => TypeInv
  <1> SUFFICES ASSUME Init PROVE TypeInv
    OBVIOUS
  <1>1. 1 \in Gens /\ 1 \in 1..MaxPwd
    BY SessionsAssumption DEF Gens
  <1>2. TypeOK
    BY <1>1, SessionsAssumption DEF Init, TypeOK, Steps
  <1>3. Placed
    BY DEF Init, Placed, SessionSteps, Issuing
  <1> QED BY <1>2, <1>3 DEF TypeInv

\* A handler that finishes is left without arguments.
LEMMA FinishType ==
  ASSUME TypeInv, NEW w \in Workers, Finish(w)
  PROVE  /\ pc' \in [Workers -> Steps]
         /\ sid' \in [Workers -> SessionIds \cup {None}]
         /\ usr' \in [Workers -> Users \cup {None}]
         /\ tok' \in [Workers -> Gens \cup {NoHash}]
         /\ doomed' \in [Workers -> SUBSET SessionIds]
         /\ Placed'
  <1>1. pc' \in [Workers -> Steps]
    BY DEF TypeInv, TypeOK, Finish, Goto, Steps
  <1>2. /\ sid' \in [Workers -> SessionIds \cup {None}]
        /\ usr' \in [Workers -> Users \cup {None}]
        /\ tok' \in [Workers -> Gens \cup {NoHash}]
        /\ doomed' \in [Workers -> SUBSET SessionIds]
    BY DEF TypeInv, TypeOK, Finish
  <1>3. Placed'
    BY DEF TypeInv, TypeOK, Placed, Finish, Goto, Issuing, SessionSteps
  <1> QED BY <1>1, <1>2, <1>3

\* Every step keeps the types: one case per action.
LEMMA TypeInvNext == TypeInv /\ [Next]_vars => TypeInv'
  <1> SUFFICES ASSUME TypeInv, [Next]_vars PROVE TypeInv'
    OBVIOUS
  <1> USE SessionsAssumption DEF Gens
  <1>1. ASSUME NEW w \in Workers, NEW s \in SessionIds, Login(w, s) PROVE TypeInv'
    <2>1. pc' \in [Workers -> Steps]
      BY <1>1 DEF TypeInv, TypeOK, Login, Goto, Steps
    <2>2. born' \in [SessionIds -> 1..MaxPwd]
      <3>1. pwd[UserOf[s]] \in 1..MaxPwd
        BY DEF TypeInv, TypeOK
      <3> QED BY <1>1, <3>1 DEF TypeInv, TypeOK, Login
    <2>3. 1 \in Gens
      OBVIOUS
    <2>4. TypeOK'
      BY <1>1, <2>1, <2>2, <2>3 DEF TypeInv, TypeOK, Login, sessionRows
    <2>5. Placed'
      BY <1>1, <2>3 DEF TypeInv, TypeOK, Placed, Login, Goto, Issuing, SessionSteps, Steps
    <2> QED BY <2>4, <2>5 DEF TypeInv
  <1>2. ASSUME NEW w \in Workers, InsertSession(w) PROVE TypeInv'
    <2>0. sid[w] \in SessionIds /\ tok[w] \in Gens
      BY <1>2 DEF TypeInv, Placed, InsertSession, SessionSteps, Steps
    <2>1. TypeOK'
      BY <1>2, <2>0 DEF TypeInv, TypeOK, InsertSession, Goto, Steps, request
    <2>2. Placed'
      BY <1>2, <2>0 DEF TypeInv, TypeOK, Placed, InsertSession, Goto, Issuing, SessionSteps, Steps, request
    <2> QED BY <2>1, <2>2 DEF TypeInv
  <1>3. ASSUME NEW w \in Workers, IssueAccessToken(w) PROVE TypeInv'
    <2>0. sid[w] \in SessionIds /\ tok[w] \in Gens
      BY <1>3 DEF TypeInv, Placed, IssueAccessToken, SessionSteps, Steps, Issuing
    <2>1. late' \in [SessionIds -> Nat]
      BY <1>3, <2>0 DEF TypeInv, TypeOK, IssueAccessToken
    <2>2. pc' \in [Workers -> Steps]
      BY <1>3 DEF TypeInv, TypeOK, IssueAccessToken, Goto, Steps
    <2>3. at' \in [SessionIds -> Gens \cup {NoHash}]
      BY <1>3, <2>0 DEF TypeInv, TypeOK, IssueAccessToken
    <2>4. TypeOK'
      BY <1>3, <2>1, <2>2, <2>3 DEF TypeInv, TypeOK, IssueAccessToken, request, sessionRows
    <2>5. Placed'
      BY <1>3, <2>0 DEF TypeInv, TypeOK, Placed, IssueAccessToken, Goto, Issuing, SessionSteps, Steps, request
    <2> QED BY <2>4, <2>5 DEF TypeInv
  <1>4. ASSUME NEW w \in Workers, Respond(w) PROVE TypeInv'
    <2>0. sid[w] \in SessionIds /\ tok[w] \in Gens
      BY <1>4 DEF TypeInv, Placed, Respond, SessionSteps, Steps, Issuing
    <2>1. held' \in [SessionIds -> SUBSET Gens]
      BY <1>4, <2>0 DEF TypeInv, TypeOK, Respond
    <2>2. TypeOK'
      BY <1>4, <2>1, FinishType DEF TypeInv, TypeOK, Respond, sessionRows
    <2> QED BY <1>4, <2>2, FinishType DEF TypeInv, Respond
  <1>5. ASSUME NEW w \in Workers, NEW s \in SessionIds,
               NEW t \in held[s] \cup {Unknown}, Renew(w, s, t)
        PROVE TypeInv'
    <2>0. t \in Gens
      BY <1>5 DEF TypeInv, TypeOK, Renew, IsReuse
    <2>1. TypeOK'
      BY <1>5, <2>0 DEF TypeInv, TypeOK, Renew, Goto, Steps, sessionRows
    <2>2. Placed'
      BY <1>5, <2>0 DEF TypeInv, TypeOK, Placed, Renew, Goto, Issuing, SessionSteps, Steps
    <2> QED BY <2>1, <2>2 DEF TypeInv
  <1>6. ASSUME NEW w \in Workers, RotateSession(w) PROVE TypeInv'
    <2>10. sid[w] \in SessionIds /\ tok[w] \in Gens
      BY <1>6 DEF TypeInv, Placed, RotateSession, SessionSteps, Steps
    <2>11. hash[sid[w]] \in Gens
      BY <2>10 DEF TypeInv, TypeOK
    <2>12. Replacement(sid[w]) \in Gens
      BY <1>6, <2>11 DEF RotateSession, Replacement
    <2>0. /\ sid[w] \in SessionIds /\ tok[w] \in Gens
          /\ hash[sid[w]] \in Gens /\ Replacement(sid[w]) \in Gens
      BY <2>10, <2>11, <2>12
    <2>1. redeemed' \in [SessionIds -> [Gens -> Nat]]
      <3> DEFINE r == [redeemed[sid[w]] EXCEPT ![tok[w]] = @ + 1]
      <3>1. redeemed[sid[w]] \in [Gens -> Nat]
        BY <2>10 DEF TypeInv, TypeOK
      <3>2. r \in [Gens -> Nat]
        BY <2>10, <3>1
      <3>3. redeemed' = [redeemed EXCEPT ![sid[w]] = r]
        BY <1>6 DEF RotateSession
      <3> HIDE DEF r
      <3> QED BY <3>2, <3>3 DEF TypeInv, TypeOK
    <2>2. TypeOK'
      BY <1>6, <2>0, <2>1 DEF TypeInv, TypeOK, RotateSession, Goto, Steps
    <2>3. Placed'
      BY <1>6, <2>0 DEF TypeInv, TypeOK, Placed, RotateSession, Goto, Issuing, SessionSteps, Steps
    <2> QED BY <2>2, <2>3 DEF TypeInv
  <1>7. ASSUME NEW w \in Workers, LoseClaim(w) PROVE TypeInv'
    BY <1>7, FinishType DEF TypeInv, TypeOK, LoseClaim, sessionRows
  <1>8. ASSUME NEW w \in Workers, RevokeAccessToken(w) PROVE TypeInv'
    <2>1. TypeOK'
      BY <1>8 DEF TypeInv, TypeOK, RevokeAccessToken, Goto, Steps, request, sessionRows
    <2>2. Placed'
      <3>1. PICK next \in {"renew.issue", "reuse.delete", "logout.delete"} :
              pc' = [pc EXCEPT ![w] = next] /\ (next = "renew.issue" => Issuing(w))
        BY <1>8 DEF RevokeAccessToken, Goto, Issuing
      <3>2. sid[w] \in SessionIds
        BY <1>8 DEF TypeInv, Placed, RevokeAccessToken, SessionSteps, Steps
      <3> QED
        BY <1>8, <3>1, <3>2 DEF TypeInv, TypeOK, Placed, RevokeAccessToken, Issuing, SessionSteps, Steps, request
    <2> QED BY <2>1, <2>2 DEF TypeInv
  <1>9. ASSUME NEW w \in Workers, DeleteSession(w) PROVE TypeInv'
    BY <1>9, FinishType DEF TypeInv, TypeOK, DeleteSession
  <1>10. ASSUME NEW w \in Workers, NEW s \in SessionIds, Logout(w, s) PROVE TypeInv'
    <2>1. TypeOK'
      BY <1>10 DEF TypeInv, TypeOK, Logout, Goto, Steps, sessionRows
    <2>2. Placed'
      BY <1>10 DEF TypeInv, TypeOK, Placed, Logout, Goto, Issuing, SessionSteps, Steps
    <2> QED BY <2>1, <2>2 DEF TypeInv
  <1>11. ASSUME NEW w \in Workers, NEW u \in Users, StartPasswordChange(w, u) PROVE TypeInv'
    <2>1. TypeOK'
      BY <1>11 DEF TypeInv, TypeOK, StartPasswordChange, Goto, Steps, sessionRows
    <2>2. Placed'
      BY <1>11 DEF TypeInv, TypeOK, Placed, StartPasswordChange, Goto, Issuing, SessionSteps, Steps
    <2> QED BY <2>1, <2>2 DEF TypeInv
  <1>12. ASSUME NEW w \in Workers, UpdatePassword(w) PROVE TypeInv'
    <2>1. pwd' \in [Users -> 1..MaxPwd]
      <3>1. usr[w] \in Users
        BY <1>12 DEF TypeInv, Placed, UpdatePassword
      <3>2. pwd[usr[w]] + 1 \in 1..MaxPwd
        BY <1>12, <3>1 DEF TypeInv, TypeOK, UpdatePassword
      <3> QED BY <1>12, <3>2 DEF TypeInv, TypeOK, UpdatePassword
    <2>2. TypeOK'
      BY <1>12, <2>1 DEF TypeInv, TypeOK, UpdatePassword, Goto, Steps, sessionRows, request
    <2>3. Placed'
      BY <1>12 DEF TypeInv, TypeOK, Placed, UpdatePassword, Goto, Issuing, SessionSteps, Steps, request
    <2> QED BY <2>2, <2>3 DEF TypeInv
  <1>13. ASSUME NEW w \in Workers, DeleteAllSessions(w) PROVE TypeInv'
    <2>1. TypeOK'
      BY <1>13 DEF TypeInv, TypeOK, DeleteAllSessions, Goto, Steps
    <2>2. Placed'
      BY <1>13 DEF TypeInv, TypeOK, Placed, DeleteAllSessions, Goto, Issuing, SessionSteps, Steps
    <2> QED BY <2>1, <2>2 DEF TypeInv
  <1>14. ASSUME NEW w \in Workers, RevokeAccessTokens(w) PROVE TypeInv'
    BY <1>14, FinishType DEF TypeInv, TypeOK, RevokeAccessTokens, sessionRows
  <1>15. ASSUME NEW w \in Workers, Fail(w) PROVE TypeInv'
    <2>1. lost' \subseteq SessionIds
      BY <1>15 DEF TypeInv, TypeOK, Placed, Fail, Issuing, SessionSteps, Steps
    <2>2. TypeOK'
      BY <1>15, <2>1, FinishType DEF TypeInv, TypeOK, Fail, sessionRows
    <2> QED BY <1>15, <2>2, FinishType DEF TypeInv, Fail
  <1>16. ASSUME NEW s \in SessionIds, AccessTokenExpires(s) PROVE TypeInv'
    BY <1>16 DEF TypeInv, TypeOK, Placed, AccessTokenExpires, Issuing, request, sessionRows
  <1>17. ASSUME NEW s \in SessionIds, SessionLapses(s) PROVE TypeInv'
    BY <1>17 DEF TypeInv, TypeOK, Placed, SessionLapses, Issuing, request
  <1>18. CASE PruneExpiredSessions
    BY <1>18 DEF TypeInv, TypeOK, Placed, PruneExpiredSessions, Issuing, request
  <1>19. CASE UNCHANGED vars
    BY <1>19 DEF TypeInv, TypeOK, Placed, vars, Issuing, request, sessionRows
  <1> QED
    BY <1>1, <1>2, <1>3, <1>4, <1>5, <1>6, <1>7, <1>8, <1>9, <1>10, <1>11,
       <1>12, <1>13, <1>14, <1>15, <1>16, <1>17, <1>18, <1>19
       DEF Next, Start, Continue, ChangePassword, ResetPassword

\* Every variable stays in its type, and a handler always has the session and
\* the token its next step uses.
THEOREM TypeCorrect == Spec => []TypeOK
  <1>1. Spec => []TypeInv
    BY TypeInvInit, TypeInvNext, PTL DEF Spec
  <1>2. TypeInv => TypeOK
    BY DEF TypeInv
  <1> QED BY <1>1, <1>2, PTL

-----------------------------------------------------------------------------
(* Who carries which refresh token.                                        *)

\* A handler that may still write at:<sid>.
WillIssue(w) == pc[w] \in {"login.issue", "renew.revoke", "renew.issue"}

\* An id being inserted is new, and no other handler works on it.
Fresh ==
    \A w \in Workers :
        pc[w] = "login.insert" =>
            /\ tok[w] = 1
            /\ sid[w] \notin used
            /\ \A x \in Workers \ {w} : sid[x] # sid[w]

\* One handler at a time hands out tokens of a session, gone or not.
OneIssuer ==
    \A w, x \in Workers : Issuing(w) /\ Issuing(x) /\ sid[w] = sid[x] => w = x

\* What it hands out is the live token, which no device has yet; a handler
\* that is about to rotate was given a token that a device did have.
Carried ==
    \A w \in Workers :
        /\ Issuing(w) => /\ sid[w] \in used
                         /\ tok[w] <= hash[sid[w]]
                         /\ sid[w] \in rows => /\ tok[w] = hash[sid[w]]
                                               /\ tok[w] \notin held[sid[w]]
        /\ pc[w] = "renew.rotate" => tok[w] \in held[sid[w]]

\* Tokens up to the live one exist; those before it may have been redeemed.
Generations ==
    \A s \in SessionIds :
        /\ s \notin used => hash[s] = 1 /\ held[s] = {} /\ late[s] = 0
        /\ \A g \in held[s] : g <= hash[s]
        /\ \A g \in Gens : g >= hash[s] => redeemed[s][g] = 0
        /\ prev[s] # NoHash => redeemed[s][prev[s]] > 0

\* A session with a row has no late token; once it has one, nobody adds another.
LateBound ==
    \A s \in SessionIds :
        /\ s \in rows => late[s] = 0
        /\ late[s] > 0 => \A w \in Workers : WillIssue(w) => sid[w] # s

CoreInv == /\ Fresh /\ OneIssuer /\ Carried /\ Generations /\ LateBound
           /\ SingleRedemption /\ ReuseIsSpent /\ LateIssueOnce

LEMMA CoreInvInit == Init => CoreInv
  BY DEF Init, CoreInv, Fresh, OneIssuer, Carried, Generations, LateBound,
         SingleRedemption, ReuseIsSpent, LateIssueOnce, Issuing, WillIssue

\* Steps at which a handler carries a refresh token.
Carrying == {"login.insert", "login.issue", "renew.rotate", "renew.revoke",
             "renew.issue", "respond", "reuse.revoke", "reuse.delete"}

\* Nothing that happens outside those steps matters, nor that a row goes away.
LEMMA CoreFrame ==
  ASSUME TypeInv, CoreInv,
         rows' \subseteq rows,
         UNCHANGED <<hash, prev, used, redeemed, held, late, sid, tok>>,
         \A x \in Workers : pc'[x] \in Carrying => pc'[x] = pc[x]
  PROVE  CoreInv'
  <1> USE DEF CoreInv, Carrying
  <1>1. Fresh'
    BY DEF Fresh
  <1>2. OneIssuer'
    BY DEF OneIssuer, Issuing
  <1>3. Carried'
    BY DEF Carried, Issuing
  <1>4. Generations'
    BY DEF Generations
  <1>5. LateBound'
    BY DEF LateBound, WillIssue
  <1>6. SingleRedemption' /\ LateIssueOnce'
    BY DEF SingleRedemption, LateIssueOnce
  <1>7. ReuseIsSpent'
    BY DEF ReuseIsSpent
  <1> QED BY <1>1, <1>2, <1>3, <1>4, <1>5, <1>6, <1>7

\* Nor does it matter that a handler ends, whatever it was about to do.
LEMMA CoreFinish ==
  ASSUME TypeInv, CoreInv, NEW w \in Workers, Finish(w),
         rows' \subseteq rows,
         UNCHANGED <<hash, prev, used, redeemed, held, late>>
  PROVE  CoreInv'
  <1> USE DEF TypeInv, TypeOK, Finish, Goto, CoreInv
  <1>1. Fresh'
    <2> SUFFICES ASSUME NEW x \in Workers, pc'[x] = "login.insert"
                 PROVE  /\ tok'[x] = 1 /\ sid'[x] \notin used
                        /\ \A y \in Workers \ {x} : sid'[y] # sid'[x]
      BY DEF Fresh
    <2>1. x # w /\ pc[x] = "login.insert" /\ sid'[x] = sid[x] /\ tok'[x] = tok[x]
      OBVIOUS
    <2>2. sid[x] \in SessionIds /\ None \notin SessionIds
      BY <2>1, SessionsAssumption DEF Placed, SessionSteps, Steps
    <2> QED BY <2>1, <2>2 DEF Fresh
  <1>2. OneIssuer'
    BY DEF OneIssuer, Issuing
  <1>3. Carried'
    BY DEF Carried, Issuing
  <1>4. Generations'
    BY DEF Generations
  <1>5. LateBound'
    BY DEF LateBound, WillIssue
  <1>6. SingleRedemption' /\ LateIssueOnce'
    BY DEF SingleRedemption, LateIssueOnce
  <1>7. ReuseIsSpent'
    BY DEF ReuseIsSpent
  <1> QED BY <1>1, <1>2, <1>3, <1>4, <1>5, <1>6, <1>7

LEMMA CoreLogin ==
  ASSUME TypeInv, CoreInv, NEW w \in Workers, NEW s \in SessionIds, Login(w, s)
  PROVE  CoreInv'
  <1> USE DEF TypeInv, TypeOK, CoreInv, Login, Goto, sessionRows
  <1>1. Fresh'
    BY DEF Fresh
  <1>2. OneIssuer'
    BY DEF OneIssuer, Issuing
  <1>3. Carried'
    BY DEF Carried, Issuing
  <1>4. Generations'
    BY DEF Generations
  <1>5. LateBound'
    BY DEF LateBound, WillIssue
  <1>6. SingleRedemption' /\ LateIssueOnce'
    BY DEF SingleRedemption, LateIssueOnce
  <1>7. ReuseIsSpent'
    BY DEF ReuseIsSpent
  <1> QED BY <1>1, <1>2, <1>3, <1>4, <1>5, <1>6, <1>7

\* The new row is the first thing known of its id, so nobody else carries a
\* token of it and none was handed out.
LEMMA CoreInsertSession ==
  ASSUME TypeInv, CoreInv, NEW w \in Workers, InsertSession(w)
  PROVE  CoreInv'
  <1> USE DEF TypeInv, TypeOK, CoreInv, InsertSession, Goto, request
  <1>0. /\ sid[w] \in SessionIds \ used /\ tok[w] = 1
        /\ \A x \in Workers \ {w} : sid[x] # sid[w]
        /\ hash[sid[w]] = 1 /\ held[sid[w]] = {} /\ late[sid[w]] = 0
    BY DEF Fresh, Placed, SessionSteps, Steps, Generations
  <1>h. hash' = hash
    BY <1>0
  <1>1. Fresh'
    BY <1>0 DEF Fresh
  <1>2. OneIssuer'
    BY <1>0 DEF OneIssuer, Issuing
  <1>3. Carried'
    <2> SUFFICES ASSUME NEW x \in Workers
                 PROVE  /\ Issuing(x)' => /\ sid[x] \in used'
                                          /\ tok[x] <= hash[sid[x]]
                                          /\ sid[x] \in rows' => /\ tok[x] = hash[sid[x]]
                                                                 /\ tok[x] \notin held[sid[x]]
                        /\ pc'[x] = "renew.rotate" => tok[x] \in held[sid[x]]
      BY <1>h DEF Carried
    <2>1. CASE x = w
      BY <1>0, <2>1 DEF Issuing
    <2>2. CASE x # w
      BY <1>0, <2>2 DEF Carried, Issuing
    <2> QED BY <2>1, <2>2
  <1>4. Generations'
    BY <1>0, <1>h DEF Generations
  <1>5. LateBound'
    BY <1>0 DEF LateBound, WillIssue
  <1>6. SingleRedemption' /\ LateIssueOnce'
    BY DEF SingleRedemption, LateIssueOnce
  <1>7. ReuseIsSpent'
    BY DEF ReuseIsSpent
  <1> QED BY <1>1, <1>2, <1>3, <1>4, <1>5, <1>6, <1>7

\* A token is late only if the row is gone, and then its writer was the only
\* handler that could still write one.
LEMMA CoreIssueAccessToken ==
  ASSUME TypeInv, CoreInv, NEW w \in Workers, IssueAccessToken(w)
  PROVE  CoreInv'
  <1> USE DEF TypeInv, TypeOK, CoreInv, IssueAccessToken, Goto, request, sessionRows
  <1>0. /\ sid[w] \in SessionIds /\ sid[w] \in used
        /\ late[sid[w]] = 0
    <2>1. sid[w] \in SessionIds /\ sid[w] \in used
      BY DEF Placed, SessionSteps, Steps, Carried, Issuing
    <2>2. late[sid[w]] \in Nat
      BY <2>1
    <2>3. WillIssue(w)
      BY DEF WillIssue
    <2>4. ~(late[sid[w]] > 0)
      BY <2>1, <2>3 DEF LateBound
    <2> QED BY <2>1, <2>2, <2>4
  <1>l. /\ \A s \in SessionIds \ {sid[w]} : late'[s] = late[s]
        /\ late'[sid[w]] = IF sid[w] \in rows THEN 0 ELSE 1
    BY <1>0
  <1>1. Fresh'
    BY DEF Fresh
  <1>2. OneIssuer'
    BY DEF OneIssuer, Issuing
  <1>3. Carried'
    BY DEF Carried, Issuing
  <1>4. Generations'
    BY <1>0, <1>l DEF Generations
  <1>5. LateBound'
    <2> SUFFICES ASSUME NEW s \in SessionIds
                 PROVE  /\ s \in rows => late'[s] = 0
                        /\ late'[s] > 0 => \A x \in Workers : WillIssue(x)' => sid[x] # s
      BY DEF LateBound
    <2>1. CASE s = sid[w]
      <3>1. \A x \in Workers : WillIssue(x)' => sid[x] # s
        BY <2>1 DEF OneIssuer, Issuing, WillIssue
      <3> QED BY <1>l, <2>1, <3>1
    <2>2. CASE s # sid[w]
      BY <1>l, <2>2 DEF LateBound, WillIssue
    <2> QED BY <2>1, <2>2
  <1>6. SingleRedemption'
    BY DEF SingleRedemption
  <1>7. LateIssueOnce'
    BY <1>l DEF LateIssueOnce
  <1>8. ReuseIsSpent'
    BY DEF ReuseIsSpent
  <1> QED BY <1>1, <1>2, <1>3, <1>4, <1>5, <1>6, <1>7, <1>8

\* The token that reaches the device is no longer carried by any handler.
LEMMA CoreRespond ==
  ASSUME TypeInv, CoreInv, NEW w \in Workers, Respond(w)
  PROVE  CoreInv'
  <1> USE DEF TypeInv, TypeOK, CoreInv, Respond, sessionRows
  <1>0. /\ sid[w] \in SessionIds /\ sid[w] \in used
        /\ tok[w] \in Gens /\ tok[w] <= hash[sid[w]]
        /\ \A x \in Workers \ {w} : Issuing(x) => sid[x] # sid[w]
    BY DEF Placed, SessionSteps, Steps, Carried, OneIssuer, Issuing
  <1>h. \A s \in SessionIds : held'[s] = IF s = sid[w] THEN held[s] \cup {tok[w]} ELSE held[s]
    BY <1>0
  <1>1. Fresh'
    <2> SUFFICES ASSUME NEW x \in Workers, pc'[x] = "login.insert"
                 PROVE  /\ tok'[x] = 1 /\ sid'[x] \notin used
                        /\ \A y \in Workers \ {x} : sid'[y] # sid'[x]
      BY DEF Fresh
    <2>1. x # w /\ pc[x] = "login.insert" /\ sid'[x] = sid[x] /\ tok'[x] = tok[x]
      BY DEF Finish, Goto
    <2>2. sid[x] \in SessionIds /\ None \notin SessionIds
      BY <2>1, SessionsAssumption DEF Placed, SessionSteps, Steps
    <2> QED BY <2>1, <2>2 DEF Fresh, Finish, Goto
  <1>2. OneIssuer'
    BY DEF OneIssuer, Issuing, Finish, Goto
  <1>3. Carried'
    BY <1>0, <1>h DEF Carried, Issuing, Finish, Goto, Placed, SessionSteps, Steps
  <1>4. Generations'
    BY <1>0, <1>h DEF Generations, Gens
  <1>5. LateBound'
    BY DEF LateBound, WillIssue, Finish, Goto
  <1>6. SingleRedemption' /\ LateIssueOnce'
    BY DEF SingleRedemption, LateIssueOnce
  <1>7. ReuseIsSpent'
    BY DEF ReuseIsSpent, Finish, Goto
  <1> QED BY <1>1, <1>2, <1>3, <1>4, <1>5, <1>6, <1>7

\* Whatever token is presented, it is one the device holds: as the live token
\* it may be rotated, as the previous one it was redeemed.
LEMMA CoreRenew ==
  ASSUME TypeInv, CoreInv, NEW w \in Workers, NEW s \in SessionIds,
         NEW t \in held[s] \cup {Unknown}, Renew(w, s, t)
  PROVE  CoreInv'
  <1> USE DEF TypeInv, TypeOK, CoreInv, sessionRows
  <1>0. /\ UNCHANGED <<rows, hash, prev, used, redeemed, held, late>>
        /\ pc[w] = "idle" /\ s \in used
        /\ sid' = [sid EXCEPT ![w] = s] /\ tok' = [tok EXCEPT ![w] = t]
    BY DEF Renew
  <1>s. \/ /\ pc' = [pc EXCEPT ![w] = "renew.rotate"] /\ t \in held[s]
        \/ /\ pc' = [pc EXCEPT ![w] = "reuse.revoke"]
           /\ t \in Gens /\ redeemed[s][t] > 0
    <2>1. CASE t = hash[s] /\ hash[s] < MaxGen /\ Goto(w, "renew.rotate")
      BY <2>1, SessionsAssumption DEF Goto, Unknown, Gens
    <2>2. CASE IsReuse(s, t) /\ Goto(w, "reuse.revoke")
      BY <2>2 DEF Goto, IsReuse, Generations, Gens
    <2> QED BY <2>1, <2>2 DEF Renew
  <1> HIDE DEF TypeInv
  <1>w. /\ pc'[w] \in {"renew.rotate", "reuse.revoke"} /\ sid'[w] = s /\ tok'[w] = t
        /\ \A x \in Workers \ {w} : pc'[x] = pc[x] /\ sid'[x] = sid[x] /\ tok'[x] = tok[x]
    BY <1>0, <1>s DEF TypeInv
  <1>1. Fresh'
    BY <1>0, <1>w DEF Fresh
  <1>2. OneIssuer'
    BY <1>0, <1>w DEF OneIssuer, Issuing
  <1>3. Carried'
    <2> SUFFICES ASSUME NEW x \in Workers
                 PROVE  /\ Issuing(x)' => /\ sid'[x] \in used
                                          /\ tok'[x] <= hash[sid'[x]]
                                          /\ sid'[x] \in rows => /\ tok'[x] = hash[sid'[x]]
                                                                 /\ tok'[x] \notin held[sid'[x]]
                        /\ pc'[x] = "renew.rotate" => tok'[x] \in held[sid'[x]]
      BY <1>0 DEF Carried
    <2>1. CASE x = w
      <3>1. ~Issuing(x)' /\ (pc'[x] = "renew.rotate" => t \in held[s])
        BY <1>s, <1>w, <2>1 DEF Issuing, TypeInv
      <3> QED BY <1>w, <2>1, <3>1
    <2>2. CASE x # w
      BY <1>w, <2>2 DEF Carried, Issuing
    <2> QED BY <2>1, <2>2
  <1>4. Generations'
    BY <1>0 DEF Generations
  <1>5. LateBound'
    BY <1>0, <1>w DEF LateBound, WillIssue
  <1>6. SingleRedemption' /\ LateIssueOnce'
    BY <1>0 DEF SingleRedemption, LateIssueOnce
  <1>7. ReuseIsSpent'
    <2> SUFFICES ASSUME NEW x \in Workers, pc'[x] \in {"reuse.revoke", "reuse.delete"}
                 PROVE  tok'[x] \in Gens /\ redeemed[sid'[x]][tok'[x]] > 0
      BY <1>0 DEF ReuseIsSpent
    <2>1. CASE x = w
      <3>1. t \in Gens /\ redeemed[s][t] > 0
        BY <1>s, <2>1 DEF TypeInv
      <3> QED BY <1>w, <2>1, <3>1
    <2>2. CASE x # w
      BY <1>w, <2>2 DEF ReuseIsSpent
    <2> QED BY <2>1, <2>2
  <1> QED BY <1>1, <1>2, <1>3, <1>4, <1>5, <1>6, <1>7

\* The rotation consumes the live token, which nobody had redeemed and no
\* handler carried, and the rotating handler alone carries its successor.
LEMMA CoreRotateSession ==
  ASSUME TypeInv, CoreInv, NEW w \in Workers, RotateSession(w)
  PROVE  CoreInv'
  <1> DEFINE s == sid[w]
  <1> USE DEF CoreInv
  <1>0. /\ s \in SessionIds /\ s \in rows /\ s \in used
        /\ tok[w] = hash[s] /\ hash[s] \in Gens /\ hash[s] \in held[s]
        /\ late[s] = 0
    BY DEF TypeInv, TypeOK, RotateSession, Claims, Placed, SessionSteps, Steps,
           Carried, LateBound
  <1>e. /\ UNCHANGED <<rows, used, sid, held, late>>
        /\ hash' = [hash EXCEPT ![s] = hash[s] + 1]
        /\ prev' = [prev EXCEPT ![s] = hash[s]]
        /\ tok' = [tok EXCEPT ![w] = hash[s] + 1]
        /\ pc' = [pc EXCEPT ![w] = "renew.revoke"] /\ pc[w] = "renew.rotate"
        /\ redeemed' = [redeemed EXCEPT ![s] = [redeemed[s] EXCEPT ![hash[s]] = @ + 1]]
    BY <1>0 DEF RotateSession, Replacement, Goto
  <1>f. /\ hash[s] + 1 \notin held[s] /\ redeemed[s][hash[s]] = 0
        /\ \A x \in Workers : Issuing(x) => sid[x] # s
    <2>1. \A g \in held[s] : g <= hash[s]
      BY <1>0 DEF Generations
    <2>2. redeemed[s][hash[s]] = 0
      BY <1>0 DEF Generations, Gens
    <2>3. \A x \in Workers : Issuing(x) => sid[x] # s
      BY <1>0 DEF Carried
    <2> QED BY <1>0, <2>1, <2>2, <2>3 DEF Gens
  <1> HIDE DEF s
  <1>v. /\ \A x \in SessionIds : hash'[x] = IF x = s THEN hash[s] + 1 ELSE hash[x]
        /\ \A x \in SessionIds : prev'[x] = IF x = s THEN hash[s] ELSE prev[x]
        /\ \A x \in Workers : tok'[x] = IF x = w THEN hash[s] + 1 ELSE tok[x]
        /\ \A x \in Workers : pc'[x] = IF x = w THEN "renew.revoke" ELSE pc[x]
        /\ \A x \in SessionIds, g \in Gens :
              redeemed'[x][g] = IF x = s /\ g = hash[s] THEN 1 ELSE redeemed[x][g]
    BY <1>e, <1>f, <1>0 DEF TypeInv, TypeOK
  <1>i. /\ Issuing(w)' /\ sid[w] = s
        /\ \A x \in Workers \ {w} : Issuing(x)' <=> Issuing(x)
    BY <1>v DEF Issuing, s
  <1>1. Fresh'
    BY <1>e, <1>v DEF Fresh
  <1>2. OneIssuer'
    BY <1>e, <1>f, <1>i DEF OneIssuer
  <1>3. Carried'
    <2> SUFFICES ASSUME NEW x \in Workers
                 PROVE  /\ Issuing(x)' => /\ sid[x] \in used
                                          /\ tok'[x] <= hash'[sid[x]]
                                          /\ sid[x] \in rows => /\ tok'[x] = hash'[sid[x]]
                                                                /\ tok'[x] \notin held[sid[x]]
                        /\ pc'[x] = "renew.rotate" => tok'[x] \in held[sid[x]]
      BY <1>e DEF Carried
    <2>1. CASE x = w
      BY <1>0, <1>f, <1>v, <1>i, <2>1 DEF Gens
    <2>2. CASE x # w
      <3>1. Issuing(x)' => sid[x] # s /\ sid[x] \in SessionIds
        BY <1>f, <1>i, <2>2 DEF TypeInv, Placed, Issuing, SessionSteps, Steps
      <3> QED BY <1>v, <1>i, <2>2, <3>1 DEF Carried
    <2> QED BY <2>1, <2>2
  <1>4. Generations'
    <2> SUFFICES ASSUME NEW x \in SessionIds
                 PROVE  /\ x \notin used => hash'[x] = 1 /\ held[x] = {} /\ late[x] = 0
                        /\ \A g \in held[x] : g <= hash'[x]
                        /\ \A g \in Gens : g >= hash'[x] => redeemed'[x][g] = 0
                        /\ prev'[x] # NoHash => redeemed'[x][prev'[x]] > 0
      BY <1>e DEF Generations
    <2>1. CASE x = s
      <3>1. \A g \in held[s] : g \in Gens /\ g <= hash[s]
        BY <1>0 DEF Generations, TypeInv, TypeOK
      <3>2. \A g \in Gens : g >= hash[s] + 1 => redeemed[s][g] = 0 /\ g # hash[s]
        BY <1>0 DEF Generations, Gens
      <3> QED BY <1>0, <1>v, <2>1, <3>1, <3>2 DEF Gens
    <2>2. CASE x # s
      <3>1. prev[x] \in Gens \cup {NoHash}
        BY DEF TypeInv, TypeOK
      <3> QED BY <1>v, <2>2, <3>1 DEF Generations
    <2> QED BY <2>1, <2>2
  <1>5. LateBound'
    <2> SUFFICES ASSUME NEW x \in SessionIds
                 PROVE  /\ x \in rows => late[x] = 0
                        /\ late[x] > 0 => \A y \in Workers : WillIssue(y)' => sid[y] # x
      BY <1>e DEF LateBound
    <2>1. \A y \in Workers \ {w} : WillIssue(y)' <=> WillIssue(y)
      BY <1>v DEF WillIssue
    <2> QED BY <1>0, <1>i, <2>1 DEF LateBound
  <1>6. SingleRedemption'
    BY <1>v DEF SingleRedemption
  <1>7. LateIssueOnce'
    BY <1>e DEF LateIssueOnce
  <1>8. ReuseIsSpent'
    <2> SUFFICES ASSUME NEW x \in Workers, pc'[x] \in {"reuse.revoke", "reuse.delete"}
                 PROVE  tok'[x] \in Gens /\ redeemed'[sid[x]][tok'[x]] > 0
      BY <1>e DEF ReuseIsSpent
    <2>1. x # w /\ pc'[x] = pc[x] /\ tok'[x] = tok[x] /\ sid[x] \in SessionIds
      BY <1>v DEF TypeInv, Placed, SessionSteps, Steps
    <2>2. tok[x] \in Gens /\ redeemed[sid[x]][tok[x]] > 0
      BY <2>1 DEF ReuseIsSpent
    <2> QED BY <1>v, <2>1, <2>2
  <1> QED BY <1>1, <1>2, <1>3, <1>4, <1>5, <1>6, <1>7, <1>8

LEMMA CoreRevokeAccessToken ==
  ASSUME TypeInv, CoreInv, NEW w \in Workers, RevokeAccessToken(w)
  PROVE  CoreInv'
  <1> USE DEF CoreInv
  <1>0. UNCHANGED <<rows, hash, prev, used, redeemed, held, late, sid, tok>>
    BY DEF RevokeAccessToken, sessionRows, request
  <1>p. /\ \A x \in Workers \ {w} : pc'[x] = pc[x]
        /\ \/ pc[w] = "renew.revoke" /\ pc'[w] = "renew.issue"
           \/ pc[w] = "reuse.revoke" /\ pc'[w] = "reuse.delete"
           \/ pc[w] = "logout.revoke" /\ pc'[w] = "logout.delete"
    BY DEF RevokeAccessToken, Goto, TypeInv, TypeOK
  <1>i. \A x \in Workers : (Issuing(x)' <=> Issuing(x)) /\ (WillIssue(x)' <=> WillIssue(x))
    BY <1>p DEF Issuing, WillIssue
  <1>1. Fresh'
    BY <1>0, <1>p DEF Fresh
  <1>2. OneIssuer'
    BY <1>0, <1>i DEF OneIssuer
  <1>3. Carried'
    BY <1>0, <1>p, <1>i DEF Carried
  <1>4. Generations'
    BY <1>0 DEF Generations
  <1>5. LateBound'
    BY <1>0, <1>i DEF LateBound
  <1>6. SingleRedemption' /\ LateIssueOnce'
    BY <1>0 DEF SingleRedemption, LateIssueOnce
  <1>7. ReuseIsSpent'
    BY <1>0, <1>p DEF ReuseIsSpent
  <1> QED BY <1>1, <1>2, <1>3, <1>4, <1>5, <1>6, <1>7

LEMMA CoreLogout ==
  ASSUME TypeInv, CoreInv, NEW w \in Workers, NEW s \in SessionIds, Logout(w, s)
  PROVE  CoreInv'
  <1> USE DEF CoreInv
  <1>0. UNCHANGED <<rows, hash, prev, used, redeemed, held, late, tok>> /\ s \in used
    BY DEF Logout, sessionRows, Authenticated, Generations
  <1>p. /\ \A x \in Workers \ {w} : pc'[x] = pc[x] /\ sid'[x] = sid[x]
        /\ pc'[w] = "logout.revoke" /\ sid'[w] = s
    BY DEF Logout, Goto, TypeInv, TypeOK
  <1>1. Fresh'
    BY <1>0, <1>p DEF Fresh
  <1>2. OneIssuer'
    BY <1>0, <1>p DEF OneIssuer, Issuing
  <1>3. Carried'
    BY <1>0, <1>p DEF Carried, Issuing
  <1>4. Generations'
    BY <1>0 DEF Generations
  <1>5. LateBound'
    BY <1>0, <1>p DEF LateBound, WillIssue
  <1>6. SingleRedemption' /\ LateIssueOnce'
    BY <1>0 DEF SingleRedemption, LateIssueOnce
  <1>7. ReuseIsSpent'
    BY <1>0, <1>p DEF ReuseIsSpent
  <1> QED BY <1>1, <1>2, <1>3, <1>4, <1>5, <1>6, <1>7

LEMMA CoreInvNext == TypeInv /\ CoreInv /\ [Next]_vars => CoreInv'
  <1> SUFFICES ASSUME TypeInv, CoreInv, [Next]_vars PROVE CoreInv'
    OBVIOUS
  <1>1. ASSUME NEW w \in Workers, Start(w) PROVE CoreInv'
    <2>1. ASSUME NEW u \in Users, StartPasswordChange(w, u) PROVE CoreInv'
      BY <2>1, CoreFrame DEF StartPasswordChange, Goto, sessionRows, Carrying, TypeInv, TypeOK
    <2>2. \A s \in SessionIds : UserOf[s] \in Users
      BY SessionsAssumption
    <2> QED
      BY <1>1, <2>1, <2>2, CoreLogin, CoreRenew, CoreLogout
         DEF Start, ChangePassword, ResetPassword
  <1>2. ASSUME NEW w \in Workers, Continue(w) PROVE CoreInv'
    <2>1. CASE LoseClaim(w)
      BY <2>1, CoreFinish DEF LoseClaim, sessionRows
    <2>2. CASE DeleteSession(w)
      BY <2>2, CoreFinish DEF DeleteSession
    <2>3. CASE UpdatePassword(w)
      BY <2>3, CoreFrame DEF UpdatePassword, Goto, sessionRows, request, Carrying, TypeInv, TypeOK
    <2>4. CASE DeleteAllSessions(w)
      BY <2>4, CoreFrame DEF DeleteAllSessions, Goto, Carrying, TypeInv, TypeOK
    <2>5. CASE RevokeAccessTokens(w)
      BY <2>5, CoreFinish DEF RevokeAccessTokens, sessionRows
    <2> QED
      BY <1>2, <2>1, <2>2, <2>3, <2>4, <2>5, CoreInsertSession, CoreIssueAccessToken,
         CoreRespond, CoreRotateSession, CoreRevokeAccessToken DEF Continue
  <1>3. ASSUME NEW w \in Workers, Fail(w) PROVE CoreInv'
    BY <1>3, CoreFinish DEF Fail, sessionRows
  <1>4. ASSUME NEW s \in SessionIds, AccessTokenExpires(s) PROVE CoreInv'
    BY <1>4, CoreFrame DEF AccessTokenExpires, sessionRows, request
  <1>5. ASSUME NEW s \in SessionIds, SessionLapses(s) PROVE CoreInv'
    BY <1>5, CoreFrame DEF SessionLapses, request
  <1>6. CASE PruneExpiredSessions
    BY <1>6, CoreFrame DEF PruneExpiredSessions, request
  <1>7. CASE UNCHANGED vars
    BY <1>7, CoreFrame DEF vars, sessionRows, request
  <1> QED BY <1>1, <1>2, <1>3, <1>4, <1>5, <1>6, <1>7 DEF Next

LEMMA Invariance == Spec => [](TypeInv /\ CoreInv)
  BY TypeInvInit, TypeInvNext, CoreInvInit, CoreInvNext, PTL DEF Spec

-----------------------------------------------------------------------------
(* What follows.                                                           *)

\* However many requests present a refresh token at the same time, on however
\* many instances, rotateSession trades it at most once.
THEOREM RefreshTokensAreSingleUse == Spec => []SingleRedemption
  <1>1. CoreInv => SingleRedemption
    BY DEF CoreInv
  <1> QED BY <1>1, Invariance, PTL

\* Two renewals of a live session never race to write its access token, and a
\* device is never handed a pair that is already spent.
THEOREM HandlersCarryTheLiveToken == Spec => []CredentialsCurrent
  <1>1. TypeInv /\ CoreInv => CredentialsCurrent
    BY DEF CoreInv, CredentialsCurrent, Carried, OneIssuer
  <1> QED BY <1>1, Invariance, PTL

\* revokeOnReuse only ever acts on a token that was really redeemed.
THEOREM ReuseIsNeverALostRace == Spec => []ReuseIsSpent
  <1>1. CoreInv => ReuseIsSpent
    BY DEF CoreInv
  <1> QED BY <1>1, Invariance, PTL

\* Whatever overlaps a revocation, it is outlived by one access token at most.
THEOREM OneTokenOutlivesARevocation == Spec => []LateIssueOnce
  <1>1. CoreInv => LateIssueOnce
    BY DEF CoreInv
  <1> QED BY <1>1, Invariance, PTL

-----------------------------------------------------------------------------
(* A dead token stays dead.                                                 *)

\* Rows that only go away bring no token back.
LEMMA DeadFrame ==
  ASSUME rows' \subseteq rows, UNCHANGED hash
  PROVE  \A s \in used : \A g \in 1..hash[s] : ~Redeemable(s, g) => ~Redeemable(s, g)'
  BY DEF Redeemable

\* A step brings no token back: a row is inserted under an id that had none, and a
\* rotation makes way for a generation that is above all those before.
LEMMA DeadStayDeadNext ==
  ASSUME TypeInv, CoreInv, [Next]_vars, NEW s \in used, NEW g \in 1..hash[s],
         ~Redeemable(s, g)
  PROVE  ~Redeemable(s, g)'
  <1>1. ASSUME NEW w \in Workers, Start(w) \/ Fail(w) PROVE ~Redeemable(s, g)'
    <2>1. UNCHANGED <<rows, hash>>
      BY <1>1 DEF Start, Login, Renew, Logout, ChangePassword, ResetPassword,
                  StartPasswordChange, Fail, sessionRows
    <2> QED BY <2>1, DeadFrame
  <1>2. ASSUME NEW w \in Workers, InsertSession(w) PROVE ~Redeemable(s, g)'
    <2>1. sid[w] # s
      BY <1>2 DEF InsertSession, CoreInv, Fresh
    <2>2. hash'[s] = hash[s] /\ (s \in rows' => s \in rows)
      BY <1>2, <2>1 DEF InsertSession, TypeInv, TypeOK
    <2> QED BY <2>2 DEF Redeemable
  <1>3. ASSUME NEW w \in Workers, RotateSession(w) PROVE ~Redeemable(s, g)'
    <2>1. rows' = rows
      BY <1>3 DEF RotateSession
    <2>2. CASE sid[w] = s
      <3>1. s \in rows
        BY <1>3, <2>2 DEF RotateSession, Claims
      <3>2. hash[s] \in Nat /\ hash'[s] = hash[s] + 1
        BY <1>3, <2>2, SessionsAssumption
           DEF RotateSession, Replacement, TypeInv, TypeOK, Gens
      <3> QED BY <3>1, <3>2 DEF Redeemable
    <2>3. CASE sid[w] # s
      <3>1. hash'[s] = hash[s]
        BY <1>3, <2>3 DEF RotateSession, TypeInv, TypeOK
      <3> QED BY <2>1, <3>1 DEF Redeemable
    <2> QED BY <2>2, <2>3
  <1>4. ASSUME NEW w \in Workers,
               \/ IssueAccessToken(w) \/ Respond(w) \/ LoseClaim(w)
               \/ RevokeAccessToken(w) \/ DeleteSession(w)
               \/ UpdatePassword(w) \/ DeleteAllSessions(w) \/ RevokeAccessTokens(w)
        PROVE  ~Redeemable(s, g)'
    <2>1. rows' \subseteq rows /\ UNCHANGED hash
      BY <1>4 DEF IssueAccessToken, Respond, LoseClaim, RevokeAccessToken, DeleteSession,
                  UpdatePassword, DeleteAllSessions, RevokeAccessTokens, sessionRows
    <2> QED BY <2>1, DeadFrame
  <1>5. ASSUME NEW t \in SessionIds, AccessTokenExpires(t) \/ SessionLapses(t)
        PROVE  ~Redeemable(s, g)'
    BY <1>5, DeadFrame DEF AccessTokenExpires, SessionLapses, sessionRows
  <1>6. CASE PruneExpiredSessions
    BY <1>6, DeadFrame DEF PruneExpiredSessions
  <1>7. CASE UNCHANGED vars
    BY <1>7, DeadFrame DEF vars, sessionRows
  <1> QED BY <1>1, <1>2, <1>3, <1>4, <1>5, <1>6, <1>7 DEF Next, Continue

\* A refresh token that was traded, or whose session was revoked or swept, is never
\* accepted again, whatever was under way at the time.
THEOREM RevokedTokensStayRevoked == Spec => DeadTokensStayDead
  <1>1. TypeInv /\ CoreInv /\ [Next]_vars =>
          [\A s \in used : \A g \in 1..hash[s] : ~Redeemable(s, g) => ~Redeemable(s, g)']_vars
    BY DeadStayDeadNext
  <1> QED BY <1>1, Invariance, PTL DEF Spec, DeadTokensStayDead

-----------------------------------------------------------------------------
(* A device is never left without the token its row accepts.               *)

\* Rows may go away, devices may receive tokens and answers may be lost; as long as
\* the live tokens stay, only a handler that stops carrying one matters.
LEMMA CanRefreshFrame ==
  ASSUME TypeInv, DeviceCanRefresh, rows' \subseteq rows, lost \subseteq lost', hash' = hash,
         \A s \in SessionIds : held[s] \subseteq held'[s],
         \A x \in Workers : Issuing(x) =>
            \/ Issuing(x)' /\ sid'[x] = sid[x] /\ tok'[x] = tok[x]
            \/ sid[x] \in lost'
            \/ tok[x] \in held'[sid[x]]
  PROVE  DeviceCanRefresh'
  <1> SUFFICES ASSUME NEW s \in SessionIds, s \in rows' \ lost', hash[s] \notin held'[s]
               PROVE  \E w \in Workers : Issuing(w)' /\ sid'[w] = s /\ tok'[w] = hash[s]
    BY DEF DeviceCanRefresh, TypeInv, TypeOK
  <1>1. PICK x \in Workers : Issuing(x) /\ sid[x] = s /\ tok[x] = hash[s]
    BY DEF DeviceCanRefresh
  <1> QED BY <1>1

\* A handler that dies is remembered in lost, and one that ends without an answer
\* carried nothing.
LEMMA CanRefreshFinish ==
  ASSUME TypeInv, DeviceCanRefresh, NEW w \in Workers, Finish(w),
         rows' \subseteq rows, lost \subseteq lost', UNCHANGED <<hash, held>>,
         Issuing(w) => sid[w] \in lost'
  PROVE  DeviceCanRefresh'
  <1>1. \A x \in Workers \ {w} : pc'[x] = pc[x] /\ sid'[x] = sid[x] /\ tok'[x] = tok[x]
    BY DEF Finish, Goto, TypeInv, TypeOK
  <1>2. \A x \in Workers : Issuing(x) =>
            \/ Issuing(x)' /\ sid'[x] = sid[x] /\ tok'[x] = tok[x]
            \/ sid[x] \in lost'
    BY <1>1 DEF Issuing
  <1> QED BY <1>2, CanRefreshFrame

\* A row appears, or its token changes, only together with a handler that carries
\* the token to the device.
LEMMA CanRefreshMinted ==
  ASSUME TypeInv, DeviceCanRefresh, NEW w \in Workers, NEW s \in SessionIds,
         rows' \subseteq rows \cup {s}, UNCHANGED <<lost, held, sid>>, sid[w] = s,
         Issuing(w)', tok'[w] = hash'[s], ~Issuing(w),
         \A x \in SessionIds \ {s} : hash'[x] = hash[x],
         \A x \in Workers \ {w} : tok'[x] = tok[x] /\ pc'[x] = pc[x]
  PROVE  DeviceCanRefresh'
  <1> SUFFICES ASSUME NEW r \in SessionIds, r \in rows' \ lost', hash'[r] \notin held'[r]
               PROVE  \E x \in Workers : Issuing(x)' /\ sid'[x] = r /\ tok'[x] = hash'[r]
    <2>1. rows' \subseteq SessionIds
      BY DEF TypeInv, TypeOK
    <2> QED BY <2>1 DEF DeviceCanRefresh
  <1>1. CASE r = s
    BY <1>1
  <1>2. CASE r # s
    <2>1. PICK x \in Workers : Issuing(x) /\ sid[x] = r /\ tok[x] = hash[r]
      BY <1>2 DEF DeviceCanRefresh
    <2>2. x # w /\ Issuing(x)'
      BY <2>1 DEF Issuing
    <2> QED BY <1>2, <2>1, <2>2
  <1> QED BY <1>1, <1>2

LEMMA CanRefreshNext ==
  TypeInv /\ CoreInv /\ DeviceCanRefresh /\ [Next]_vars => DeviceCanRefresh'
  <1> SUFFICES ASSUME TypeInv, CoreInv, DeviceCanRefresh, [Next]_vars PROVE DeviceCanRefresh'
    OBVIOUS
  <1>1. ASSUME NEW w \in Workers, Start(w) PROVE DeviceCanRefresh'
    <2>1. /\ UNCHANGED <<rows, hash, held, lost>> /\ pc[w] = "idle"
          /\ \A x \in Workers \ {w} : pc'[x] = pc[x] /\ sid'[x] = sid[x] /\ tok'[x] = tok[x]
      BY <1>1 DEF Start, Login, Renew, Logout, ChangePassword, ResetPassword,
                  StartPasswordChange, Goto, sessionRows, TypeInv, TypeOK
    <2>2. \A x \in Workers : Issuing(x) => Issuing(x)' /\ sid'[x] = sid[x] /\ tok'[x] = tok[x]
      BY <2>1 DEF Issuing
    <2> QED BY <2>1, <2>2, CanRefreshFrame
  <1>2. ASSUME NEW w \in Workers, Continue(w) PROVE DeviceCanRefresh'
    <2>1. CASE InsertSession(w)
      <3>1. sid[w] \in SessionIds /\ tok[w] = hash'[sid[w]]
        BY <2>1 DEF InsertSession, TypeInv, TypeOK, Placed, SessionSteps, Steps
      <3>2. /\ \A x \in SessionIds \ {sid[w]} : hash'[x] = hash[x]
            /\ \A x \in Workers \ {w} : pc'[x] = pc[x]
            /\ Issuing(w)' /\ ~Issuing(w)
        BY <2>1 DEF InsertSession, TypeInv, TypeOK, Goto, Issuing
      <3> QED BY <2>1, <3>1, <3>2, CanRefreshMinted DEF InsertSession, request
    <2>2. CASE RotateSession(w)
      <3>1. sid[w] \in SessionIds /\ tok'[w] = hash'[sid[w]]
        BY <2>2 DEF RotateSession, TypeInv, TypeOK, Placed, SessionSteps, Steps
      <3>2. /\ \A x \in SessionIds \ {sid[w]} : hash'[x] = hash[x]
            /\ \A x \in Workers \ {w} : pc'[x] = pc[x] /\ tok'[x] = tok[x]
            /\ Issuing(w)' /\ ~Issuing(w)
        BY <2>2 DEF RotateSession, TypeInv, TypeOK, Goto, Issuing
      <3> QED BY <2>2, <3>1, <3>2, CanRefreshMinted DEF RotateSession
    <2>3. CASE Respond(w)
      <3>1. sid[w] \in SessionIds /\ tok[w] \in held'[sid[w]]
        BY <2>3 DEF Respond, TypeInv, TypeOK, Placed, SessionSteps, Steps
      <3>2. /\ \A x \in Workers \ {w} : pc'[x] = pc[x] /\ sid'[x] = sid[x] /\ tok'[x] = tok[x]
            /\ \A s \in SessionIds : held[s] \subseteq held'[s]
        BY <2>3 DEF Respond, Finish, Goto, TypeInv, TypeOK
      <3>3. \A x \in Workers : Issuing(x) =>
              \/ Issuing(x)' /\ sid'[x] = sid[x] /\ tok'[x] = tok[x]
              \/ tok[x] \in held'[sid[x]]
        BY <3>1, <3>2 DEF Issuing
      <3> QED BY <2>3, <3>2, <3>3, CanRefreshFrame DEF Respond, sessionRows
    <2>4. CASE IssueAccessToken(w) \/ RevokeAccessToken(w)
      <3>1. UNCHANGED <<rows, hash, held, lost, sid, tok>>
        BY <2>4 DEF IssueAccessToken, RevokeAccessToken, sessionRows, request
      <3>2. \A x \in Workers : Issuing(x) => Issuing(x)'
        BY <2>4 DEF IssueAccessToken, RevokeAccessToken, Goto, Issuing, TypeInv, TypeOK
      <3> QED BY <3>1, <3>2, CanRefreshFrame
    <2>5. CASE UpdatePassword(w) \/ DeleteAllSessions(w)
      <3>1. UNCHANGED <<hash, held, lost, sid, tok>> /\ rows' \subseteq rows
        BY <2>5 DEF UpdatePassword, DeleteAllSessions, sessionRows, request
      <3>2. \A x \in Workers : Issuing(x) => Issuing(x)'
        BY <2>5 DEF UpdatePassword, DeleteAllSessions, Goto, Issuing, TypeInv, TypeOK
      <3> QED BY <3>1, <3>2, CanRefreshFrame
    <2>6. CASE LoseClaim(w) \/ DeleteSession(w) \/ RevokeAccessTokens(w)
      <3>1. /\ Finish(w) /\ ~Issuing(w) /\ UNCHANGED <<hash, held, lost>> /\ rows' \subseteq rows
        BY <2>6 DEF LoseClaim, DeleteSession, RevokeAccessTokens, sessionRows, Issuing
      <3> QED BY <3>1, CanRefreshFinish
    <2> QED BY <1>2, <2>1, <2>2, <2>3, <2>4, <2>5, <2>6 DEF Continue
  <1>3. ASSUME NEW w \in Workers, Fail(w) PROVE DeviceCanRefresh'
    <2>1. /\ Finish(w) /\ UNCHANGED <<rows, hash, held>> /\ lost \subseteq lost'
          /\ Issuing(w) => sid[w] \in lost'
      BY <1>3 DEF Fail, sessionRows
    <2> QED BY <2>1, CanRefreshFinish
  <1>4. ASSUME NEW s \in SessionIds, AccessTokenExpires(s) \/ SessionLapses(s)
        PROVE  DeviceCanRefresh'
    BY <1>4, CanRefreshFrame DEF AccessTokenExpires, SessionLapses, sessionRows, request, Issuing
  <1>5. CASE PruneExpiredSessions \/ UNCHANGED vars
    BY <1>5, CanRefreshFrame DEF PruneExpiredSessions, vars, sessionRows, request, Issuing
  <1> QED BY <1>1, <1>2, <1>3, <1>4, <1>5 DEF Next

\* However renewals, sign-outs and password changes interleave, the device of a live
\* session holds the token its row accepts or is about to be sent it, unless an
\* answer of its own was lost on the way.
THEOREM DevicesKeepTheirSessions == Spec => []DeviceCanRefresh
  <1>1. Init => DeviceCanRefresh
    BY DEF Init, DeviceCanRefresh
  <1> QED BY <1>1, CanRefreshNext, Invariance, PTL DEF Spec

-----------------------------------------------------------------------------
(* The session table implements the abstract store of rotating tokens.     *)

validTokens == {<<s, hash[s]>> : s \in rows}
spentTokens == {t \in SessionIds \X Gens : redeemed[t[1]][t[2]] > 0}

LEMMA TokensInit == Init => Tokens!Init
  BY DEF Init, Tokens!Init

\* A step that leaves the tokens alone is a stutter of the abstract store.
LEMMA TokensStutter ==
  ASSUME UNCHANGED <<rows, hash, used, redeemed>>
  PROVE  UNCHANGED Tokens!vars
  BY DEF Tokens!vars

\* Deleting rows closes their families and touches nothing else.
LEMMA TokensClose ==
  ASSUME NEW S \in SUBSET SessionIds, rows' = rows \ S, UNCHANGED <<hash, used, redeemed>>
  PROVE  Tokens!Next
  <1>1. validTokens' = {t \in validTokens : t[1] \notin S}
    BY DEF validTokens
  <1>2. Tokens!Close(S)
    BY <1>1 DEF Tokens!Close, validTokens
  <1> QED BY <1>2 DEF Tokens!Next

\* The first insert of an id opens its family.
LEMMA TokensOpen ==
  ASSUME TypeInv, CoreInv, NEW w \in Workers, InsertSession(w)
  PROVE  Tokens!Next
  <1>1. /\ sid[w] \in SessionIds \ used /\ tok[w] \in Gens /\ tok[w] = 1
        /\ hash[sid[w]] = 1 /\ sid[w] \notin rows
    BY DEF InsertSession, CoreInv, Fresh, Generations, TypeInv, TypeOK, Placed, SessionSteps, Steps
  <1>2. hash' = hash /\ rows' = rows \cup {sid[w]} /\ used' = used \cup {sid[w]} /\ redeemed' = redeemed
    BY <1>1 DEF InsertSession, TypeInv, TypeOK
  <1>3. validTokens' = validTokens \cup {<<sid[w], 1>>}
    BY <1>1, <1>2 DEF validTokens
  <1>4. Tokens!Open(sid[w], 1)
    BY <1>1, <1>2, <1>3 DEF Tokens!Open, validTokens
  <1> QED BY <1>1, <1>4 DEF Tokens!Next

\* A rotation is one trade of the valid token for a fresh one.
LEMMA TokensRedeem ==
  ASSUME TypeInv, CoreInv, NEW w \in Workers, RotateSession(w)
  PROVE  Tokens!Next
  <1>1. PICK s \in SessionIds, g \in Gens, n \in Gens :
          s = sid[w] /\ g = tok[w] /\ g = hash[s] /\ n = g + 1
    <2>1. sid[w] \in SessionIds /\ hash[sid[w]] = tok[w] /\ hash[sid[w]] < MaxGen
      BY DEF RotateSession, Claims, TypeInv, Placed, SessionSteps, Steps
    <2> QED BY <2>1, SessionsAssumption DEF TypeInv, TypeOK, Gens
  <1>2. s \in rows /\ redeemed[s][g] = 0 /\ redeemed[s][n] = 0
    BY <1>1 DEF RotateSession, Claims, CoreInv, Generations, Gens
  <1>3. /\ UNCHANGED <<rows, used>>
        /\ \A x \in SessionIds : hash'[x] = IF x = s THEN n ELSE hash[x]
        /\ \A x \in SessionIds, i \in Gens :
              redeemed'[x][i] = IF x = s /\ i = g THEN 1 ELSE redeemed[x][i]
    BY <1>1, <1>2 DEF RotateSession, Replacement, TypeInv, TypeOK
  <1>4. rows \subseteq SessionIds /\ g # n
    BY <1>1 DEF TypeInv, TypeOK, Gens
  <1>5. validTokens' = (validTokens \ {<<s, g>>}) \cup {<<s, n>>}
    BY <1>1, <1>2, <1>3, <1>4 DEF validTokens
  <1>6. spentTokens' = spentTokens \cup {<<s, g>>}
    BY <1>1, <1>2, <1>3 DEF spentTokens
  <1>7. <<s, g>> \in validTokens /\ <<s, n>> \notin validTokens \cup spentTokens
    BY <1>1, <1>2, <1>4 DEF validTokens, spentTokens
  <1>8. Tokens!Redeem(s, g, n)
    BY <1>3, <1>5, <1>6, <1>7, Zenon DEF Tokens!Redeem, validTokens, spentTokens
  <1> QED BY <1>8 DEF Tokens!Next

LEMMA TokensNext == TypeInv /\ CoreInv /\ [Next]_vars => [Tokens!Next]_(Tokens!vars)
  <1> SUFFICES ASSUME TypeInv, CoreInv, [Next]_vars
               PROVE  Tokens!Next \/ UNCHANGED Tokens!vars
    OBVIOUS
  <1>1. ASSUME NEW w \in Workers, Start(w) \/ Fail(w) PROVE UNCHANGED Tokens!vars
    BY <1>1, TokensStutter
       DEF Start, Login, Renew, Logout, ChangePassword, ResetPassword,
           StartPasswordChange, Fail, sessionRows
  <1>2. ASSUME NEW w \in Workers, Continue(w) PROVE Tokens!Next \/ UNCHANGED Tokens!vars
    <2>1. CASE DeleteSession(w)
      <3>1. sid[w] \in SessionIds
        BY <2>1 DEF DeleteSession, TypeInv, Placed, SessionSteps, Steps
      <3> QED BY <2>1, <3>1, TokensClose DEF DeleteSession
    <2>2. CASE DeleteAllSessions(w)
      <3>1. doomed'[w] \in SUBSET SessionIds
        BY <2>2 DEF DeleteAllSessions, TypeInv, TypeOK
      <3> QED BY <2>2, <3>1, TokensClose DEF DeleteAllSessions
    <2>3. CASE \/ IssueAccessToken(w) \/ Respond(w) \/ LoseClaim(w) \/ RevokeAccessToken(w)
               \/ UpdatePassword(w) \/ RevokeAccessTokens(w)
      BY <2>3, TokensStutter
         DEF IssueAccessToken, Respond, LoseClaim, RevokeAccessToken, UpdatePassword,
             RevokeAccessTokens, sessionRows
    <2> QED BY <1>2, <2>1, <2>2, <2>3, TokensOpen, TokensRedeem DEF Continue
  <1>3. ASSUME NEW s \in SessionIds, AccessTokenExpires(s) \/ SessionLapses(s)
        PROVE  UNCHANGED Tokens!vars
    BY <1>3, TokensStutter DEF AccessTokenExpires, SessionLapses, sessionRows
  <1>4. CASE PruneExpiredSessions
    BY <1>4, TokensClose DEF PruneExpiredSessions, TypeInv, TypeOK
  <1>5. CASE UNCHANGED vars
    BY <1>5, TokensStutter DEF vars, sessionRows
  <1> QED BY <1>1, <1>2, <1>3, <1>4, <1>5 DEF Next

\* Every behaviour of the handlers, crashes included, is one of the abstract
\* store: rows, hashes and rotations seen from outside are atomic trades.
THEOREM SessionsImplementRotatingTokens == Spec => ImplementsRotatingTokens
  BY Invariance, TokensInit, TokensNext, PTL DEF Spec, ImplementsRotatingTokens, Tokens!Spec
=============================================================================
