--------------------------- MODULE SocketsProofs ---------------------------
(***************************************************************************)
(* Proofs about Sockets, for every set of instances, sockets, sessions,    *)
(* users and rooms, and every bound.  A subscription is followed through   *)
(* the commands Redis has not executed yet: Settled says what they will    *)
(* come to, so that a command may be sent, executed, restored or given up  *)
(* without the registries knowing.  A revoked session's socket is followed *)
(* through the message that is to find it.                                 *)
(***************************************************************************)
EXTENDS Sockets, FiniteSetTheorems, TLAPS

\* It holds to begin with.
LEMMA InitIInv == Init => IInv
<1> SUFFICES ASSUME Init PROVE IInv
    OBVIOUS
<1> USE SocketsAssumption
<1>1. TypeOK
    BY DEF Init, TypeOK, Stages
<1>2. Placed
    BY DEF Init, Placed, Listening
<1>3. \A i \in Instances : {k \in Ids : host[k] = i /\ Listening(k)} = {}
    BY DEF Init, Listening
<1>4. FinitelyMany
    BY <1>3, FS_EmptySet DEF FinitelyMany
<1>5. RegistriesAgree
  <2>1. \A i \in Instances :
            total[i] = Cardinality({k \in Ids : host[k] = i /\ Listening(k)})
    BY <1>3, FS_EmptySet DEF Init
  <2> QED
    BY <2>1 DEF RegistriesAgree, Init, Listening
<1>6. HostedWillBeSubscribed
    BY DEF Init, HostedWillBeSubscribed, Hosted
<1>7. RevokedOnTheWay /\ RevokedSocketsExplained /\ StoredIsLate /\ StoredInPlace
    BY DEF Init, RevokedOnTheWay, RevokedSocketsExplained, StoredIsLate, StoredInPlace
<1> QED
    BY <1>1, <1>2, <1>4, <1>5, <1>6, <1>7 DEF IInv

-----------------------------------------------------------------------------
(* Types.                                                                  *)

\* What Send does to the commands of an instance.
LEMMA SendTypes ==
    ASSUME TypeOK, NEW j, NEW op \in {"subscribe", "unsubscribe"},
           NEW channels \in SUBSET Channels, Send(j, op, channels)
    PROVE  sent' \in [Instances -> Seq(Commands)]
<1>1. CASE channels = {}
    BY <1>1 DEF Send, TypeOK
<1>2. CASE channels # {}
  <2>1. PICK kept \in SUBSET channels :
            sent' = IF kept = {} THEN sent
                    ELSE [sent EXCEPT ![j] = Append(@, [op |-> op, channels |-> kept])]
    BY <1>2 DEF Send
  <2>2. [op |-> op, channels |-> kept] \in Commands
    BY DEF Commands
  <2>3. CASE j \in Instances
    BY <2>1, <2>2, <2>3 DEF TypeOK
  <2>4. CASE j \notin Instances
    BY <2>1, <2>4 DEF TypeOK
  <2> QED
    BY <2>3, <2>4
<1> QED
    BY <1>1, <1>2

\* What Forget does.
LEMMA ForgetTypes ==
    ASSUME TypeOK, NEW k \in Ids, Forget(k)
    PROVE  /\ stage' \in [Ids -> Stages] /\ host' \in [Ids -> Instances \cup {None}]
           /\ token' \in [Ids -> Tokens \cup {None}] /\ joined' \in [Ids -> SUBSET Rooms]
           /\ authed' \in [Ids -> BOOLEAN] /\ excused' \subseteq Ids /\ drops' \in Nat
BY DEF TypeOK, Forget, Stages

\* What is hosted are channels.
LEMMA HostedChannels ==
    ASSUME NEW i \in Instances
    PROVE  Hosted(i) \subseteq Channels
BY DEF Hosted, Channels

\* An instance with a socket counts it.
LEMMA CountsIt ==
    ASSUME TypeOK, Placed, FinitelyMany, RegistriesAgree, NEW k \in Ids, Listening(k)
    PROVE  host[k] \in Instances /\ total[host[k]] - 1 \in Nat
<1>1. host[k] \in Instances
    BY DEF Placed
<1> DEFINE S == {q \in Ids : host[q] = host[k] /\ Listening(q)}
<1>2. IsFiniteSet(S) /\ k \in S /\ total[host[k]] = Cardinality(S)
    BY <1>1 DEF FinitelyMany, RegistriesAgree
<1>3. Cardinality(S) \in Nat /\ Cardinality(S) # 0
    BY <1>2, FS_CardinalityType, FS_EmptySet
<1> QED
    BY <1>1, <1>2, <1>3

\* Every step keeps the types; a socket that closes was counted.
LEMMA StepTypes ==
    ASSUME IInv, Next
    PROVE  TypeOK'
<1> USE SocketsAssumption
<1>1. TypeOK /\ Placed /\ FinitelyMany /\ RegistriesAgree
    BY DEF IInv
<1>2. ASSUME NEW i \in Instances, Execute(i)
      PROVE  TypeOK'
  <2>1. Head(sent[i]) \in Commands /\ Tail(sent[i]) \in Seq(Commands)
    BY <1>1, <1>2 DEF Execute, TypeOK
  <2>2. Head(sent[i]).channels \subseteq Channels
    BY <2>1 DEF Commands
  <2> QED
    BY <1>1, <1>2, <2>1, <2>2 DEF Execute, TypeOK, auth, registry, socket, history
<1>3. ASSUME NEW i \in Instances, LoseSubscriber(i)
      PROVE  TypeOK'
  <2>1. sent' \in [Instances -> Seq(Commands)]
    <3>1. sent' = sent \/ sent' = [sent EXCEPT ![i] = <<>>]
        BY <1>3 DEF LoseSubscriber
    <3>2. [sent EXCEPT ![i] = <<>>] \in [Instances -> Seq(Commands)]
        BY <1>1 DEF TypeOK
    <3> QED
        BY <1>1, <3>1, <3>2 DEF TypeOK
  <2>2. /\ up' \in [Instances -> BOOLEAN]
        /\ prior' \in [Instances -> SUBSET Channels] /\ subs' \in [Instances -> SUBSET Channels]
    BY <1>1, <1>3 DEF LoseSubscriber, TypeOK
  <2>3. inbox' \in [Instances -> SUBSET (Disconnects \cup Deliveries)]
    BY <1>1, <1>3 DEF LoseSubscriber, TypeOK
  <2>4. drops' \in Nat /\ excused' \subseteq Ids
    BY <1>1, <1>3 DEF LoseSubscriber, TypeOK
  <2>5. UNCHANGED <<auth, registry, socket>>
    BY <1>3 DEF LoseSubscriber
  <2> QED
    BY <1>1, <2>1, <2>2, <2>3, <2>4, <2>5 DEF TypeOK, auth, registry, socket
<1>4. ASSUME NEW i \in Instances, Ready(i)
      PROVE  TypeOK'
  <2>1. /\ [op |-> "subscribe", channels |-> prior[i]] \in Commands
        /\ [op |-> "subscribe", channels |-> Hosted(i)] \in Commands
    BY <1>1, HostedChannels DEF Commands, TypeOK
  <2>2. <<[op |-> "subscribe", channels |-> prior[i]]>> \o sent[i]
            \o <<[op |-> "subscribe", channels |-> Hosted(i)]>> \in Seq(Commands)
    BY <1>1, <2>1 DEF TypeOK
  <2>3. sent' \in [Instances -> Seq(Commands)]
    BY <1>1, <1>4, <2>2 DEF Ready, TypeOK
  <2> QED
    BY <1>1, <1>4, <2>3 DEF Ready, TypeOK, auth, registry, socket, history
<1>5. ASSUME NEW i \in Instances, Heartbeat(i)
      PROVE  TypeOK'
    BY <1>1, <1>5 DEF Heartbeat, TypeOK, Stages, auth, registry, pubsub, history
<1>6. ASSUME NEW i \in Instances, NEW d \in inbox[i], Deliver(i, d) \/ Disconnect(i, d)
      PROVE  TypeOK'
  <2>1. stage' \in [Ids -> Stages]
    BY <1>1, <1>6 DEF Deliver, Disconnect, TypeOK, Stages
  <2>2. inbox' \in [Instances -> SUBSET (Disconnects \cup Deliveries)]
    <3>1. inbox' = [inbox EXCEPT ![i] = @ \ {d}]
        BY <1>6 DEF Deliver, Disconnect
    <3> QED
        BY <1>1, <3>1 DEF TypeOK
  <2>3. UNCHANGED <<auth, registry, up, sent, subs, prior, host, token, joined, authed, history>>
    BY <1>6 DEF Deliver, Disconnect
  <2> QED
    BY <1>1, <2>1, <2>2, <2>3 DEF TypeOK, auth, registry, history
<1>7. ASSUME NEW k \in Ids, NEW i \in Instances, UpgradePublic(k, i)
      PROVE  TypeOK'
    BY <1>1, <1>7
    DEF UpgradePublic, AddPublicConnection, TypeOK, Stages, auth, pubsub, history
<1>8. ASSUME NEW k \in Ids, NEW i \in Instances, NEW t \in Tokens, Upgrade(k, i, t)
      PROVE  TypeOK'
    BY <1>1, <1>8 DEF Upgrade, TypeOK, Stages, auth, registry, pubsub, history
<1>9. ASSUME NEW k \in Ids, Verify(k)
      PROVE  TypeOK'
    BY <1>1, <1>9 DEF Verify, TypeOK, Stages, auth, registry, pubsub, history
<1>10. ASSUME NEW k \in Ids, RejectUpgrade(k)
      PROVE  TypeOK'
    BY <1>1, <1>10, ForgetTypes DEF RejectUpgrade, TypeOK, auth, registry, pubsub
<1>11. ASSUME NEW k \in Ids, HandleConnection(k)
       PROVE  TypeOK'
  <2>1. host[k] \in Instances /\ stage' \in [Ids -> Stages]
    BY <1>1, <1>11 DEF HandleConnection, TypeOK, Placed, Stages
  <2>2. UNCHANGED <<auth, up, subs, prior, inbox, host, token, joined, authed, history>>
    BY <1>11 DEF HandleConnection
  <2>3. CASE token[k] # None
    <3>1. UserOf[SessionOf[token[k]]] \in Users
        BY <1>1, <2>3 DEF TypeOK
    <3>2. sent' \in [Instances -> Seq(Commands)]
        BY <1>1, <1>11, <2>3, <3>1, SendTypes DEF HandleConnection, Channels
    <3>3. /\ users' = [users EXCEPT ![host[k]][UserOf[SessionOf[token[k]]]] = @ \cup {k}]
          /\ total' = [total EXCEPT ![host[k]] = @ + 1] /\ UNCHANGED <<public, rooms>>
        BY <1>11, <2>3 DEF HandleConnection, AddUserConnection
    <3>4. /\ users' \in [Instances -> [Users -> SUBSET Ids]] /\ total' \in [Instances -> Nat]
          /\ UNCHANGED <<public, rooms>>
        BY <1>1, <2>1, <3>1, <3>3 DEF TypeOK
    <3> QED
        BY <1>1, <2>1, <2>2, <3>2, <3>4 DEF TypeOK, auth, history
  <2>4. CASE token[k] = None
    <3>1. /\ public' = [public EXCEPT ![host[k]] = @ \cup {k}]
          /\ total' = [total EXCEPT ![host[k]] = @ + 1] /\ UNCHANGED <<users, rooms, sent>>
        BY <1>11, <2>4 DEF HandleConnection, AddPublicConnection
    <3>2. /\ public' \in [Instances -> SUBSET Ids] /\ total' \in [Instances -> Nat]
          /\ UNCHANGED <<users, rooms, sent>>
        BY <1>1, <2>1, <3>1 DEF TypeOK
    <3> QED
        BY <1>1, <2>1, <2>2, <3>2 DEF TypeOK, auth, history
  <2> QED
    BY <2>3, <2>4
<1>12. ASSUME NEW k \in Ids, Hangup(k)
       PROVE  TypeOK'
    BY <1>1, <1>12 DEF Hangup, TypeOK, Stages, auth, registry, pubsub, history
<1>13. ASSUME NEW k \in Ids, Close(k)
       PROVE  TypeOK'
  <2>1. host[k] \in Instances /\ total[host[k]] - 1 \in Nat
    BY <1>1, <1>13, CountsIt DEF Close, Listening
  <2>2. rooms' \in [Instances -> [Rooms -> SUBSET Ids]]
    BY <1>1, <1>13, <2>1 DEF Close, LeaveAllRooms, TypeOK
  <2>3. /\ stage' \in [Ids -> Stages] /\ host' \in [Ids -> Instances \cup {None}]
        /\ token' \in [Ids -> Tokens \cup {None}] /\ joined' \in [Ids -> SUBSET Rooms]
        /\ authed' \in [Ids -> BOOLEAN] /\ excused' \subseteq Ids /\ drops' \in Nat
    BY <1>1, <1>13, ForgetTypes DEF Close
  <2>4. UNCHANGED <<auth, up, subs, prior, inbox>>
    BY <1>13 DEF Close
  <2>5. CASE token[k] # None
    <3>1. UserOf[SessionOf[token[k]]] \in Users
        BY <1>1, <2>5 DEF TypeOK
    <3>2. EmptiedBy(k, joined[k]) \cup {v \in {UserOf[SessionOf[token[k]]]} : WasLast(k, v)}
              \in SUBSET Channels
        BY <1>1, <3>1 DEF EmptiedBy, Channels, TypeOK
    <3>3. sent' \in [Instances -> Seq(Commands)]
        BY <1>1, <1>13, <2>5, <3>2, SendTypes DEF Close
    <3>4. /\ users' = [users EXCEPT ![host[k]][UserOf[SessionOf[token[k]]]] = @ \ {k}]
          /\ total' = [total EXCEPT ![host[k]] = @ - 1] /\ UNCHANGED public
        BY <1>13, <2>5 DEF Close, RemoveUserConnection
    <3>5. /\ users' \in [Instances -> [Users -> SUBSET Ids]] /\ total' \in [Instances -> Nat]
          /\ UNCHANGED public
        BY <1>1, <2>1, <3>1, <3>4 DEF TypeOK
    <3> QED
        BY <1>1, <2>2, <2>3, <2>4, <3>3, <3>5 DEF TypeOK, auth
  <2>6. CASE token[k] = None
    <3>1. /\ public' = [public EXCEPT ![host[k]] = @ \ {k}]
          /\ total' = [total EXCEPT ![host[k]] = @ - 1] /\ UNCHANGED <<users, sent>>
        BY <1>13, <2>6 DEF Close, RemovePublicConnection
    <3>2. /\ public' \in [Instances -> SUBSET Ids] /\ total' \in [Instances -> Nat]
          /\ UNCHANGED <<users, sent>>
        BY <1>1, <2>1, <3>1 DEF TypeOK
    <3> QED
        BY <1>1, <2>2, <2>3, <2>4, <3>2 DEF TypeOK, auth
  <2> QED
    BY <2>5, <2>6
<1>14. ASSUME NEW k \in Ids, NEW r \in Rooms, JoinRoom(k, r)
       PROVE  TypeOK'
  <2>1. OpenedBy(k, r) \in SUBSET Channels
    BY DEF OpenedBy, Channels
  <2>2. sent' \in [Instances -> Seq(Commands)]
    BY <1>1, <1>14, <2>1, SendTypes DEF JoinRoom
  <2>3. /\ rooms' \in [Instances -> [Rooms -> SUBSET Ids]]
        /\ joined' \in [Ids -> SUBSET Rooms]
    <3>1. /\ rooms' = [rooms EXCEPT ![host[k]][r] = @ \cup {k}]
          /\ joined' = [joined EXCEPT ![k] = @ \cup {r}]
        BY <1>14 DEF JoinRoom
    <3>2. host[k] \in Instances
        BY <1>1, <1>14 DEF JoinRoom, Placed
    <3> QED
        BY <1>1, <3>1, <3>2 DEF TypeOK
  <2>4. UNCHANGED <<auth, total, users, public, up, subs, prior, inbox, stage, host, token,
                    authed, history>>
    BY <1>14 DEF JoinRoom
  <2> QED
    BY <1>1, <2>2, <2>3, <2>4 DEF TypeOK, auth, history
<1>15. ASSUME NEW k \in Ids, NEW r \in Rooms, LeaveRoom(k, r)
       PROVE  TypeOK'
  <2>1. EmptiedBy(k, {r}) \in SUBSET Channels
    BY DEF EmptiedBy, Channels
  <2>2. sent' \in [Instances -> Seq(Commands)]
    BY <1>1, <1>15, <2>1, SendTypes DEF LeaveRoom
  <2>3. /\ rooms' \in [Instances -> [Rooms -> SUBSET Ids]]
        /\ joined' \in [Ids -> SUBSET Rooms]
    <3>1. /\ rooms' = [rooms EXCEPT ![host[k]][r] = @ \ {k}]
          /\ joined' = [joined EXCEPT ![k] = @ \ {r}]
        BY <1>15 DEF LeaveRoom
    <3>2. host[k] \in Instances
        BY <1>1, <1>15 DEF LeaveRoom, Placed
    <3> QED
        BY <1>1, <3>1, <3>2 DEF TypeOK
  <2>4. UNCHANGED <<auth, total, users, public, up, subs, prior, inbox, stage, host, token,
                    authed, history>>
    BY <1>15 DEF LeaveRoom
  <2> QED
    BY <1>1, <2>2, <2>3, <2>4 DEF TypeOK, auth, history
<1>16. ASSUME NEW k \in Ids, NEW r \in Rooms, RoomMessage(k, r)
       PROVE  TypeOK'
  <2>1. [room |-> r, except |-> k] \in Deliveries
    BY DEF Deliveries
  <2> QED
    BY <1>1, <1>16, <2>1 DEF RoomMessage, Publish, TypeOK, auth, registry, socket, history
<1>17. ASSUME NEW s \in Sessions, Logout(s)
       PROVE  TypeOK'
  <2>1. [user |-> UserOf[s], session |-> s] \in Disconnects
    BY DEF Disconnects
  <2> QED
    BY <1>1, <1>17, <2>1
    DEF Logout, Revoke, TypeOK, registry, pubsub, socket, history
<1>18. ASSUME NEW u \in Users, ChangePassword(u)
       PROVE  TypeOK'
  <2>1. [user |-> u, session |-> None] \in Disconnects
    BY DEF Disconnects
  <2> QED
    BY <1>1, <1>18, <2>1
    DEF ChangePassword, Revoke, TypeOK, registry, pubsub, socket, history
<1>19. ASSUME NEW d \in due, PublishDisconnect(d) \/ LoseDisconnect(d)
       PROVE  TypeOK'
    BY <1>1, <1>19
    DEF PublishDisconnect, LoseDisconnect, Publish, Missed, Targets, TypeOK, registry,
        pubsub, socket
<1>20. ASSUME NEW t \in Tokens, IssueAccessToken(t)
       PROVE  TypeOK'
    BY <1>1, <1>20 DEF IssueAccessToken, TypeOK, registry, pubsub, socket, history
<1>21. ASSUME NEW t \in Tokens, TokenExpires(t)
       PROVE  TypeOK'
  <2>1. at' = [s \in Sessions |-> IF at[s] = t THEN None ELSE at[s]] /\ past' = past \cup {t}
    BY <1>21 DEF TokenExpires
  <2>2. at' \in [Sessions -> Tokens \cup {None}] /\ past' \subseteq Tokens
    BY <1>1, <2>1 DEF TypeOK
  <2>3. UNCHANGED <<issued, ended, late, due, registry, pubsub, socket, history>>
    BY <1>21 DEF TokenExpires
  <2> QED
    BY <1>1, <2>2, <2>3 DEF TypeOK, registry, pubsub, socket, history
<1>22. CASE \E t \in Tokens : IssueAccessToken(t) \/ TokenExpires(t)
    BY <1>20, <1>21, <1>22
<1>23. CASE \E i \in Instances :
            \/ Execute(i) \/ LoseSubscriber(i) \/ Ready(i) \/ Heartbeat(i)
            \/ \E m \in inbox[i] : Deliver(i, m) \/ Disconnect(i, m)
    BY <1>2, <1>3, <1>4, <1>5, <1>6, <1>23
<1>24. CASE \E k \in Ids :
            \/ \E i \in Instances : UpgradePublic(k, i) \/ \E t \in Tokens : Upgrade(k, i, t)
            \/ Verify(k) \/ RejectUpgrade(k) \/ HandleConnection(k) \/ Hangup(k) \/ Close(k)
            \/ \E r \in Rooms : JoinRoom(k, r) \/ LeaveRoom(k, r) \/ RoomMessage(k, r)
    BY <1>7, <1>8, <1>9, <1>10, <1>11, <1>12, <1>13, <1>14, <1>15, <1>16, <1>24
<1> QED
    BY <1>17, <1>18, <1>19, <1>22, <1>23, <1>24 DEF Next

-----------------------------------------------------------------------------
(* The registries.                                                         *)

\* Every step keeps sockets where their stage says.
LEMMA StepPlaced ==
    ASSUME IInv, Next
    PROVE  Placed'
<1>1. TypeOK /\ Placed
    BY DEF IInv
<1>2. ASSUME NEW i \in Instances, Execute(i) \/ LoseSubscriber(i) \/ Ready(i)
      PROVE  Placed'
    BY <1>1, <1>2 DEF Execute, LoseSubscriber, Ready, Placed, Listening, socket
<1>3. ASSUME NEW i \in Instances, Heartbeat(i)
      PROVE  Placed'
    BY <1>1, <1>3 DEF Heartbeat, TypeOK, Placed, Listening
<1>4. ASSUME NEW i \in Instances, NEW d \in inbox[i], Deliver(i, d)
      PROVE  Placed'
  <2>1. PICK slow \in SUBSET {k \in rooms[i][d.room] \ {d.except} : stage[k] = "open"} :
            stage' = [k \in Ids |-> IF k \in slow THEN "closing" ELSE stage[k]]
    BY <1>4 DEF Deliver
  <2>2. UNCHANGED <<host, token, joined>>
    BY <1>4 DEF Deliver
  <2>3. \A q \in Ids : stage[q] # stage'[q] => stage[q] = "open" /\ stage'[q] = "closing"
    BY <2>1
  <2> QED
    BY <1>1, <2>2, <2>3 DEF Placed, Listening
<1>5. ASSUME NEW i \in Instances, NEW d \in inbox[i], Disconnect(i, d)
      PROVE  Placed'
    BY <1>1, <1>5 DEF Disconnect, LocalTargets, Placed, Listening
<1>6. ASSUME NEW k \in Ids, NEW i \in Instances,
             UpgradePublic(k, i) \/ \E t \in Tokens : Upgrade(k, i, t)
      PROVE  Placed'
  <2>1. CASE UpgradePublic(k, i)
    BY <1>1, <2>1 DEF UpgradePublic, TypeOK, Placed, Listening
  <2>2. ASSUME NEW t \in Tokens, Upgrade(k, i, t)
        PROVE  Placed'
    BY <1>1, <2>2 DEF Upgrade, TypeOK, Placed, Listening
  <2> QED
    BY <1>6, <2>1, <2>2
<1>7. ASSUME NEW k \in Ids, Verify(k) \/ HandleConnection(k) \/ Hangup(k)
      PROVE  Placed'
  <2>1. CASE Verify(k)
    <3>1. /\ stage[k] = "verify" /\ stage' = [stage EXCEPT ![k] = "register"]
          /\ token' = [token EXCEPT ![k] = token'[k]]
          /\ UNCHANGED <<host, joined>>
        BY <1>1, <2>1 DEF Verify, TypeOK
    <3> QED
        BY <1>1, <3>1 DEF TypeOK, Placed, Listening
  <2>2. CASE HandleConnection(k)
    BY <1>1, <2>2 DEF HandleConnection, TypeOK, Placed, Listening
  <2>3. CASE Hangup(k)
    BY <1>1, <2>3 DEF Hangup, TypeOK, Placed, Listening
  <2> QED
    BY <1>7, <2>1, <2>2, <2>3
<1>8. ASSUME NEW k \in Ids, RejectUpgrade(k) \/ Close(k)
      PROVE  Placed'
  <2>1. Forget(k)
    BY <1>8 DEF RejectUpgrade, Close
  <2>2. /\ stage'[k] = "gone" /\ joined'[k] = {}
        /\ \A q \in Ids \ {k} : /\ stage'[q] = stage[q] /\ host'[q] = host[q]
                               /\ token'[q] = token[q] /\ joined'[q] = joined[q]
    BY <1>1, <2>1 DEF Forget, TypeOK
  <2> QED
    BY <1>1, <2>2 DEF Placed, Listening
<1>9. ASSUME NEW k \in Ids, NEW r \in Rooms, JoinRoom(k, r) \/ LeaveRoom(k, r)
      PROVE  Placed'
    BY <1>1, <1>9 DEF JoinRoom, LeaveRoom, TypeOK, Placed, Listening
<1>10. ASSUME NEW k \in Ids, NEW r \in Rooms, RoomMessage(k, r)
      PROVE  Placed'
    BY <1>1, <1>10 DEF RoomMessage, Placed, Listening, socket
<1>11. ASSUME \/ \E s \in Sessions : Logout(s)
              \/ \E t \in Tokens : IssueAccessToken(t) \/ TokenExpires(t)
       PROVE  Placed'
    BY <1>1, <1>11 DEF Logout, IssueAccessToken, TokenExpires, Revoke, Placed, Listening, socket
<1>12. ASSUME NEW u \in Users, ChangePassword(u)
       PROVE  Placed'
    BY <1>1, <1>12 DEF ChangePassword, Revoke, Placed, Listening, socket
<1>13. ASSUME NEW d \in due, PublishDisconnect(d) \/ LoseDisconnect(d)
       PROVE  Placed'
    BY <1>1, <1>13 DEF PublishDisconnect, LoseDisconnect, Placed, Listening, socket
<1> QED
    BY <1>2, <1>3, <1>4, <1>5, <1>6, <1>7, <1>8, <1>9, <1>10, <1>11, <1>12, <1>13 DEF Next

\* A step that lets no socket in or out, and that changes no room but by Join and Leave.
Quiet ==
    /\ UNCHANGED <<total, users, public>>
    /\ \A q \in Ids : /\ Listening(q)' <=> Listening(q)
                      /\ Listening(q) => host'[q] = host[q] /\ token'[q] = token[q]
    /\ \/ rooms' = rooms /\ \A q \in Ids : joined'[q] = joined[q]
       \/ \E k \in Ids, r \in Rooms : JoinRoom(k, r) \/ LeaveRoom(k, r)

\* Only a registration and a close are not.
LEMMA MostStepsAreQuiet ==
    ASSUME IInv, Next
    PROVE  Quiet \/ \E k \in Ids : \/ HandleConnection(k) \/ Close(k)
                                   \/ \E i \in Instances : UpgradePublic(k, i)
<1>1. TypeOK /\ Placed
    BY DEF IInv
<1>2. ASSUME NEW i \in Instances, Execute(i) \/ LoseSubscriber(i) \/ Ready(i)
      PROVE  Quiet
    BY <1>2 DEF Execute, LoseSubscriber, Ready, Quiet, Listening, registry, socket
<1>3. ASSUME NEW i \in Instances, Heartbeat(i)
      PROVE  Quiet
    BY <1>1, <1>3 DEF Heartbeat, Quiet, Listening, registry
<1>4. ASSUME NEW i \in Instances, NEW d \in inbox[i], Deliver(i, d)
      PROVE  Quiet
  <2>1. PICK slow \in SUBSET {k \in rooms[i][d.room] \ {d.except} : stage[k] = "open"} :
            stage' = [k \in Ids |-> IF k \in slow THEN "closing" ELSE stage[k]]
    BY <1>4 DEF Deliver
  <2>2. UNCHANGED <<registry, host, token, joined>>
    BY <1>4 DEF Deliver
  <2> QED
    BY <1>1, <2>1, <2>2 DEF Quiet, Listening, registry
<1>5. ASSUME NEW i \in Instances, NEW d \in inbox[i], Disconnect(i, d)
      PROVE  Quiet
    BY <1>1, <1>5 DEF Disconnect, LocalTargets, Quiet, Listening, registry
<1>6. ASSUME NEW k \in Ids, NEW i \in Instances, NEW t \in Tokens, Upgrade(k, i, t)
      PROVE  Quiet
    BY <1>1, <1>6 DEF Upgrade, TypeOK, Quiet, Listening, registry
<1>7. ASSUME NEW k \in Ids, Verify(k) \/ Hangup(k)
      PROVE  Quiet
    BY <1>1, <1>7 DEF Verify, Hangup, TypeOK, Quiet, Listening, registry
<1>8. ASSUME NEW k \in Ids, RejectUpgrade(k)
      PROVE  Quiet
    BY <1>1, <1>8 DEF RejectUpgrade, Forget, TypeOK, Placed, Quiet, Listening, registry
<1>9. ASSUME NEW k \in Ids, NEW r \in Rooms, JoinRoom(k, r) \/ LeaveRoom(k, r)
      PROVE  Quiet
  <2>1. UNCHANGED <<total, users, public, stage, host, token>>
    BY <1>9 DEF JoinRoom, LeaveRoom
  <2> QED
    BY <1>9, <2>1 DEF Quiet, Listening
<1>10. ASSUME NEW k \in Ids, NEW r \in Rooms, RoomMessage(k, r)
      PROVE  Quiet
    BY <1>10 DEF RoomMessage, Quiet, Listening, registry, socket
<1>11. ASSUME \/ \E s \in Sessions : Logout(s)
              \/ \E t \in Tokens : IssueAccessToken(t) \/ TokenExpires(t)
       PROVE  Quiet
    BY <1>11 DEF Logout, IssueAccessToken, TokenExpires, Revoke, Quiet, Listening, registry, socket
<1>12. ASSUME NEW u \in Users, ChangePassword(u)
       PROVE  Quiet
    BY <1>12 DEF ChangePassword, Revoke, Quiet, Listening, registry, socket
<1>13. ASSUME NEW d \in due, PublishDisconnect(d) \/ LoseDisconnect(d)
       PROVE  Quiet
    BY <1>13 DEF PublishDisconnect, LoseDisconnect, Quiet, Listening, registry, socket
<1> QED
    BY <1>2, <1>3, <1>4, <1>5, <1>6, <1>7, <1>8, <1>9, <1>10, <1>11, <1>12, <1>13 DEF Next

\* What one socket that comes or goes does to the others.
Alone(k) ==
    \A q \in Ids \ {k} :
        /\ Listening(q)' <=> Listening(q)
        /\ host'[q] = host[q] /\ token'[q] = token[q] /\ joined'[q] = joined[q]
        /\ Listening(q) /\ Registered(q) => Registered(q)'

\* A socket that is registered is counted and found, and disturbs no other.
LEMMA ComesIn ==
    ASSUME IInv, NEW k \in Ids, HandleConnection(k) \/ \E i \in Instances : UpgradePublic(k, i)
    PROVE  /\ ~Listening(k) /\ Listening(k)' /\ host'[k] \in Instances
           /\ joined[k] = {} /\ joined'[k] = {} /\ rooms' = rooms
           /\ \A i \in Instances : total'[i] = IF i = host'[k] THEN total[i] + 1 ELSE total[i]
           /\ Alone(k) /\ Registered(k)'
<1> USE SocketsAssumption
<1>1. TypeOK /\ Placed
    BY DEF IInv
<1>2. CASE HandleConnection(k)
  <2>1. /\ ~Listening(k) /\ stage' = [stage EXCEPT ![k] = "open"] /\ host[k] \in Instances
        /\ UNCHANGED <<host, token, joined>>
    BY <1>1, <1>2 DEF HandleConnection, Placed, Listening
  <2>2. /\ Listening(k)' /\ joined[k] = {} /\ \A q \in Ids \ {k} : Listening(q)' <=> Listening(q)
    BY <1>1, <2>1 DEF TypeOK, Placed, Listening
  <2>3. CASE token[k] # None
    <3> DEFINE u == UserOf[SessionOf[token[k]]]
    <3>1. /\ users' = [users EXCEPT ![host[k]][u] = @ \cup {k}]
          /\ total' = [total EXCEPT ![host[k]] = @ + 1] /\ UNCHANGED <<public, rooms>>
        BY <1>2, <2>3 DEF HandleConnection, AddUserConnection
    <3>2. u \in Users
        BY <1>1, <2>3 DEF TypeOK
    <3>3. /\ k \in users'[host[k]][u]
          /\ \A i \in Instances, v \in Users : users[i][v] \subseteq users'[i][v]
        BY <1>1, <2>1, <3>1, <3>2 DEF TypeOK
    <3>4. ASSUME NEW q \in Ids, Listening(q), Registered(q), q # k
          PROVE  Registered(q)'
      <4>1. host[q] \in Instances /\ (token[q] # None => UserOf[SessionOf[token[q]]] \in Users)
        BY <1>1, <3>4 DEF Placed, TypeOK
      <4> QED
        BY <2>1, <3>1, <3>3, <3>4, <4>1 DEF Registered
    <3>5. Registered(k)'
        BY <2>1, <2>3, <3>3 DEF Registered
    <3>6. \A i \in Instances : total'[i] = IF i = host'[k] THEN total[i] + 1 ELSE total[i]
        BY <1>1, <2>1, <3>1 DEF TypeOK
    <3> QED
        BY <2>1, <2>2, <3>1, <3>4, <3>5, <3>6 DEF Alone
  <2>4. CASE token[k] = None
    <3>1. /\ public' = [public EXCEPT ![host[k]] = @ \cup {k}]
          /\ total' = [total EXCEPT ![host[k]] = @ + 1] /\ UNCHANGED <<users, rooms>>
        BY <1>2, <2>4 DEF HandleConnection, AddPublicConnection
    <3>2. k \in public'[host[k]] /\ \A i \in Instances : public[i] \subseteq public'[i]
        BY <1>1, <2>1, <3>1 DEF TypeOK
    <3>3. ASSUME NEW q \in Ids, Listening(q), Registered(q), q # k
          PROVE  Registered(q)'
      <4>1. host[q] \in Instances
        BY <1>1, <3>3 DEF Placed
      <4> QED
        BY <2>1, <3>1, <3>2, <3>3, <4>1 DEF Registered
    <3>4. Registered(k)'
        BY <2>1, <2>4, <3>2 DEF Registered
    <3>5. \A i \in Instances : total'[i] = IF i = host'[k] THEN total[i] + 1 ELSE total[i]
        BY <1>1, <2>1, <3>1 DEF TypeOK
    <3> QED
        BY <2>1, <2>2, <3>1, <3>3, <3>4, <3>5 DEF Alone
  <2> QED
    BY <2>3, <2>4
<1>3. ASSUME NEW i \in Instances, UpgradePublic(k, i)
      PROVE  /\ ~Listening(k) /\ Listening(k)' /\ host'[k] \in Instances
             /\ joined[k] = {} /\ joined'[k] = {} /\ rooms' = rooms
             /\ \A j \in Instances : total'[j] = IF j = host'[k] THEN total[j] + 1 ELSE total[j]
             /\ Alone(k) /\ Registered(k)'
  <2>1. /\ ~Listening(k) /\ stage' = [stage EXCEPT ![k] = "open"]
        /\ host' = [host EXCEPT ![k] = i] /\ UNCHANGED <<token, joined, users, rooms>>
        /\ public' = [public EXCEPT ![i] = @ \cup {k}]
        /\ total' = [total EXCEPT ![i] = @ + 1] /\ token[k] = None
    BY <1>1, <1>3 DEF UpgradePublic, AddPublicConnection, Placed, Listening
  <2>2. Listening(k)' /\ \A q \in Ids \ {k} : Listening(q)' <=> Listening(q)
    BY <1>1, <2>1 DEF TypeOK, Listening
  <2>3. host'[k] = i /\ joined[k] = {} /\ \A q \in Ids \ {k} : host'[q] = host[q]
    BY <1>1, <2>1 DEF TypeOK, Placed
  <2>4. k \in public'[i] /\ \A j \in Instances : public[j] \subseteq public'[j]
    BY <1>1, <2>1 DEF TypeOK
  <2>5. ASSUME NEW q \in Ids, Listening(q), Registered(q), q # k
        PROVE  Registered(q)'
    <3>1. host[q] \in Instances
        BY <1>1, <2>5 DEF Placed
    <3> QED
        BY <2>1, <2>3, <2>4, <2>5, <3>1 DEF Registered
  <2>6. Registered(k)'
    BY <2>1, <2>3, <2>4 DEF Registered
  <2>7. \A j \in Instances : total'[j] = IF j = host'[k] THEN total[j] + 1 ELSE total[j]
    BY <1>1, <2>1, <2>3 DEF TypeOK
  <2> QED
    BY <2>1, <2>2, <2>3, <2>5, <2>6, <2>7 DEF Alone
<1> QED
    BY <1>2, <1>3

\* One that closes leaves its count and its rooms, and disturbs no other.
LEMMA GoesOut ==
    ASSUME IInv, NEW k \in Ids, Close(k)
    PROVE  /\ Listening(k) /\ ~Listening(k)' /\ host[k] \in Instances /\ joined'[k] = {}
           /\ \A i \in Instances : total'[i] = IF i = host[k] THEN total[i] - 1 ELSE total[i]
           /\ \A i \in Instances, r \in Rooms :
                rooms'[i][r] = IF i = host[k] /\ r \in joined[k] THEN rooms[i][r] \ {k}
                                                                 ELSE rooms[i][r]
           /\ Alone(k)
<1> USE SocketsAssumption
<1>1. TypeOK /\ Placed
    BY DEF IInv
<1>2. /\ Listening(k) /\ host[k] \in Instances
      /\ stage' = [stage EXCEPT ![k] = "gone"] /\ host' = [host EXCEPT ![k] = None]
      /\ token' = [token EXCEPT ![k] = None] /\ joined' = [joined EXCEPT ![k] = {}]
      /\ rooms' = LeaveAllRooms(k)
    BY <1>1 DEF Close, Forget, Listening, Placed
<1>3. /\ ~Listening(k)' /\ joined'[k] = {}
      /\ \A q \in Ids \ {k} :
            /\ Listening(q)' <=> Listening(q)
            /\ host'[q] = host[q] /\ token'[q] = token[q] /\ joined'[q] = joined[q]
    BY <1>1, <1>2 DEF TypeOK, Listening
<1>4. \A i \in Instances, r \in Rooms :
        rooms'[i][r] = IF i = host[k] /\ r \in joined[k] THEN rooms[i][r] \ {k} ELSE rooms[i][r]
    BY <1>1, <1>2 DEF LeaveAllRooms, TypeOK
<1>5. total' = [total EXCEPT ![host[k]] = @ - 1]
    BY DEF Close, RemoveUserConnection, RemovePublicConnection
<1>6. \A i \in Instances : total'[i] = IF i = host[k] THEN total[i] - 1 ELSE total[i]
    BY <1>1, <1>5 DEF TypeOK
<1>7. ASSUME NEW q \in Ids, Listening(q), Registered(q), q # k
      PROVE  Registered(q)'
  <2>1. host[q] \in Instances /\ (token[q] # None => UserOf[SessionOf[token[q]]] \in Users)
    BY <1>1, <1>7 DEF Placed, TypeOK
  <2>2. CASE token[k] # None
    <3>1. users' = [users EXCEPT ![host[k]][UserOf[SessionOf[token[k]]]] = @ \ {k}] /\ public' = public
        BY <2>2 DEF Close, RemoveUserConnection
    <3>2. \A i \in Instances, v \in Users : users[i][v] \subseteq users'[i][v] \cup {k}
        BY <1>1, <3>1 DEF TypeOK
    <3>3. host'[q] = host[q] /\ token'[q] = token[q]
        BY <1>3, <1>7
    <3>4. CASE token[q] # None
        BY <1>7, <2>1, <3>2, <3>3, <3>4 DEF Registered
    <3>5. CASE token[q] = None
        BY <1>7, <3>1, <3>3, <3>5 DEF Registered
    <3> QED
        BY <3>4, <3>5
  <2>3. CASE token[k] = None
    <3>1. public' = [public EXCEPT ![host[k]] = @ \ {k}] /\ users' = users
        BY <2>3 DEF Close, RemovePublicConnection
    <3>2. \A i \in Instances : public[i] \subseteq public'[i] \cup {k}
        BY <1>1, <3>1 DEF TypeOK
    <3> QED
        BY <1>3, <1>7, <2>1, <3>1, <3>2 DEF Registered
  <2> QED
    BY <2>2, <2>3
<1> QED
    BY <1>2, <1>3, <1>4, <1>6, <1>7 DEF Alone

\* The sockets an instance has.
Here(i) == {k \in Ids : host[k] = i /\ Listening(k)}

\* The counts follow the sockets.
LEMMA StepCounts ==
    ASSUME IInv, Next
    PROVE  /\ FinitelyMany'
           /\ \A i \in Instances : (total[i] = Cardinality(Here(i)))'
<1>1. /\ TypeOK /\ Placed
      /\ \A i \in Instances : IsFiniteSet(Here(i)) /\ total[i] = Cardinality(Here(i))
    BY DEF IInv, FinitelyMany, RegistriesAgree, Here
<1> SUFFICES ASSUME NEW i \in Instances
             PROVE  IsFiniteSet(Here(i)') /\ total'[i] = Cardinality(Here(i)')
    BY DEF FinitelyMany, Here
<1>2. CASE Quiet
  <2>1. Here(i)' = Here(i) /\ total'[i] = total[i]
    BY <1>2 DEF Quiet, Here
  <2> QED
    BY <1>1, <2>1
<1>3. ASSUME NEW k \in Ids, HandleConnection(k) \/ \E j \in Instances : UpgradePublic(k, j)
      PROVE  IsFiniteSet(Here(i)') /\ total'[i] = Cardinality(Here(i)')
  <2>1. /\ ~Listening(k) /\ Listening(k)'
        /\ total'[i] = IF i = host'[k] THEN total[i] + 1 ELSE total[i]
        /\ \A q \in Ids \ {k} : (Listening(q)' <=> Listening(q)) /\ host'[q] = host[q]
    BY <1>3, ComesIn DEF Alone
  <2>2. k \notin Here(i) /\ Here(i)' = IF i = host'[k] THEN Here(i) \cup {k} ELSE Here(i)
    BY <2>1 DEF Here
  <2> QED
    BY <1>1, <2>1, <2>2, FS_AddElement
<1>4. ASSUME NEW k \in Ids, Close(k)
      PROVE  IsFiniteSet(Here(i)') /\ total'[i] = Cardinality(Here(i)')
  <2>1. /\ Listening(k) /\ ~Listening(k)'
        /\ total'[i] = IF i = host[k] THEN total[i] - 1 ELSE total[i]
        /\ \A q \in Ids \ {k} : (Listening(q)' <=> Listening(q)) /\ host'[q] = host[q]
    BY <1>4, GoesOut DEF Alone
  <2>2. /\ Here(i)' = IF i = host[k] THEN Here(i) \ {k} ELSE Here(i)
        /\ i = host[k] => k \in Here(i)
    BY <2>1 DEF Here
  <2> QED
    BY <1>1, <2>1, <2>2, FS_RemoveElement
<1> QED
    BY <1>2, <1>3, <1>4, MostStepsAreQuiet

\* Sockets are in the registry of their user, or among the public ones.
LEMMA StepRegistered ==
    ASSUME IInv, Next, NEW q \in Ids, Listening(q)'
    PROVE  Registered(q)'
<1>1. \A k \in Ids : Listening(k) => Registered(k)
    BY DEF IInv, RegistriesAgree
<1>2. CASE Quiet
    BY <1>1, <1>2 DEF Quiet, Registered
<1>3. ASSUME NEW k \in Ids, HandleConnection(k) \/ \E j \in Instances : UpgradePublic(k, j)
      PROVE  Registered(q)'
    BY <1>1, <1>3, ComesIn DEF Alone
<1>4. ASSUME NEW k \in Ids, Close(k)
      PROVE  Registered(q)'
    BY <1>1, <1>4, GoesOut DEF Alone
<1> QED
    BY <1>2, <1>3, <1>4, MostStepsAreQuiet

\* Rooms hold the sockets that joined them.
LEMMA StepRooms ==
    ASSUME IInv, Next, NEW i \in Instances, NEW r \in Rooms
    PROVE  (rooms[i][r] = {k \in Ids : host[k] = i /\ Listening(k) /\ r \in joined[k]})'
<1>1. TypeOK /\ Placed
    BY DEF IInv
<1>2. rooms[i][r] = {k \in Ids : host[k] = i /\ Listening(k) /\ r \in joined[k]}
    BY DEF IInv, RegistriesAgree
<1>3. CASE Quiet
  <2>1. CASE rooms' = rooms /\ \A q \in Ids : joined'[q] = joined[q]
    BY <1>2, <1>3, <2>1 DEF Quiet
  <2>2. ASSUME NEW k \in Ids, NEW v \in Rooms, JoinRoom(k, v)
        PROVE  (rooms[i][r] = {q \in Ids : host[q] = i /\ Listening(q) /\ r \in joined[q]})'
    <3>1. /\ rooms' = [rooms EXCEPT ![host[k]][v] = @ \cup {k}]
          /\ joined' = [joined EXCEPT ![k] = @ \cup {v}] /\ Listening(k)
        BY <2>2 DEF JoinRoom
    <3>2. host[k] \in Instances
        BY <1>1, <3>1 DEF Placed
    <3>3. rooms'[i][r] = IF i = host[k] /\ r = v THEN rooms[i][r] \cup {k} ELSE rooms[i][r]
        BY <1>1, <3>1, <3>2 DEF TypeOK
    <3>4. \A q \in Ids : joined'[q] = IF q = k THEN joined[q] \cup {v} ELSE joined[q]
        BY <1>1, <3>1 DEF TypeOK
    <3> QED
        BY <1>2, <1>3, <3>1, <3>3, <3>4 DEF Quiet
  <2>3. ASSUME NEW k \in Ids, NEW v \in Rooms, LeaveRoom(k, v)
        PROVE  (rooms[i][r] = {q \in Ids : host[q] = i /\ Listening(q) /\ r \in joined[q]})'
    <3>1. /\ rooms' = [rooms EXCEPT ![host[k]][v] = @ \ {k}]
          /\ joined' = [joined EXCEPT ![k] = @ \ {v}] /\ Listening(k)
        BY <2>3 DEF LeaveRoom
    <3>2. host[k] \in Instances
        BY <1>1, <3>1 DEF Placed
    <3>3. rooms'[i][r] = IF i = host[k] /\ r = v THEN rooms[i][r] \ {k} ELSE rooms[i][r]
        BY <1>1, <3>1, <3>2 DEF TypeOK
    <3>4. \A q \in Ids : joined'[q] = IF q = k THEN joined[q] \ {v} ELSE joined[q]
        BY <1>1, <3>1 DEF TypeOK
    <3> QED
        BY <1>2, <1>3, <3>1, <3>3, <3>4 DEF Quiet
  <2> QED
    BY <1>3, <2>1, <2>2, <2>3 DEF Quiet
<1>4. ASSUME NEW k \in Ids, HandleConnection(k) \/ \E j \in Instances : UpgradePublic(k, j)
      PROVE  (rooms[i][r] = {q \in Ids : host[q] = i /\ Listening(q) /\ r \in joined[q]})'
    BY <1>2, <1>4, ComesIn DEF Alone
<1>5. ASSUME NEW k \in Ids, Close(k)
      PROVE  (rooms[i][r] = {q \in Ids : host[q] = i /\ Listening(q) /\ r \in joined[q]})'
  <2>1. ~Listening(k)' /\ Listening(k)
    BY <1>5, GoesOut
  <2>2. rooms'[i][r] = IF i = host[k] /\ r \in joined[k] THEN rooms[i][r] \ {k} ELSE rooms[i][r]
    BY <1>5, GoesOut
  <2>3. Alone(k)
    BY <1>5, GoesOut
  <2>4. \A q \in Ids \ {k} : /\ Listening(q)' <=> Listening(q)
                            /\ host'[q] = host[q] /\ joined'[q] = joined[q]
    BY <2>3 DEF Alone
  <2> QED
    BY <1>2, <2>1, <2>2, <2>4
<1> QED
    BY <1>3, <1>4, <1>5, MostStepsAreQuiet

\* Together.
LEMMA StepRegistries ==
    ASSUME IInv, Next
    PROVE  RegistriesAgree'
<1>1. \A i \in Instances : total'[i] = Cardinality(Here(i)')
    BY StepCounts
<1> QED
    BY <1>1, StepRegistered, StepRooms DEF RegistriesAgree, Here

-----------------------------------------------------------------------------
(* Subscriptions.                                                          *)

\* The last command settles what it subscribes.
LEMMA LastCommand ==
    ASSUME NEW i, NEW c, NEW n \in 1..Len(sent'[i]), n = Len(sent'[i]), Len(sent'[i]) \in Nat,
           sent'[i][n].op = "subscribe", c \in sent'[i][n].channels
    PROVE  Settled(i, c)'
<1>1. Stays(i, c, n)'
    BY DEF Stays
<1> QED
    BY <1>1 DEF Settled

\* One command more: what was settled is, unless the command gives it up.
LEMMA Appending ==
    ASSUME TypeOK, NEW i \in Instances, NEW e \in Commands, NEW c \in Channels,
           sent'[i] = Append(sent[i], e), subs'[i] = subs[i],
           \/ Settled(i, c) /\ (e.op = "unsubscribe" => c \notin e.channels)
           \/ e.op = "subscribe" /\ c \in e.channels
    PROVE  Settled(i, c)'
<1> DEFINE l == Len(sent[i])
<1>1. /\ l \in Nat /\ Len(sent'[i]) = l + 1 /\ sent'[i][l + 1] = e
      /\ \A m \in 1..l : sent'[i][m] = sent[i][m]
    BY DEF TypeOK
<1>2. CASE Settled(i, c) /\ (e.op = "unsubscribe" => c \notin e.channels)
  <2>1. ASSUME NEW n \in 0..l, Stays(i, c, n)
        PROVE  Stays(i, c, n)'
    <3>1. SUFFICES ASSUME NEW m \in (n + 1)..Len(sent'[i]), sent'[i][m].op = "unsubscribe"
                   PROVE  c \notin sent'[i][m].channels
        BY DEF Stays
    <3>2. m \in (n + 1)..l \/ m = l + 1
        BY <1>1, <3>1
    <3>3. CASE m \in (n + 1)..l
        BY <1>1, <2>1, <3>1, <3>3 DEF Stays
    <3> QED
        BY <1>1, <1>2, <3>1, <3>2, <3>3
  <2>2. CASE c \in subs[i] /\ Stays(i, c, 0)
    BY <1>1, <2>1, <2>2 DEF Settled
  <2>3. ASSUME NEW n \in 1..l, sent[i][n].op = "subscribe", c \in sent[i][n].channels,
               Stays(i, c, n)
        PROVE  Settled(i, c)'
    BY <1>1, <2>1, <2>3 DEF Settled
  <2> QED
    BY <1>2, <2>2, <2>3 DEF Settled
<1>3. CASE e.op = "subscribe" /\ c \in e.channels
  <2>1. PICK n \in 1..Len(sent'[i]) : n = l + 1
    BY <1>1
  <2> QED
    BY <1>1, <1>3, <2>1, LastCommand
<1> QED
    BY <1>2, <1>3

\* What a connected instance sends settles what it subscribes, and gives up only
\* what it unsubscribes.
LEMMA Sending ==
    ASSUME TypeOK, NEW j \in Instances, NEW op \in {"subscribe", "unsubscribe"},
           NEW channels \in SUBSET Channels, Send(j, op, channels), subs' = subs,
           NEW i \in Instances, up[i], NEW c \in Channels,
           \/ Settled(i, c) /\ (op = "unsubscribe" /\ i = j => c \notin channels)
           \/ op = "subscribe" /\ i = j /\ c \in channels
    PROVE  Settled(i, c)'
<1>1. CASE sent'[i] = sent[i] /\ (i = j => channels = {})
    BY <1>1 DEF Settled, Stays
<1>2. CASE i = j /\ channels # {}
  <2>1. sent' = [sent EXCEPT ![i] = Append(@, [op |-> op, channels |-> channels])]
    BY <1>2 DEF Send
  <2>2. [op |-> op, channels |-> channels] \in Commands
    BY DEF Commands
  <2> QED
    BY <1>2, <2>1, <2>2, Appending DEF TypeOK
<1>3. i # j => sent'[i] = sent[i]
  <2>1. SUFFICES ASSUME channels # {}, i # j PROVE sent'[i] = sent[i]
    BY DEF Send
  <2>2. PICK kept \in SUBSET channels :
            sent' = IF kept = {} THEN sent
                    ELSE [sent EXCEPT ![j] = Append(@, [op |-> op, channels |-> kept])]
    BY <2>1 DEF Send
  <2> QED
    BY <2>1, <2>2 DEF TypeOK
<1>4. channels = {} => sent' = sent
    BY DEF Send
<1> QED
    BY <1>1, <1>2, <1>3, <1>4

\* Redis executes what it was sent in order.
LEMMA Executing ==
    ASSUME TypeOK, NEW i \in Instances, Execute(i), NEW c, Settled(i, c)
    PROVE  Settled(i, c)'
<1> DEFINE l == Len(sent[i])
           h == Head(sent[i])
<1>1. /\ l \in Nat \ {0} /\ h = sent[i][1] /\ Len(sent'[i]) = l - 1
      /\ \A m \in 1..(l - 1) : sent'[i][m] = sent[i][m + 1]
    BY DEF Execute, TypeOK
<1>2. h.op \in {"subscribe", "unsubscribe"}
  <2>1. sent[i] \in Seq(Commands) /\ sent[i][1] \in Commands
    BY <1>1 DEF TypeOK
  <2> QED
    BY <1>1, <2>1 DEF Commands
<1>3. subs'[i] = IF h.op = "subscribe" THEN subs[i] \cup h.channels ELSE subs[i] \ h.channels
    BY DEF Execute, TypeOK
<1>4. ASSUME NEW n \in 0..(l - 1), Stays(i, c, n + 1)
      PROVE  Stays(i, c, n)'
  <2>1. SUFFICES ASSUME NEW m \in (n + 1)..Len(sent'[i]), sent'[i][m].op = "unsubscribe"
                 PROVE  c \notin sent'[i][m].channels
    BY DEF Stays
  <2>2. m + 1 \in ((n + 1) + 1)..l /\ sent'[i][m] = sent[i][m + 1]
    BY <1>1, <2>1
  <2> QED
    BY <1>4, <2>1, <2>2 DEF Stays
<1>5. CASE c \in subs[i] /\ Stays(i, c, 0)
  <2>1. 1 \in (0 + 1)..l
    BY <1>1
  <2>2. h.op = "unsubscribe" => c \notin h.channels
    BY <1>1, <1>5, <2>1 DEF Stays
  <2>3. Stays(i, c, 0 + 1)
    BY <1>1, <1>5 DEF Stays
  <2> QED
    BY <1>1, <1>2, <1>3, <1>4, <1>5, <2>2, <2>3 DEF Settled
<1>6. ASSUME NEW n \in 1..l, sent[i][n].op = "subscribe", c \in sent[i][n].channels,
             Stays(i, c, n)
      PROVE  Settled(i, c)'
  <2>1. n - 1 \in 0..(l - 1) /\ (n - 1) + 1 = n
    BY <1>1
  <2>2. Stays(i, c, n - 1)'
    BY <1>4, <1>6, <2>1
  <2>3. CASE n = 1
    BY <1>1, <1>3, <1>6, <2>2, <2>3 DEF Settled
  <2>4. CASE n # 1
    <3>1. n - 1 \in 1..Len(sent'[i]) /\ sent'[i][n - 1] = sent[i][n]
        BY <1>1, <2>4
    <3> QED
        BY <1>6, <2>2, <3>1 DEF Settled
  <2> QED
    BY <2>3, <2>4
<1> QED
    BY <1>5, <1>6 DEF Settled

\* A new connection starts with a subscription for all that is hosted.
LEMMA Restoring ==
    ASSUME TypeOK, NEW i \in Instances, Ready(i), NEW c \in Hosted(i)
    PROVE  Settled(i, c)'
<1> DEFINE a == [op |-> "subscribe", channels |-> prior[i]]
           e == [op |-> "subscribe", channels |-> Hosted(i)]
           s == <<a>> \o sent[i]
<1>1. a \in Commands /\ e \in Commands
    BY HostedChannels DEF Commands, TypeOK
<1>2. s \in Seq(Commands)
    BY <1>1 DEF TypeOK
<1>3. sent'[i] = s \o <<e>>
    BY DEF Ready, TypeOK
<1>4. Len(sent'[i]) = Len(s) + 1 /\ sent'[i][Len(s) + 1] = e /\ Len(s) \in Nat
  <2> HIDE DEF s, e
  <2> QED
    BY <1>1, <1>2, <1>3
<1>5. e.op = "subscribe" /\ c \in e.channels
    OBVIOUS
<1> HIDE DEF s, e
<1>6. PICK n \in 1..Len(sent'[i]) : n = Len(s) + 1
    BY <1>4
<1> QED
    BY <1>4, <1>5, <1>6, LastCommand

\* Nothing happens to what is hosted or subscribed.
Calm == UNCHANGED <<users, rooms, up, sent, subs>>

\* Only what concerns a subscriber, a registration, a room or a close is not.
LEMMA MostStepsAreCalm ==
    ASSUME Next
    PROVE  \/ Calm
           \/ \E i \in Instances : Execute(i) \/ LoseSubscriber(i) \/ Ready(i)
           \/ \E k \in Ids : \/ HandleConnection(k) \/ Close(k)
                             \/ \E r \in Rooms : JoinRoom(k, r) \/ LeaveRoom(k, r)
<1>1. ASSUME NEW i \in Instances, \/ Heartbeat(i)
                                  \/ \E d \in inbox[i] : Deliver(i, d) \/ Disconnect(i, d)
      PROVE  Calm
    BY <1>1 DEF Heartbeat, Deliver, Disconnect, Calm, registry, pubsub
<1>2. ASSUME NEW k \in Ids, NEW i \in Instances,
             UpgradePublic(k, i) \/ \E t \in Tokens : Upgrade(k, i, t)
      PROVE  Calm
    BY <1>2 DEF UpgradePublic, AddPublicConnection, Upgrade, Calm, registry, pubsub
<1>3. ASSUME NEW k \in Ids, \/ Verify(k) \/ RejectUpgrade(k) \/ Hangup(k)
                            \/ \E r \in Rooms : RoomMessage(k, r)
      PROVE  Calm
    BY <1>3 DEF Verify, RejectUpgrade, Hangup, RoomMessage, Calm, registry, pubsub
<1>4. ASSUME \/ \E s \in Sessions : Logout(s)
             \/ \E t \in Tokens : IssueAccessToken(t) \/ TokenExpires(t)
             \/ \E u \in Users : ChangePassword(u)
             \/ \E d \in due : PublishDisconnect(d) \/ LoseDisconnect(d)
      PROVE  Calm
    BY <1>4
    DEF Logout, IssueAccessToken, TokenExpires, ChangePassword, Revoke, PublishDisconnect, LoseDisconnect,
        Calm, registry, pubsub
<1> QED
    BY <1>1, <1>2, <1>3, <1>4 DEF Next

\* A socket that comes in, or joins a room, subscribes for the first of its kind.
LEMMA JoiningSettles ==
    ASSUME IInv, NEW j \in Instances, NEW v \in Channels, subs' = subs, up' = up,
           NEW known, known => v \in Hosted(j),
           Send(j, "subscribe", IF known THEN {} ELSE {v}),
           NEW i \in Instances, up[i], NEW c \in Channels,
           c \in Hosted(i) \/ (i = j /\ c = v)
    PROVE  Settled(i, c)'
<1>1. TypeOK /\ HostedWillBeSubscribed
    BY DEF IInv
<1>2. CASE c \in Hosted(i)
    BY <1>1, <1>2, Sending DEF HostedWillBeSubscribed
<1>3. CASE i = j /\ c = v /\ c \notin Hosted(i)
  <2>1. (IF known THEN {} ELSE {v}) = {v}
    BY <1>3
  <2> QED
    BY <1>1, <1>3, <2>1, Sending
<1> QED
    BY <1>2, <1>3

\* One that goes or leaves unsubscribes from nothing others are there for.
LEMMA LeavingSettles ==
    ASSUME IInv, NEW j \in Instances, NEW channels \in SUBSET Channels, subs' = subs,
           Send(j, "unsubscribe", channels),
           NEW i \in Instances, up[i], NEW c \in Hosted(i), i = j => c \notin channels
    PROVE  Settled(i, c)'
<1>1. TypeOK /\ Settled(i, c) /\ c \in Channels
    BY HostedChannels DEF IInv, HostedWillBeSubscribed
<1> QED
    BY <1>1, Sending

\* Whatever a connected instance hosts stays settled.
LEMMA StepHosted ==
    ASSUME IInv, Next
    PROVE  HostedWillBeSubscribed'
<1> USE SocketsAssumption
<1> SUFFICES ASSUME NEW i \in Instances, up'[i], NEW c \in Hosted(i)'
             PROVE  Settled(i, c)'
    BY DEF HostedWillBeSubscribed
<1>1. TypeOK /\ Placed /\ RegistriesAgree /\ (up[i] /\ c \in Hosted(i) => Settled(i, c))
    BY DEF IInv, HostedWillBeSubscribed
<1>2. c \in Channels
    BY DEF Hosted, Channels
<1>3. CASE Calm
    BY <1>1, <1>3 DEF Calm, Hosted, Settled, Stays
<1>4. ASSUME NEW j \in Instances, Execute(j)
      PROVE  Settled(i, c)'
  <2>1. Settled(i, c)
    BY <1>1, <1>4 DEF Execute, Hosted, registry
  <2>2. i # j => sent'[i] = sent[i] /\ subs'[i] = subs[i]
    BY <1>1, <1>4 DEF Execute, TypeOK
  <2>3. CASE i # j
    BY <2>1, <2>2, <2>3 DEF Settled, Stays
  <2> QED
    BY <1>1, <1>4, <2>1, <2>3, Executing
<1>5. ASSUME NEW j \in Instances, LoseSubscriber(j)
      PROVE  Settled(i, c)'
  <2>1. i # j /\ up[i]
    BY <1>1, <1>5 DEF LoseSubscriber, TypeOK
  <2>2. sent'[i] = sent[i] /\ subs'[i] = subs[i]
    BY <1>1, <1>5, <2>1 DEF LoseSubscriber, TypeOK
  <2>3. Settled(i, c)
    BY <1>1, <1>5, <2>1 DEF LoseSubscriber, Hosted, registry
  <2> QED
    BY <2>2, <2>3 DEF Settled, Stays
<1>6. ASSUME NEW j \in Instances, Ready(j)
      PROVE  Settled(i, c)'
  <2>1. c \in Hosted(i)
    BY <1>6 DEF Ready, Hosted, registry
  <2>2. CASE i # j
    <3>1. up[i] /\ sent'[i] = sent[i] /\ subs'[i] = subs[i]
        BY <1>1, <1>6, <2>2 DEF Ready, TypeOK
    <3> QED
        BY <1>1, <2>1, <3>1 DEF Settled, Stays
  <2> QED
    BY <1>1, <1>6, <2>1, <2>2, Restoring
<1>7. ASSUME NEW k \in Ids, HandleConnection(k)
      PROVE  Settled(i, c)'
  <2>1. host[k] \in Instances /\ UNCHANGED <<subs, up>>
    BY <1>1, <1>7 DEF HandleConnection, Placed
  <2>2. CASE token[k] # None
    <3> DEFINE u == UserOf[SessionOf[token[k]]]
    <3>1. u \in Users /\ u \in Channels
        BY <1>1, <2>2 DEF TypeOK, Channels
    <3>2. /\ Send(host[k], "subscribe", IF users[host[k]][u] = {} THEN {u} ELSE {})
          /\ users' = [users EXCEPT ![host[k]][u] = @ \cup {k}] /\ rooms' = rooms
        BY <1>7, <2>2 DEF HandleConnection, AddUserConnection
    <3>3. c \in Hosted(i) \/ (i = host[k] /\ c = u)
        BY <1>1, <2>1, <3>1, <3>2 DEF Hosted, TypeOK
    <3>4. PICK known : known <=> users[host[k]][u] # {}
        OBVIOUS
    <3>5. /\ known => u \in Hosted(host[k])
          /\ Send(host[k], "subscribe", IF known THEN {} ELSE {u})
        BY <3>1, <3>2, <3>4 DEF Hosted
    <3> QED
        BY <1>2, <2>1, <3>1, <3>3, <3>5, JoiningSettles
  <2>3. CASE token[k] = None
    <3>1. Calm
        BY <1>7, <2>3 DEF HandleConnection, AddPublicConnection, Calm
    <3> QED
        BY <1>3, <3>1
  <2> QED
    BY <2>2, <2>3
<1>8. ASSUME NEW k \in Ids, NEW r \in Rooms, JoinRoom(k, r)
      PROVE  Settled(i, c)'
  <2>1. host[k] \in Instances /\ UNCHANGED <<users, subs, up>> /\ r \in Channels
    BY <1>1, <1>8 DEF JoinRoom, Placed, Channels
  <2>2. /\ Send(host[k], "subscribe", IF rooms[host[k]][r] = {} THEN {r} ELSE {})
        /\ rooms' = [rooms EXCEPT ![host[k]][r] = @ \cup {k}]
    BY <1>8 DEF JoinRoom, OpenedBy
  <2>3. c \in Hosted(i) \/ (i = host[k] /\ c = r)
    BY <1>1, <2>1, <2>2 DEF Hosted, TypeOK
  <2>4. PICK known : known <=> rooms[host[k]][r] # {}
    OBVIOUS
  <2>5. /\ known => r \in Hosted(host[k])
        /\ Send(host[k], "subscribe", IF known THEN {} ELSE {r})
    BY <2>2, <2>4 DEF Hosted
  <2> QED
    BY <1>2, <2>1, <2>3, <2>5, JoiningSettles
<1>9. ASSUME NEW k \in Ids, NEW r \in Rooms, LeaveRoom(k, r)
      PROVE  Settled(i, c)'
  <2>1. host[k] \in Instances /\ UNCHANGED <<users, subs, up>>
    BY <1>1, <1>9 DEF LeaveRoom, Placed
  <2>2. /\ Send(host[k], "unsubscribe", EmptiedBy(k, {r}))
        /\ rooms' = [rooms EXCEPT ![host[k]][r] = @ \ {k}]
    BY <1>9 DEF LeaveRoom
  <2>3. EmptiedBy(k, {r}) \in SUBSET Channels
    BY DEF EmptiedBy, Channels
  <2>4. c \in Hosted(i) /\ (i = host[k] => c \notin EmptiedBy(k, {r}))
    BY <1>1, <2>1, <2>2 DEF Hosted, EmptiedBy, TypeOK
  <2> QED
    BY <2>1, <2>2, <2>3, <2>4, LeavingSettles
<1>10. ASSUME NEW k \in Ids, Close(k)
      PROVE  Settled(i, c)'
  <2>1. host[k] \in Instances /\ UNCHANGED <<subs, up>> /\ joined[k] \subseteq Rooms
    BY <1>1, <1>10 DEF Close, Placed, Listening, TypeOK
  <2>2. \A r \in Rooms :
            rooms'[i][r] = IF i = host[k] /\ r \in joined[k] THEN rooms[i][r] \ {k}
                                                             ELSE rooms[i][r]
    BY <1>10, GoesOut
  <2>3. CASE token[k] # None
    <3> DEFINE u == UserOf[SessionOf[token[k]]]
               channels == EmptiedBy(k, joined[k]) \cup {v \in {u} : WasLast(k, v)}
    <3>1. u \in Users
        BY <1>1, <2>3 DEF TypeOK
    <3>2. /\ Send(host[k], "unsubscribe", channels)
          /\ users' = [users EXCEPT ![host[k]][u] = @ \ {k}]
        BY <1>10, <2>3 DEF Close, RemoveUserConnection
    <3>3. channels \in SUBSET Channels
        BY <2>1, <3>1 DEF EmptiedBy, Channels
    <3>4. CASE c \in Users
      <4>1. c \in Hosted(i) /\ c \notin Rooms /\ users'[i][c] # {}
        BY <1>1, <2>1, <3>1, <3>2, <3>4 DEF Hosted, TypeOK
      <4>2. i = host[k] /\ c = u => users'[i][c] = users[i][c] \ {k}
        BY <1>1, <3>1, <3>2 DEF TypeOK
      <4>3. i = host[k] => c \notin channels
        BY <2>1, <4>1, <4>2 DEF EmptiedBy, WasLast
      <4> QED
        BY <2>1, <3>2, <3>3, <4>1, <4>3, LeavingSettles
    <3>5. CASE c \in Rooms
      <4>1. c \in Hosted(i) /\ c \notin Users /\ rooms'[i][c] # {}
        BY <2>2, <3>5 DEF Hosted
      <4>2. i = host[k] => c \notin channels
        BY <2>2, <3>1, <3>5, <4>1 DEF EmptiedBy
      <4> QED
        BY <2>1, <3>2, <3>3, <4>1, <4>2, LeavingSettles
    <3> QED
        BY <1>2, <3>4, <3>5 DEF Channels
  <2>4. CASE token[k] = None
    <3>1. UNCHANGED <<users, sent>>
        BY <1>10, <2>4 DEF Close, RemovePublicConnection
    <3>2. Settled(i, c)
        BY <1>1, <2>1, <2>2, <3>1 DEF Hosted
    <3> QED
        BY <2>1, <3>1, <3>2 DEF Settled, Stays
  <2> QED
    BY <2>3, <2>4
<1> QED
    BY <1>3, <1>4, <1>5, <1>6, <1>7, <1>8, <1>9, <1>10, MostStepsAreCalm

-----------------------------------------------------------------------------
(* Revocation.                                                             *)

\* What is claimed of a socket of a revoked session.
Explained(q) ==
    Revoked(q) /\ token[q] \notin late =>
        /\ stage[q] = "register" => q \in excused \/ \E d \in due : q \in Targets(d)
        /\ stage[q] = "open" =>
            q \in excused \/ \E d \in (due \cup inbox[host[q]]) \cap Disconnects : q \in Targets(d)

\* A step that leaves a socket where it is, and what may close it on its way.
LEMMA Waiting ==
    ASSUME TypeOK, NEW q \in Ids, Explained(q), token'[q] = token[q], host'[q] = host[q],
           token[q] # None /\ SessionOf[token[q]] \in ended' /\ token[q] \notin late'
                => SessionOf[token[q]] \in ended /\ token[q] \notin late,
           q \in excused => q \in excused', due \subseteq due',
           stage'[q] = "open" => inbox[host[q]] \cap Disconnects \subseteq inbox'[host[q]],
           stage'[q] \in {"register", "open"} => \/ stage'[q] = stage[q]
                                                 \/ stage[q] = "register"
    PROVE  Explained(q)'
<1>1. \A d : Targets(d) \subseteq Ids /\ (q \in Targets(d) <=> q \in Targets(d)')
    BY DEF Targets
<1>2. due \subseteq Disconnects
    BY DEF TypeOK
<1> QED
    BY <1>1, <1>2 DEF Explained, Revoked

\* at:<sid> of a revoked session holds nothing that was stored before the revocation,
\* and only tokens of its own.
LEMMA StepStored ==
    ASSUME IInv, Next
    PROVE  StoredIsLate' /\ StoredInPlace'
<1> USE SocketsAssumption
<1>1. TypeOK /\ StoredIsLate /\ StoredInPlace
    BY DEF IInv
<1>2. ASSUME UNCHANGED <<at, ended, late>>
      PROVE  StoredIsLate' /\ StoredInPlace'
    BY <1>1, <1>2 DEF StoredIsLate, StoredInPlace
<1>3. ASSUME NEW t \in Tokens, IssueAccessToken(t)
      PROVE  StoredIsLate' /\ StoredInPlace'
  <2>1. /\ SessionOf[t] \in Sessions /\ ended' = ended
        /\ at' = [at EXCEPT ![SessionOf[t]] = t]
        /\ late' = late \cup {x \in {t} : SessionOf[x] \in ended}
    BY <1>3 DEF IssueAccessToken
  <2>2. \A s \in Sessions : at'[s] = IF s = SessionOf[t] THEN t ELSE at[s]
    BY <1>1, <2>1 DEF TypeOK
  <2> QED
    BY <1>1, <2>1, <2>2 DEF StoredIsLate, StoredInPlace, TypeOK
<1>4. ASSUME NEW t \in Tokens, TokenExpires(t)
      PROVE  StoredIsLate' /\ StoredInPlace'
    BY <1>1, <1>4 DEF TokenExpires, StoredIsLate, StoredInPlace, TypeOK
<1>5. ASSUME NEW ss \in SUBSET Sessions, NEW d, Revoke(ss, d)
      PROVE  StoredIsLate' /\ StoredInPlace'
    BY <1>1, <1>5 DEF Revoke, StoredIsLate, StoredInPlace, TypeOK
<1>6. ASSUME NEW s \in Sessions, Logout(s)
      PROVE  StoredIsLate' /\ StoredInPlace'
    BY <1>5, <1>6 DEF Logout
<1>7. ASSUME NEW u \in Users, ChangePassword(u)
      PROVE  StoredIsLate' /\ StoredInPlace'
    BY <1>5, <1>7 DEF ChangePassword
<1>8. CASE \E i \in Instances :
            \/ Execute(i) \/ LoseSubscriber(i) \/ Ready(i) \/ Heartbeat(i)
            \/ \E m \in inbox[i] : Deliver(i, m) \/ Disconnect(i, m)
    BY <1>2, <1>8
    DEF Execute, LoseSubscriber, Ready, Heartbeat, Deliver, Disconnect, auth
<1>9. CASE \E k \in Ids :
            \/ \E i \in Instances : UpgradePublic(k, i) \/ \E t \in Tokens : Upgrade(k, i, t)
            \/ Verify(k) \/ RejectUpgrade(k) \/ HandleConnection(k) \/ Hangup(k) \/ Close(k)
            \/ \E r \in Rooms : JoinRoom(k, r) \/ LeaveRoom(k, r) \/ RoomMessage(k, r)
  <2>1. PICK k \in Ids :
            \/ \E i \in Instances : UpgradePublic(k, i) \/ \E t \in Tokens : Upgrade(k, i, t)
            \/ Verify(k) \/ RejectUpgrade(k) \/ HandleConnection(k) \/ Hangup(k) \/ Close(k)
            \/ \E r \in Rooms : JoinRoom(k, r) \/ LeaveRoom(k, r) \/ RoomMessage(k, r)
    BY <1>9
  <2>2. CASE \E i \in Instances : UpgradePublic(k, i) \/ \E t \in Tokens : Upgrade(k, i, t)
    BY <1>2, <2>2 DEF UpgradePublic, Upgrade, auth
  <2>3. CASE Verify(k) \/ RejectUpgrade(k) \/ HandleConnection(k) \/ Hangup(k) \/ Close(k)
    BY <1>2, <2>3 DEF Verify, RejectUpgrade, HandleConnection, Hangup, Close, auth
  <2>4. CASE \E r \in Rooms : JoinRoom(k, r) \/ LeaveRoom(k, r) \/ RoomMessage(k, r)
    BY <1>2, <2>4 DEF JoinRoom, LeaveRoom, RoomMessage, auth
  <2> QED
    BY <2>1, <2>2, <2>3, <2>4
<1>10. CASE \E d \in due : PublishDisconnect(d) \/ LoseDisconnect(d)
    BY <1>2, <1>10 DEF PublishDisconnect, LoseDisconnect
<1> QED
    BY <1>3, <1>4, <1>6, <1>7, <1>8, <1>9, <1>10 DEF Next

\* Every step leaves a message, or an excuse, for a socket of a revoked session.
LEMMA StepExplained ==
    ASSUME IInv, Next, NEW q \in Ids
    PROVE  Explained(q)'
<1> USE SocketsAssumption
<1>1. /\ TypeOK /\ Placed /\ Explained(q) /\ (Listening(q) => Registered(q))
      /\ StoredIsLate
    BY DEF IInv, RegistriesAgree, RevokedOnTheWay, RevokedSocketsExplained, Explained, Revoked
<1>2. ASSUME NEW i \in Instances, Execute(i) \/ Ready(i)
      PROVE  Explained(q)'
    BY <1>1, <1>2, Waiting DEF Execute, Ready, auth, socket, history
<1>3. ASSUME NEW i \in Instances, LoseSubscriber(i)
      PROVE  Explained(q)'
  <2>1. UNCHANGED <<auth, socket>> /\ inbox' = [inbox EXCEPT ![i] = {}]
    BY <1>3 DEF LoseSubscriber
  <2>2. CASE host[q] = i /\ \E d \in inbox[i] \cap Disconnects : q \in Targets(d)
    BY <1>3, <2>2 DEF LoseSubscriber, Explained, Revoked
  <2>3. CASE host[q] # i
    BY <1>1, <1>3, <2>1, <2>3, Waiting
    DEF LoseSubscriber, TypeOK, Placed, Listening, auth, socket
  <2>4. CASE host[q] = i /\ ~ \E d \in inbox[i] \cap Disconnects : q \in Targets(d)
    <3>1. \A d : q \in Targets(d) <=> q \in Targets(d)'
        BY <2>1 DEF Targets, socket
    <3>2. excused \subseteq excused'
        BY <1>3 DEF LoseSubscriber
    <3>3. due \subseteq Disconnects
        BY <1>1 DEF TypeOK
    <3> QED
        BY <1>1, <2>1, <2>4, <3>1, <3>2, <3>3 DEF Explained, Revoked, auth, socket
  <2> QED
    BY <2>2, <2>3, <2>4
<1>4. ASSUME NEW i \in Instances, Heartbeat(i)
      PROVE  Explained(q)'
    BY <1>1, <1>4, Waiting DEF Heartbeat, auth, pubsub, history
<1>5. ASSUME NEW i \in Instances, NEW d \in inbox[i], Deliver(i, d)
      PROVE  Explained(q)'
  <2>1. PICK slow \in SUBSET {k \in rooms[i][d.room] \ {d.except} : stage[k] = "open"} :
            stage' = [k \in Ids |-> IF k \in slow THEN "closing" ELSE stage[k]]
    BY <1>5 DEF Deliver
  <2>2. /\ d \in Deliveries /\ inbox' = [inbox EXCEPT ![i] = @ \ {d}]
        /\ UNCHANGED <<auth, host, token, history>>
    BY <1>5 DEF Deliver
  <2>3. d \notin Disconnects
    BY <2>2 DEF Deliveries, Disconnects
  <2>4. stage'[q] = "open" => inbox[host[q]] \cap Disconnects \subseteq inbox'[host[q]]
    BY <1>1, <2>1, <2>2, <2>3 DEF TypeOK, Placed, Listening
  <2> QED
    BY <1>1, <2>1, <2>2, <2>4, Waiting DEF auth, history
<1>6. ASSUME NEW i \in Instances, NEW d \in inbox[i], Disconnect(i, d)
      PROVE  Explained(q)'
  <2>1. /\ d \in Disconnects /\ inbox' = [inbox EXCEPT ![i] = @ \ {d}]
        /\ stage' = [k \in Ids |-> IF k \in LocalTargets(i, d) THEN "closing" ELSE stage[k]]
        /\ UNCHANGED <<auth, host, token, history>>
    BY <1>6 DEF Disconnect
  <2>2. CASE stage'[q] = "open" /\ host[q] = i
    <3>1. stage[q] = "open" /\ q \notin LocalTargets(i, d)
        BY <2>1, <2>2
    <3>2. token[q] # None => q \in users[i][UserOf[SessionOf[token[q]]]]
        BY <1>1, <2>2, <3>1 DEF Listening, Registered
    <3>3. q \notin Targets(d)
        BY <3>1, <3>2 DEF LocalTargets, Targets
    <3>4. \A e : q \in Targets(e) <=> q \in Targets(e)'
        BY <2>1 DEF Targets
    <3>5. inbox'[i] = inbox[i] \ {d} /\ host'[q] = i
        BY <1>1, <2>1, <2>2 DEF TypeOK
    <3> QED
        BY <1>1, <2>1, <2>2, <3>1, <3>3, <3>4, <3>5 DEF Explained, Revoked, auth, history
  <2>3. CASE ~(stage'[q] = "open" /\ host[q] = i)
    <3>1. stage'[q] = "open" => inbox[host[q]] \cap Disconnects \subseteq inbox'[host[q]]
        BY <1>1, <2>1, <2>3 DEF TypeOK, Placed, Listening
    <3> QED
        BY <1>1, <2>1, <3>1, Waiting DEF auth, history
  <2> QED
    BY <2>2, <2>3
<1>7. ASSUME NEW k \in Ids, NEW i \in Instances,
             UpgradePublic(k, i) \/ \E t \in Tokens : Upgrade(k, i, t)
      PROVE  Explained(q)'
  <2>1. CASE q = k
    BY <1>1, <1>7, <2>1 DEF UpgradePublic, Upgrade, TypeOK, Placed, Explained, Revoked, auth
  <2>2. CASE q # k
    <3>1. CASE UpgradePublic(k, i)
        BY <1>1, <2>2, <3>1, Waiting DEF UpgradePublic, TypeOK, auth, pubsub, history
    <3>2. ASSUME NEW t \in Tokens, Upgrade(k, i, t)
          PROVE  Explained(q)'
        BY <1>1, <2>2, <3>2, Waiting DEF Upgrade, TypeOK, auth, pubsub, history
    <3> QED
        BY <1>7, <3>1, <3>2
  <2> QED
    BY <2>1, <2>2
<1>8. ASSUME NEW k \in Ids, Verify(k)
      PROVE  Explained(q)'
  <2>1. CASE q = k
    <3>1. token'[q] = IF at[SessionOf[token[q]]] = token[q] THEN token[q] ELSE None
        BY <1>1, <1>8, <2>1 DEF Verify, TypeOK
    <3>2. UNCHANGED <<ended, late>>
        BY <1>8 DEF Verify, auth
    <3>3. token'[q] # None /\ SessionOf[token'[q]] \in ended => token'[q] \in late
        BY <1>1, <3>1 DEF StoredIsLate
    <3> QED
        BY <3>2, <3>3 DEF Explained, Revoked
  <2>2. CASE q # k
    BY <1>1, <1>8, <2>2, Waiting DEF Verify, TypeOK, auth, pubsub, history
  <2> QED
    BY <2>1, <2>2
<1>9. ASSUME NEW k \in Ids, HandleConnection(k) \/ Hangup(k)
      PROVE  Explained(q)'
  <2>1. UNCHANGED <<auth, inbox, token, host, history>>
    BY <1>9 DEF HandleConnection, Hangup, pubsub
  <2>2. stage'[q] \in {"register", "open"} => stage'[q] = stage[q] \/ stage[q] = "register"
    BY <1>1, <1>9 DEF HandleConnection, Hangup, TypeOK
  <2> QED
    BY <1>1, <2>1, <2>2, Waiting DEF auth, history
<1>10. ASSUME NEW k \in Ids, RejectUpgrade(k) \/ Close(k)
      PROVE  Explained(q)'
  <2>1. Forget(k) /\ UNCHANGED <<auth, inbox>>
    BY <1>10 DEF RejectUpgrade, Close, pubsub
  <2>2. CASE q = k
    BY <1>1, <2>1, <2>2 DEF Forget, TypeOK, Explained, Revoked
  <2>3. CASE q # k
    BY <1>1, <2>1, <2>3, Waiting DEF Forget, TypeOK, auth
  <2> QED
    BY <2>2, <2>3
<1>11. ASSUME NEW k \in Ids, NEW r \in Rooms, JoinRoom(k, r) \/ LeaveRoom(k, r)
       PROVE  Explained(q)'
    BY <1>1, <1>11, Waiting DEF JoinRoom, LeaveRoom, auth, history
<1>12. ASSUME NEW k \in Ids, NEW r \in Rooms, RoomMessage(k, r)
       PROVE  Explained(q)'
    BY <1>1, <1>12, Waiting
    DEF RoomMessage, Publish, TypeOK, Placed, Listening, auth, socket, history
<1>13. ASSUME NEW t \in Tokens, IssueAccessToken(t) \/ TokenExpires(t)
       PROVE  Explained(q)'
    BY <1>1, <1>13, Waiting
    DEF IssueAccessToken, TokenExpires, Revoked, pubsub, socket, history
<1>14. ASSUME NEW ss, NEW d \in Disconnects, Revoke(ss, d),
              token[q] # None /\ SessionOf[token[q]] \in ss => q \in Targets(d)
       PROVE  Explained(q)'
  <2>1. /\ ended' = ended \cup ss /\ due' = due \cup {d}
        /\ late' = {t \in late : SessionOf[t] \notin ss}
        /\ UNCHANGED <<pubsub, socket, history>>
    BY <1>14 DEF Revoke
  <2>2. CASE token[q] # None /\ SessionOf[token[q]] \in ss
    <3>1. q \in Targets(d)'
        BY <1>14, <2>1, <2>2 DEF Targets, socket
    <3> QED
        BY <2>1, <3>1 DEF Explained, Revoked
  <2>3. CASE ~(token[q] # None /\ SessionOf[token[q]] \in ss)
    BY <1>1, <2>1, <2>3, Waiting DEF pubsub, socket, history
  <2> QED
    BY <2>2, <2>3
<1>15. ASSUME NEW s \in Sessions, Logout(s)
       PROVE  Explained(q)'
  <2>1. /\ [user |-> UserOf[s], session |-> s] \in Disconnects
        /\ token[q] # None /\ SessionOf[token[q]] \in {s} => q \in Targets([user |-> UserOf[s], session |-> s])
    BY DEF Disconnects, Targets
  <2> QED
    BY <1>14, <1>15, <2>1 DEF Logout
<1>16. ASSUME NEW u \in Users, ChangePassword(u)
       PROVE  Explained(q)'
  <2>1. /\ [user |-> u, session |-> None] \in Disconnects
        /\ token[q] # None /\ SessionOf[token[q]] \in {s \in Sessions \ ended : UserOf[s] = u} =>
                q \in Targets([user |-> u, session |-> None])
    BY DEF Disconnects, Targets
  <2> QED
    BY <1>14, <1>16, <2>1 DEF ChangePassword
<1>17. ASSUME NEW d \in due, PublishDisconnect(d)
       PROVE  Explained(q)'
  <2>1. /\ due' = due \ {d} /\ excused' = excused \cup Missed(d) /\ UNCHANGED <<ended, late, socket>>
        /\ inbox' = [i \in Instances |->
                        IF i \in Reached(d.user) THEN inbox[i] \cup {d} ELSE inbox[i]]
    BY <1>17 DEF PublishDisconnect, Publish
  <2>2. \A e : q \in Targets(e) <=> q \in Targets(e)'
    BY <2>1 DEF Targets, socket
  <2>3. q \in Targets(d) \ Missed(d) =>
            stage[q] # "register" /\ host[q] \in Instances /\ d \in inbox'[host[q]]
    BY <2>1 DEF Missed, Reached
  <2>4. stage[q] = "open" => inbox[host[q]] \subseteq inbox'[host[q]]
    BY <1>1, <2>1 DEF Placed, Listening
  <2>5. d \in Disconnects
    BY <1>1 DEF TypeOK
  <2>6. /\ stage' = stage /\ token' = token /\ host' = host /\ ended' = ended /\ late' = late
        /\ excused \subseteq excused'
    BY <2>1 DEF socket
  <2>7. CASE q \in Targets(d)
    BY <2>1, <2>2, <2>3, <2>5, <2>6, <2>7 DEF Explained, Revoked
  <2>8. CASE q \notin Targets(d)
    BY <1>1, <2>1, <2>2, <2>4, <2>6, <2>8 DEF Explained, Revoked
  <2> QED
    BY <2>7, <2>8
<1>18. ASSUME NEW d \in due, LoseDisconnect(d)
       PROVE  Explained(q)'
  <2>1. /\ due' = due \ {d} /\ excused' = excused \cup Targets(d)
        /\ UNCHANGED <<ended, late, socket, inbox>>
    BY <1>18 DEF LoseDisconnect, pubsub
  <2>2. \A e : q \in Targets(e) <=> q \in Targets(e)'
    BY <2>1 DEF Targets, socket
  <2> QED
    BY <1>1, <2>1, <2>2 DEF Explained, Revoked, socket
<1> QED
    BY <1>2, <1>3, <1>4, <1>5, <1>6, <1>7, <1>8, <1>9, <1>10, <1>11, <1>12, <1>13, <1>15,
       <1>16, <1>17, <1>18
    DEF Next

-----------------------------------------------------------------------------
(* The theorems.                                                           *)

\* Every step keeps the invariant.
LEMMA StepIInv == IInv /\ [Next]_vars => IInv'
<1> SUFFICES ASSUME IInv, [Next]_vars PROVE IInv'
    OBVIOUS
<1>1. CASE Next
  <2>1. RevokedOnTheWay' /\ RevokedSocketsExplained'
    BY <1>1, StepExplained DEF Explained, RevokedOnTheWay, RevokedSocketsExplained
  <2> QED
    BY <1>1, <2>1, StepTypes, StepPlaced, StepCounts, StepRegistries, StepHosted, StepStored
    DEF IInv
<1>2. CASE UNCHANGED vars
  <2> USE <1>2 DEF vars, auth, registry, pubsub, socket, history
  <2>1. TypeOK' /\ Placed'
    BY DEF IInv, TypeOK, Placed, Listening
  <2>2. FinitelyMany' /\ RegistriesAgree'
    BY DEF IInv, FinitelyMany, RegistriesAgree, Registered, Listening
  <2>3. HostedWillBeSubscribed'
    BY DEF IInv, HostedWillBeSubscribed, Hosted, Settled, Stays
  <2>4. RevokedOnTheWay' /\ RevokedSocketsExplained'
    BY DEF IInv, RevokedOnTheWay, RevokedSocketsExplained, Revoked, Targets
  <2>5. StoredIsLate' /\ StoredInPlace'
    BY DEF IInv, StoredIsLate, StoredInPlace
  <2> QED
    BY <2>1, <2>2, <2>3, <2>4, <2>5 DEF IInv
<1> QED
    BY <1>1, <1>2

\* The inductive invariant holds in every reachable state.
THEOREM Invariance == Spec => []IInv
    BY InitIInv, StepIInv, PTL DEF Spec

\* Every variable keeps its type: no count goes below zero, and only commands, channels
\* and messages of these users and rooms are on their way.
THEOREM TypeCorrect == Spec => []TypeOK
<1>1. IInv => TypeOK
    BY DEF IInv
<1> QED
    BY <1>1, Invariance, PTL

\* The count that sheds load, the maps and the rooms agree with the sockets that are
\* there, however many come and go on however many instances (connectionManager.ts).
THEOREM RegistriesAlwaysAgree == Spec => []RegistriesAgree
<1>1. IInv => RegistriesAgree
    BY DEF IInv
<1> QED
    BY <1>1, Invariance, PTL

\* However often the subscriber's connection is lost, and whatever commands are given
\* up meanwhile, an instance that is connected and has nothing left to be executed is
\* subscribed for all users and rooms it has sockets of (subscriber.ts:46-49).
THEOREM HostedAlwaysSubscribed == Spec => []HostedAreSubscribed
<1>1. IInv => HostedAreSubscribed
  <2> SUFFICES ASSUME IInv, NEW i \in Instances, up[i], sent[i] = <<>>, NEW c \in Hosted(i)
               PROVE  c \in subs[i]
    BY DEF HostedAreSubscribed
  <2>1. Settled(i, c)
    BY DEF IInv, HostedWillBeSubscribed
  <2> QED
    BY <2>1 DEF Settled
<1> QED
    BY <1>1, Invariance, PTL

\* A socket of a revoked session is open only while a message is to close it, or because
\* no message could find it, or because it came with a token that was written to at:<sid>
\* after the session was revoked (websocket/publisher.ts, renewSession.ts:74-90).
THEOREM RevokedSocketsAlwaysExplained == Spec => []RevokedSocketsExplained
<1>1. IInv => RevokedSocketsExplained
    BY DEF IInv
<1> QED
    BY <1>1, Invariance, PTL
=============================================================================
