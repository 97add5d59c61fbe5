------------------------------ MODULE Sockets ------------------------------
(***************************************************************************)
(* The WebSocket server (websocket/) on several instances: upgrades, the   *)
(* registries of connectionManager.ts, rooms, the Redis channels each      *)
(* instance's subscriber listens on, and the revocation of sessions, whose *)
(* sockets are closed by a message on the user's channel.  What runs       *)
(* between two awaits, or in one event callback, is one step.  Of logins,  *)
(* renewals and revocations it has what an upgrade and a socket see: the   *)
(* key at:<sid>, which a renewal in flight may write once more after the   *)
(* session was revoked (Sessions), and the exp of each token.              *)
(* External is the Redis connection of a subscriber (ioredis): commands    *)
(* are executed in the order they were sent, subscriptions die with the    *)
(* connection, and a new connection starts with those the old one had.     *)
(***************************************************************************)
EXTENDS Naturals, Sequences, FiniteSets

CONSTANTS Instances,      \* processes of the server
          Ids,            \* sockets, each opened once
          Tokens,         \* access tokens
          Sessions,       \* device sessions
          SessionOf,      \* the session of each token
          Users,
          UserOf,         \* the user of each session
          Rooms,
          MaxConnections, \* ws.maxConnections, per instance
          MaxDrops,       \* bound: subscriber connections lost
          MaxQueue,       \* bound: commands in flight when a room is joined or left
          None

ASSUME SocketsAssumption ==
    /\ SessionOf \in [Tokens -> Sessions]
    /\ UserOf \in [Sessions -> Users]
    /\ Users \cap Rooms = {}
    /\ None \notin Tokens \cup Sessions \cup Users \cup Instances
    /\ MaxConnections \in Nat \ {0} /\ MaxDrops \in Nat /\ MaxQueue \in Nat

VARIABLES
    \* sessions
    at,         \* the access token at:<sid> holds
    issued,     \* tokens written there so far
    past,       \* those that have reached their exp
    ended,      \* sessions that were revoked: at:<sid> and the row deleted
    late,       \* tokens written after that, and not deleted since
    due,        \* disconnect messages still to be published
    \* each instance
    total,      \* totalConnections
    users,      \* userConnections: the sockets of each user
    public,     \* publicConnections
    rooms,      \* rooms: the sockets in each room
    \* its subscriber
    up,         \* whether it is connected
    sent,       \* commands Redis has not executed yet
    subs,       \* channels Redis delivers to it
    prior,      \* those it had when it lost the connection
    inbox,      \* messages on their way to it
    \* each socket
    stage,      \* how far it is
    host,       \* its instance
    token,      \* the access token of its upgrade: ws.userId, ws.sessionId, ws.userExp
    joined,     \* ws.rooms
    authed,     \* whether it came by the authenticated path
    \* history
    drops,      \* subscriber connections lost so far
    excused     \* sockets no disconnect message could find

auth     == <<at, issued, past, ended, late, due>>
registry == <<total, users, public, rooms>>
pubsub   == <<up, sent, subs, prior, inbox>>
socket   == <<stage, host, token, joined, authed>>
history  == <<drops, excused>>
vars == <<auth, registry, pubsub, socket, history>>

Channels == Users \cup Rooms
Stages == {"new", "verify", "register", "open", "closing", "gone"}
Commands == [op : {"subscribe", "unsubscribe"}, channels : SUBSET Channels]

\* Messages: a disconnect of one or all sessions of a user, a delivery to a room.
Disconnects == [user : Users, session : Sessions \cup {None}]
Deliveries  == [room : Rooms, except : Ids]

TypeOK ==
    /\ at \in [Sessions -> Tokens \cup {None}]
    /\ issued \subseteq Tokens /\ past \subseteq Tokens /\ late \subseteq Tokens
    /\ ended \subseteq Sessions /\ due \subseteq Disconnects
    /\ total \in [Instances -> Nat]
    /\ users \in [Instances -> [Users -> SUBSET Ids]]
    /\ public \in [Instances -> SUBSET Ids]
    /\ rooms \in [Instances -> [Rooms -> SUBSET Ids]]
    /\ up \in [Instances -> BOOLEAN]
    /\ sent \in [Instances -> Seq(Commands)]
    /\ subs \in [Instances -> SUBSET Channels] /\ prior \in [Instances -> SUBSET Channels]
    /\ inbox \in [Instances -> SUBSET (Disconnects \cup Deliveries)]
    /\ stage \in [Ids -> Stages]
    /\ host \in [Ids -> Instances \cup {None}]
    /\ token \in [Ids -> Tokens \cup {None}]
    /\ joined \in [Ids -> SUBSET Rooms]
    /\ authed \in [Ids -> BOOLEAN]
    /\ drops \in Nat /\ excused \subseteq Ids

Init ==
    /\ at = [s \in Sessions |-> None]
    /\ issued = {} /\ past = {} /\ ended = {} /\ late = {} /\ due = {}
    /\ total = [i \in Instances |-> 0]
    /\ users = [i \in Instances |-> [u \in Users |-> {}]]
    /\ public = [i \in Instances |-> {}]
    /\ rooms = [i \in Instances |-> [r \in Rooms |-> {}]]
    /\ up = [i \in Instances |-> TRUE]
    /\ sent = [i \in Instances |-> <<>>]
    /\ subs = [i \in Instances |-> {}] /\ prior = [i \in Instances |-> {}]
    /\ inbox = [i \in Instances |-> {}]
    /\ stage = [k \in Ids |-> "new"] /\ host = [k \in Ids |-> None]
    /\ token = [k \in Ids |-> None]
    /\ joined = [k \in Ids |-> {}] /\ authed = [k \in Ids |-> FALSE]
    /\ drops = 0 /\ excused = {}

-----------------------------------------------------------------------------
(* The subscriber (websocket/subscriber.ts).                               *)

\* userChannel and roomChannel of everything this instance has a socket for.
Hosted(i) == {u \in Users : users[i][u] # {}} \cup {r \in Rooms : rooms[i][r] # {}}

\* Commands nobody waits for.  Without a connection any of them may be given up.
Send(i, op, channels) ==
    IF channels = {}
      THEN UNCHANGED sent
      ELSE \E kept \in SUBSET channels :
             /\ up[i] => kept = channels
             /\ sent' = IF kept = {} THEN sent
                        ELSE [sent EXCEPT ![i] = Append(@, [op |-> op, channels |-> kept])]

\* Redis executes the next command.
Execute(i) ==
    /\ up[i] /\ sent[i] # <<>>
    /\ LET c == Head(sent[i]) IN
        subs' = [subs EXCEPT ![i] = IF c.op = "subscribe" THEN @ \cup c.channels
                                                          ELSE @ \ c.channels]
    /\ sent' = [sent EXCEPT ![i] = Tail(@)]
    /\ UNCHANGED <<auth, registry, up, prior, inbox, socket, history>>

\* Whom a disconnect message is for.
Targets(d) ==
    {k \in Ids : /\ token[k] # None
                 /\ UserOf[SessionOf[token[k]]] = d.user
                 /\ d.session \in {None, SessionOf[token[k]]}}

\* The connection goes down, with what was on its way; unexecuted commands are
\* sent again or given up.
LoseSubscriber(i) ==
    /\ up[i] /\ drops < MaxDrops
    /\ drops' = drops + 1
    /\ up' = [up EXCEPT ![i] = FALSE]
    /\ prior' = [prior EXCEPT ![i] = subs[i]]
    /\ subs' = [subs EXCEPT ![i] = {}]
    /\ sent' \in {sent, [sent EXCEPT ![i] = <<>>]}
    /\ inbox' = [inbox EXCEPT ![i] = {}]
    /\ excused' = excused \cup {k \in Ids :
                      host[k] = i /\ \E d \in inbox[i] \cap Disconnects : k \in Targets(d)}
    /\ UNCHANGED <<auth, registry, socket>>

\* ioredis restores what it had and sends what was queued before the "ready"
\* handler subscribes to all that is hosted.
Ready(i) ==
    /\ ~up[i]
    /\ up' = [up EXCEPT ![i] = TRUE]
    /\ sent' = [sent EXCEPT ![i] =
                  <<[op |-> "subscribe", channels |-> prior[i]]>> \o @
                    \o <<[op |-> "subscribe", channels |-> Hosted(i)]>>]
    /\ prior' = [prior EXCEPT ![i] = {}]
    /\ UNCHANGED <<auth, registry, subs, inbox, socket, history>>

-----------------------------------------------------------------------------
(* Upgrades (websocket/server.ts).                                         *)

\* The socket is destroyed and forgotten.
Forget(k) ==
    /\ stage' = [stage EXCEPT ![k] = "gone"]
    /\ host' = [host EXCEPT ![k] = None] /\ token' = [token EXCEPT ![k] = None]
    /\ joined' = [joined EXCEPT ![k] = {}] /\ authed' = [authed EXCEPT ![k] = FALSE]
    /\ excused' = excused \ {k}
    /\ UNCHANGED drops

\* connectionCount() is below the limit: others may be between this check and
\* their registration.
HasRoom(i) == total[i] < MaxConnections

\* preflightUpgrade and extractToken; the token is about to be looked up.
Upgrade(k, i, t) ==
    /\ stage[k] = "new" /\ t \in issued
    /\ HasRoom(i)
    /\ stage' = [stage EXCEPT ![k] = "verify"]
    /\ host' = [host EXCEPT ![k] = i]
    /\ token' = [token EXCEPT ![k] = t]
    /\ authed' = [authed EXCEPT ![k] = TRUE]
    /\ UNCHANGED <<auth, registry, pubsub, joined, history>>

\* verifySessionToken reads at:<sid>, and returns null if it has no such token.
Verify(k) ==
    /\ stage[k] = "verify"
    /\ stage' = [stage EXCEPT ![k] = "register"]
    /\ token' = [token EXCEPT ![k] = IF at[SessionOf[@]] = @ THEN @ ELSE None]
    /\ UNCHANGED <<auth, registry, pubsub, host, joined, authed, history>>

\* A slip: a refused upgrade gives its place back.
RejectAndUncount(k) ==
    /\ stage[k] \in {"verify", "register"}
    /\ Forget(k)
    /\ total' = [total EXCEPT ![host[k]] = @ - 1]
    /\ UNCHANGED <<auth, users, public, rooms, pubsub>>

\* The lookup throws, or the client goes away: rejectUpgrade.
RejectUpgrade(k) ==
    /\ stage[k] \in {"verify", "register"}
    /\ Forget(k)
    /\ UNCHANGED <<auth, registry, pubsub>>

AddUserConnection(k, i, u) ==
    /\ users' = [users EXCEPT ![i][u] = @ \cup {k}]
    /\ total' = [total EXCEPT ![i] = @ + 1]
    /\ UNCHANGED <<public, rooms>>

AddPublicConnection(k, i) ==
    /\ public' = [public EXCEPT ![i] = @ \cup {k}]
    /\ total' = [total EXCEPT ![i] = @ + 1]
    /\ UNCHANGED <<users, rooms>>

\* The handshake and handleConnection: the first socket of a user subscribes.
HandleConnection(k) ==
    /\ stage[k] = "register"
    /\ stage' = [stage EXCEPT ![k] = "open"]
    /\ IF token[k] # None
         THEN LET u == UserOf[SessionOf[token[k]]]
              IN  /\ Send(host[k], "subscribe", IF users[host[k]][u] = {} THEN {u} ELSE {})
                  /\ AddUserConnection(k, host[k], u)
         ELSE AddPublicConnection(k, host[k]) /\ UNCHANGED sent
    /\ UNCHANGED <<auth, up, subs, prior, inbox, host, token, joined, authed, history>>

\* The public path looks nothing up.
UpgradePublic(k, i) ==
    /\ stage[k] = "new"
    /\ HasRoom(i)
    /\ stage' = [stage EXCEPT ![k] = "open"]
    /\ host' = [host EXCEPT ![k] = i]
    /\ AddPublicConnection(k, i)
    /\ UNCHANGED <<auth, pubsub, token, joined, authed, history>>

-----------------------------------------------------------------------------
(* Rooms (websocket/messageRouter.ts).  Messages are handled while a socket *)
(* is closing, too.                                                         *)

Listening(k) == stage[k] \in {"open", "closing"}

\* The room, for its first local member.
OpenedBy(k, r) == IF rooms[host[k]][r] = {} THEN {r} ELSE {}

\* room.join, whose membership check is answered before any other callback runs.
JoinRoom(k, r) ==
    /\ Listening(k) /\ token[k] # None
    /\ r \notin joined[k] /\ Len(sent[host[k]]) < MaxQueue
    /\ Send(host[k], "subscribe", OpenedBy(k, r))
    /\ rooms' = [rooms EXCEPT ![host[k]][r] = @ \cup {k}]
    /\ joined' = [joined EXCEPT ![k] = @ \cup {r}]
    /\ UNCHANGED <<auth, total, users, public, up, subs, prior, inbox, stage, host, token,
                   authed, history>>

\* A slip: whoever leaves takes the subscription along.
AllOf(k, rs) == rs

\* The rooms of rs that k is the last local member of.
EmptiedBy(k, rs) == {r \in rs : rooms[host[k]][r] = {k}}

\* room.leave.
LeaveRoom(k, r) ==
    /\ Listening(k)
    /\ r \in joined[k] /\ Len(sent[host[k]]) < MaxQueue
    /\ Send(host[k], "unsubscribe", EmptiedBy(k, {r}))
    /\ rooms' = [rooms EXCEPT ![host[k]][r] = @ \ {k}]
    /\ joined' = [joined EXCEPT ![k] = @ \ {r}]
    /\ UNCHANGED <<auth, total, users, public, up, subs, prior, inbox, stage, host, token,
                   authed, history>>

\* Redis PUBLISH: every instance that is subscribed gets the message.
Reached(channel) == {i \in Instances : up[i] /\ channel \in subs[i]}

Publish(channel, message) ==
    inbox' = [i \in Instances |->
                IF i \in Reached(channel) THEN inbox[i] \cup {message} ELSE inbox[i]]

\* room.message: the message is saved, then published for everybody but k (bound:
\* one delivery on its way at a time).
RoomMessage(k, r) ==
    /\ Listening(k) /\ r \in joined[k]
    /\ \A i \in Instances : inbox[i] \cap Deliveries = {}
    /\ Publish(r, [room |-> r, except |-> k])
    /\ UNCHANGED <<auth, registry, up, sent, subs, prior, socket, history>>

\* sendToRoom: a member that reads too slowly is terminated.
Deliver(i, d) ==
    /\ d \in inbox[i] \cap Deliveries
    /\ inbox' = [inbox EXCEPT ![i] = @ \ {d}]
    /\ \E slow \in SUBSET {k \in rooms[i][d.room] \ {d.except} : stage[k] = "open"} :
         stage' = [k \in Ids |-> IF k \in slow THEN "closing" ELSE stage[k]]
    /\ UNCHANGED <<auth, registry, up, sent, subs, prior, host, token, joined, authed, history>>

-----------------------------------------------------------------------------
(* The end of a socket.                                                    *)

\* The client closes or stops answering pings (ws.terminate).
Hangup(k) ==
    /\ stage[k] = "open"
    /\ stage' = [stage EXCEPT ![k] = "closing"]
    /\ UNCHANGED <<auth, registry, pubsub, host, token, joined, authed, history>>

\* A slip: a session that can renew its token needs no closing.
NeverExpired(k) == FALSE

\* ws.userExp has passed.
Expired(k) == token[k] \in past

\* One pass of the heartbeat of an instance.
Heartbeat(i) ==
    /\ \E k \in Ids : host[k] = i /\ stage[k] = "open" /\ Expired(k)
    /\ stage' = [k \in Ids |-> IF host[k] = i /\ stage[k] = "open" /\ Expired(k)
                                 THEN "closing" ELSE stage[k]]
    /\ UNCHANGED <<auth, registry, pubsub, host, token, joined, authed, history>>

\* A slip: the rooms are left to expire.
KeepRooms(k) == rooms

\* leaveAllRooms.
LeaveAllRooms(k) ==
    [rooms EXCEPT ![host[k]] = [r \in Rooms |-> IF r \in joined[k] THEN @[r] \ {k} ELSE @[r]]]

RemoveUserConnection(k, i, u) ==
    /\ users' = [users EXCEPT ![i][u] = @ \ {k}]
    /\ total' = [total EXCEPT ![i] = @ - 1]
    /\ UNCHANGED public

RemovePublicConnection(k, i) ==
    /\ public' = [public EXCEPT ![i] = @ \ {k}]
    /\ total' = [total EXCEPT ![i] = @ - 1]
    /\ UNCHANGED users

\* hasLocalUser is false once k is removed.
WasLast(k, u) == users[host[k]][u] = {k}

\* The close event: rooms, registries and subscriptions are given back.
Close(k) ==
    /\ stage[k] = "closing"
    /\ Forget(k)
    /\ rooms' = LeaveAllRooms(k)
    /\ IF token[k] # None
         THEN LET u == UserOf[SessionOf[token[k]]]
              IN  /\ RemoveUserConnection(k, host[k], u)
                  /\ Send(host[k], "unsubscribe",
                          EmptiedBy(k, joined[k]) \cup {v \in {u} : WasLast(k, v)})
         ELSE RemovePublicConnection(k, host[k]) /\ UNCHANGED sent
    /\ UNCHANGED <<auth, up, subs, prior, inbox>>

-----------------------------------------------------------------------------
(* The token of a session, and its revocation: logout and reuse of one      *)
(* session, a new password for all.                                         *)

\* issueAccessToken, of a login or a renewal.  It asks nothing about the session, which
\* may have been revoked since its row was inserted or rotated.
IssueAccessToken(t) ==
    /\ t \notin issued
    /\ issued' = issued \cup {t}
    /\ at' = [at EXCEPT ![SessionOf[t]] = t]
    /\ late' = late \cup {x \in {t} : SessionOf[x] \in ended}
    /\ UNCHANGED <<past, ended, due, registry, pubsub, socket, history>>

\* The token's exp passes; at:<sid> goes with it.
TokenExpires(t) ==
    /\ t \in issued \ past
    /\ past' = past \cup {t}
    /\ at' = [s \in Sessions |-> IF at[s] = t THEN None ELSE at[s]]
    /\ UNCHANGED <<issued, ended, late, due, registry, pubsub, socket, history>>

\* There is a row, which a login may have inserted before it issues a token, or a token
\* (bound: nothing else is revoked).
SignedIn(s) == s \notin ended \/ at[s] # None

Revoke(ss, d) ==
    /\ at' = [s \in Sessions |-> IF s \in ss THEN None ELSE at[s]]
    /\ ended' = ended \cup ss
    /\ late' = {t \in late : SessionOf[t] \notin ss}
    /\ due' = due \cup {d}
    /\ UNCHANGED <<issued, past, registry, pubsub, socket, history>>

\* By a client that holds a token of the session.
Logout(s) ==
    /\ SignedIn(s) /\ \E t \in issued : SessionOf[t] = s
    /\ Revoke({s}, [user |-> UserOf[s], session |-> s])

\* deleteAllSessions names the sessions that had a row; the message is for all.
ChangePassword(u) ==
    /\ \E s \in Sessions : UserOf[s] = u /\ SignedIn(s)
    /\ Revoke({s \in Sessions \ ended : UserOf[s] = u}, [user |-> u, session |-> None])

\* Sockets a message on the way now will not find: on an instance that is not
\* subscribed, or verified and not yet registered.
Missed(d) ==
    {k \in Targets(d) : stage[k] = "register" \/ host[k] \notin Reached(d.user)}

\* disconnectSocketConnection, disconnectUser.
PublishDisconnect(d) ==
    /\ d \in due
    /\ due' = due \ {d}
    /\ Publish(d.user, d)
    /\ excused' = excused \cup Missed(d)
    /\ UNCHANGED <<at, issued, past, ended, late, registry, up, sent, subs, prior, socket, drops>>

\* It throws, and the caller goes on; or the caller's process ends before it.
LoseDisconnect(d) ==
    /\ d \in due
    /\ due' = due \ {d}
    /\ excused' = excused \cup Targets(d)
    /\ UNCHANGED <<at, issued, past, ended, late, registry, pubsub, socket, drops>>

\* A slip: the first matching socket is closed.
FirstTarget(i, d) ==
    LET found == {k \in users[i][d.user] \cap Targets(d) : stage[k] = "open"}
    IN  IF found = {} THEN {} ELSE {CHOOSE k \in found : TRUE}

\* closeSession, closeUser: what routeEnvelope finds among the local sockets.
LocalTargets(i, d) == {k \in users[i][d.user] \cap Targets(d) : stage[k] = "open"}

Disconnect(i, d) ==
    /\ d \in inbox[i] \cap Disconnects
    /\ inbox' = [inbox EXCEPT ![i] = @ \ {d}]
    /\ stage' = [k \in Ids |-> IF k \in LocalTargets(i, d) THEN "closing" ELSE stage[k]]
    /\ UNCHANGED <<auth, registry, up, sent, subs, prior, host, token, joined, authed, history>>

-----------------------------------------------------------------------------
Next ==
    \/ \E i \in Instances :
        \/ Execute(i) \/ LoseSubscriber(i) \/ Ready(i) \/ Heartbeat(i)
        \/ \E m \in inbox[i] : Deliver(i, m) \/ Disconnect(i, m)
    \/ \E k \in Ids :
        \/ \E i \in Instances : UpgradePublic(k, i) \/ \E t \in Tokens : Upgrade(k, i, t)
        \/ Verify(k) \/ RejectUpgrade(k) \/ HandleConnection(k) \/ Hangup(k) \/ Close(k)
        \/ \E r \in Rooms : JoinRoom(k, r) \/ LeaveRoom(k, r) \/ RoomMessage(k, r)
    \/ \E t \in Tokens : IssueAccessToken(t) \/ TokenExpires(t)
    \/ \E s \in Sessions : Logout(s)
    \/ \E u \in Users : ChangePassword(u)
    \/ \E d \in due : PublishDisconnect(d) \/ LoseDisconnect(d)

Spec == Init /\ [][Next]_vars

\* Clocks go on, the heartbeat is a timer, and ws ends the closing handshake of
\* a silent peer after a timeout of its own.
Fairness ==
    /\ \A t \in Tokens : WF_vars(TokenExpires(t))
    /\ \A i \in Instances : WF_vars(Heartbeat(i))
    /\ \A k \in Ids : WF_vars(Close(k))

FairSpec == Spec /\ Fairness

-----------------------------------------------------------------------------
(* Properties.                                                             *)

Registered(k) ==
    \/ token[k] = None /\ k \in public[host[k]]
    \/ token[k] # None /\ k \in users[host[k]][UserOf[SessionOf[token[k]]]]

\* The count that sheds load, the maps and the rooms agree with the sockets that
\* are there: nothing is counted twice or kept, in whatever order sockets close,
\* are terminated and leave rooms (connectionManager.ts).
RegistriesAgree ==
    /\ \A i \in Instances :
        total[i] = Cardinality({k \in Ids : host[k] = i /\ Listening(k)})
    /\ \A k \in Ids : Listening(k) => Registered(k)
    /\ \A i \in Instances, r \in Rooms :
        rooms[i][r] = {k \in Ids : host[k] = i /\ Listening(k) /\ r \in joined[k]}

\* Once Redis has executed what a connected instance sent, the instance is
\* subscribed for every user and room it has a socket of: first and last sockets,
\* reconnects and commands given up leave none of them out (subscriber.ts:46-49).
HostedAreSubscribed ==
    \A i \in Instances : up[i] /\ sent[i] = <<>> => Hosted(i) \subseteq subs[i]

\* Its session was revoked.
Revoked(k) == token[k] # None /\ SessionOf[token[k]] \in ended

\* A socket of a revoked session stays open only while the message is due or on
\* its way, or if no message could find it: it had been verified and was not yet
\* registered, its instance was not subscribed, or the message was lost; or if it
\* came with a token that a login or renewal in flight wrote to at:<sid> after the
\* session was revoked, and that nobody has deleted since (renewSession.ts:74-90).
RevokedSocketsExplained ==
    \A k \in Ids :
        stage[k] = "open" /\ Revoked(k) =>
            \/ token[k] \in late
            \/ k \in excused
            \/ \E d \in (due \cup inbox[host[k]]) \cap Disconnects : k \in Targets(d)

\* Whatever the messages missed, and whatever token it came with, no socket of a
\* revoked session outlives its token for long (the heartbeat, server.ts:212-215).
RevokedSocketsEnd ==
    \A k \in Ids : (stage[k] = "open" /\ Revoked(k)) ~> (stage[k] = "gone")

\* What verifySessionToken.ts:13-14 says, and handleConnection does not do: an upgrade
\* with an unusable token is a rejected request.  It is registered as a public socket.
UnusableTokensAreRejected ==
    \A k \in Ids : stage[k] = "open" /\ authed[k] => token[k] # None
-----------------------------------------------------------------------------
(* What holds in every state besides: the inductive invariant.             *)

\* A socket has no token before its upgrade, an instance from then on, and no rooms
\* before it is registered.
Placed ==
    \A k \in Ids :
        /\ stage[k] = "new" => token[k] = None
        /\ stage[k] \in {"verify", "register"} \/ Listening(k) => host[k] \in Instances
        /\ ~Listening(k) => joined[k] = {}

\* c is not given up by what i sent after its n-th command.
Stays(i, c, n) ==
    \A m \in (n + 1)..Len(sent[i]) :
        sent[i][m].op = "unsubscribe" => c \notin sent[i][m].channels

\* i is subscribed for c once Redis has executed all it sent.
Settled(i, c) ==
    \/ c \in subs[i] /\ Stays(i, c, 0)
    \/ \E n \in 1..Len(sent[i]) :
        sent[i][n].op = "subscribe" /\ c \in sent[i][n].channels /\ Stays(i, c, n)

HostedWillBeSubscribed == \A i \in Instances : up[i] => \A c \in Hosted(i) : Settled(i, c)

\* A session revoked between the look-up and the registration of its socket is known
\* to a message that is due, or no message will find the socket, or the look-up found a
\* token that was written later.
RevokedOnTheWay ==
    \A k \in Ids :
        stage[k] = "register" /\ Revoked(k) =>
            token[k] \in late \/ k \in excused \/ \E d \in due : k \in Targets(d)

\* What at:<sid> still holds of a revoked session was written after the revocation.
StoredIsLate == \A s \in ended : at[s] # None => at[s] \in late

\* A token is stored under the id of its session.
StoredInPlace == \A s \in Sessions : at[s] # None => SessionOf[at[s]] = s

\* What an instance counts can be counted.
FinitelyMany == \A i \in Instances : IsFiniteSet({k \in Ids : host[k] = i /\ Listening(k)})

IInv ==
    /\ TypeOK /\ Placed /\ FinitelyMany /\ RegistriesAgree
    /\ HostedWillBeSubscribed /\ RevokedOnTheWay /\ RevokedSocketsExplained
    /\ StoredIsLate /\ StoredInPlace
=============================================================================
