----------------------------- MODULE Lifecycle -----------------------------
(***************************************************************************)
(* The life of a web process: boot (init.ts, bootApp.ts, startup/), the    *)
(* flags of utils/serviceState.ts that gate every request                  *)
(* (serviceAvailability.ts) and that client libraries and /health          *)
(* (routes/healthRoute.ts) write independently of each other, and the      *)
(* drain and teardown that a signal starts (server.ts).                    *)
(*                                                                         *)
(* Connections are counted; a request whose client is gone may go on       *)
(* running in the process.  A service is up when it answers within the     *)
(* health timeout.                                                         *)
(***************************************************************************)
EXTENDS Naturals, Sequences, FiniteSets

CONSTANTS Services,      \* the stores of this instance
          Probes,        \* /health requests that may be under way at a time
          MaxConns,      \* bound: connections, WebSockets among them
          MaxDown        \* bound: services that are down at a time

ASSUME LifecycleAssumption ==
    /\ Services \subseteq {"postgres", "redis", "mongo"}
    /\ MaxConns \in Nat /\ MaxDown \in Nat

VARIABLES
    phase,     \* boot, serving, closing, teardown, exited
    step,      \* how far boot or teardown has got
    exit,      \* how the process ended
    graced,    \* closeAllConnections has run
    \* services and their clients
    up,
    link,      \* what the client library has: a connection, a broken one, none
    flag,      \* serviceState
    probe,     \* the pings of each /health request
    \* connections
    active,    \* with a request
    kept,      \* kept alive, without one
    sockets    \* WebSocket connections

process  == <<phase, step, exit, graced>>
services == <<up, link, flag, probe>>
conns    == <<active, kept, sockets>>
processVars == <<process, services, conns>>

Present(order) == SelectSeq(order, LAMBDA s :
    s \notin {"postgres", "redis", "mongo"} \ Services)

\* initCoreServices, runStartupTasks and initWsPubsub, in order.
BootOrder == Present(<<"keys", "postgres", "redis", "mongo", "mqtt", "tasks", "pubsub">>)

\* closeWsPubsub and teardown, in order.
TeardownOrder == Present(<<"pubsub", "queue", "mqtt", "postgres", "redis", "mongo">>)

FewAreDown == Cardinality({s \in Services : ~up[s]}) <= MaxDown

NoPings == [s \in Services |-> "idle"]

ProcessTypeOK ==
    /\ phase \in {"boot", "serving", "closing", "teardown", "exited"}
    /\ step \in 0..(Len(BootOrder) + Len(TeardownOrder))
    /\ exit \in {"none", "ok", "error", "killed"} /\ (exit = "none") = (phase # "exited")
    /\ graced \in BOOLEAN
    /\ up \in [Services -> BOOLEAN] /\ flag \in [Services -> BOOLEAN]
    /\ link \in [Services -> {"none", "connected", "broken"}]
    /\ probe \in [Probes -> [Services -> {"idle", "waiting", "ok", "failed"}]]
    /\ \A h \in Probes : probe[h] = NoPings \/ \A s \in Services : probe[h][s] # "idle"
    /\ {active, kept, sockets} \subseteq Nat /\ active + kept + sockets <= MaxConns

ProcessInit ==
    /\ phase = "boot" /\ step = 1 /\ exit = "none" /\ graced = FALSE
    /\ up \in [Services -> BOOLEAN] /\ FewAreDown
    /\ link = [s \in Services |-> "none"]
    /\ flag = [s \in Services |-> FALSE]
    /\ probe = [h \in Probes |-> NoPings]
    /\ active = 0 /\ kept = 0 /\ sockets = 0

-----------------------------------------------------------------------------
(* Boot.                                                                   *)

Exit(how) ==
    /\ phase' = "exited" /\ step' = 0 /\ exit' = how /\ graced' = FALSE
    /\ link' = [s \in Services |-> "none"]
    /\ flag' = [s \in Services |-> FALSE]
    /\ probe' = [h \in Probes |-> NoPings]
    /\ active' = 0 /\ kept' = 0 /\ sockets' = 0
    /\ UNCHANGED up

\* connectPostgres, connectRedis, connectMongo, and the steps that need no store;
\* a broker that does not answer is not waited for.
BootStep ==
    /\ phase = "boot"
    /\ LET s == BootOrder[step] IN
       IF s \in Services
         THEN up[s] /\ flag' = [flag EXCEPT ![s] = TRUE] /\ link' = [link EXCEPT ![s] = "connected"]
         ELSE UNCHANGED <<flag, link>>
    /\ IF step = Len(BootOrder)
         THEN phase' = "serving" /\ step' = 0
         ELSE step' = step + 1 /\ UNCHANGED phase
    /\ UNCHANGED <<exit, graced, up, probe, conns>>

Booting(s) == phase = "boot" /\ BootOrder[step] = s

\* A store that does not answer ends the process.
ConnectFails == \E s \in Services : Booting(s) /\ ~up[s] /\ Exit("error")

\* So does a startup task that fails; all of them are critical.
StartupFails == Booting("tasks") /\ Exit("error")

\* unexpectedErrorHandler: what throws outside those sends SIGTERM, which nothing
\* handles yet.
BootThrows == Booting("keys") /\ Exit("killed")

-----------------------------------------------------------------------------
(* Services and the flags.                                                 *)

Running == phase \in {"serving", "closing", "teardown"}

Torn == IF phase = "teardown" THEN {TeardownOrder[i] : i \in 1..(step - 1)} ELSE {}

ServiceFails(s) ==
    /\ up[s]
    /\ up' = [up EXCEPT ![s] = FALSE] /\ FewAreDown'
    /\ link' = [link EXCEPT ![s] = IF @ = "connected" THEN "broken" ELSE @]
    /\ UNCHANGED <<process, flag, probe, conns>>

ServiceReturns(s) ==
    /\ ~up[s]
    /\ up' = [up EXCEPT ![s] = TRUE]
    /\ UNCHANGED <<process, link, flag, probe, conns>>

SetFlag(s, b) == flag' = [flag EXCEPT ![s] = b]

\* pg emits "error" for an idle connection that breaks, ioredis for that and for
\* every attempt to connect that fails.
ConnectionError(s) ==
    /\ phase \in {"boot", "serving", "closing", "teardown"} /\ s \notin Torn
    /\ s \in {"postgres", "redis"}
    /\ link[s] = "broken" \/ (s = "redis" /\ link[s] = "none" /\ ~up[s] /\ Running)
    /\ link' = [link EXCEPT ![s] = "none"]
    /\ SetFlag(s, FALSE)
    /\ UNCHANGED <<process, up, probe, conns>>

\* ioredis connects again by itself and is ready.
RedisReady ==
    /\ "redis" \in Services \ Torn /\ Running
    /\ link["redis"] = "none" /\ up["redis"]
    /\ link' = [link EXCEPT !["redis"] = "connected"]
    /\ SetFlag("redis", TRUE)
    /\ UNCHANGED <<process, up, probe, conns>>

\* The heartbeats of the Mongo driver, whatever its connections do.
MongoHeartbeat ==
    /\ "mongo" \in Services \ Torn /\ Running
    /\ flag["mongo"] # up["mongo"] \/ link["mongo"] = "broken"
    /\ SetFlag("mongo", up["mongo"])
    /\ link' = [link EXCEPT !["mongo"] = "connected"]
    /\ UNCHANGED <<process, up, probe, conns>>

\* A query that needs a connection of the pool opens one, and the pool says so.
PoolConnects(s) ==
    IF s = "postgres" /\ up[s] /\ link[s] = "none"
      THEN link' = [link EXCEPT ![s] = "connected"] /\ SetFlag(s, TRUE)
      ELSE UNCHANGED <<link, flag>>

-----------------------------------------------------------------------------
(* GET /health.                                                            *)

\* A slip: one service is never asked.
AllButRedis == [s \in Services |-> IF s = "redis" THEN "idle" ELSE "waiting"]

Pings == [s \in Services |-> "waiting"]

ProbeStarts(h) ==
    /\ phase = "serving" /\ probe[h] = NoPings
    /\ probe' = [probe EXCEPT ![h] = Pings]
    /\ UNCHANGED <<process, up, link, flag, conns>>

\* pingService: an error, a client that is not there and the timeout are failures.
Ping(h, s) ==
    /\ Running /\ probe[h][s] = "waiting"
    /\ IF up[s] /\ link[s] # "broken" /\ s \notin Torn
         THEN probe' = [probe EXCEPT ![h][s] = "ok"] /\ PoolConnects(s)
         ELSE probe' = [probe EXCEPT ![h][s] = "failed"] /\ UNCHANGED <<link, flag>>
    /\ UNCHANGED <<process, up, conns>>

\* A slip: a probe only ever lowers the flags.
OnlyLower(h) == [s \in Services |-> flag[s] /\ probe[h][s] = "ok"]

Findings(h) == [s \in Services |-> probe[h][s] = "ok"]

\* When all three are in, they overwrite the flags.
ProbeEnds(h) ==
    /\ Running /\ \A s \in Services : probe[h][s] \in {"ok", "failed"}
    /\ flag' = Findings(h)
    /\ probe' = [probe EXCEPT ![h] = NoPings]
    /\ UNCHANGED <<process, up, link, conns>>

-----------------------------------------------------------------------------
(* Requests and sockets.                                                   *)

\* serviceAvailability.
Available == \A s \in Services : flag[s]

\* A request on a new connection; one that is turned away leaves it open.
Arrive ==
    /\ phase = "serving" /\ active + kept + sockets < MaxConns
    /\ IF Available THEN active' = active + 1 /\ UNCHANGED kept
                    ELSE kept' = kept + 1 /\ UNCHANGED active
    /\ UNCHANGED <<process, services, sockets>>

\* A request on a connection that was kept alive: the server need not be listening.
Reuse ==
    /\ Running /\ kept > 0 /\ Available
    /\ kept' = kept - 1 /\ active' = active + 1
    /\ UNCHANGED <<process, services, sockets>>

\* A request, or what is left of one, needs the pool.
Query ==
    /\ Running
    /\ "postgres" \in Services \ Torn /\ PoolConnects("postgres")
    /\ UNCHANGED <<process, up, probe, conns>>

Answer(keep) ==
    /\ active > 0
    /\ active' = active - 1 /\ kept' = IF keep THEN kept + 1 ELSE kept
    /\ UNCHANGED <<process, services, sockets>>

ClientLeaves ==
    /\ \/ active > 0 /\ active' = active - 1 /\ UNCHANGED kept
       \/ kept > 0 /\ kept' = kept - 1 /\ UNCHANGED active
    /\ UNCHANGED <<process, services, sockets>>

SocketOpens ==
    /\ phase = "serving" /\ active + kept + sockets < MaxConns /\ sockets' = sockets + 1
    /\ UNCHANGED <<process, services, active, kept>>

\* The client leaves, or answers the close frame of shutdown.
SocketCloses ==
    /\ sockets > 0 /\ sockets' = sockets - 1
    /\ UNCHANGED <<process, services, active, kept>>

-----------------------------------------------------------------------------
(* Shutdown.                                                               *)

\* SIGTERM, SIGINT, or the SIGTERM unexpectedErrorHandler sends: shutdown once it is
\* installed, and only once; before that the default ends the process.
Signal ==
    \/ /\ phase = "serving"
       /\ phase' = "closing" /\ kept' = 0
       /\ UNCHANGED <<step, exit, graced, services, active, sockets>>
    \/ phase = "boot" /\ Exit("killed")

\* A slip: connections that carry no request are not waited for.
NoRequests == active = 0 /\ sockets = 0

\* When httpServer.close calls back.
Drained == active = 0 /\ kept = 0 /\ sockets = 0

TeardownStarts ==
    /\ phase = "closing" /\ Drained
    /\ phase' = "teardown" /\ step' = 1
    /\ UNCHANGED <<exit, graced, services, conns>>

\* Every disconnect swallows its own failure.
TeardownStep ==
    /\ phase = "teardown"
    /\ IF step = Len(TeardownOrder) + 1
         THEN Exit("ok")
         ELSE /\ step' = step + 1
              /\ UNCHANGED <<phase, exit, graced, services, conns>>

\* closeAllConnections, 20 s after the signal: it cuts connections, not handlers, and
\* has no hold on upgraded ones.
Grace ==
    /\ phase \in {"closing", "teardown"} /\ ~graced
    /\ graced' = TRUE
    /\ active' = 0 /\ kept' = 0
    /\ UNCHANGED <<phase, step, exit, services, sockets>>

\* A slip: the hard exit waits for the drain.
ExitWhenDrained == Drained

\* The timer of the hard exit is unconditional.
ExitNow == TRUE

\* 25 s after the signal.
HardExit == graced /\ ExitNow /\ Exit("error")

-----------------------------------------------------------------------------
ProcessNext ==
    \/ BootStep \/ ConnectFails \/ StartupFails \/ BootThrows
    \/ \E s \in Services : ServiceFails(s) \/ ServiceReturns(s) \/ ConnectionError(s)
    \/ RedisReady \/ MongoHeartbeat
    \/ \E h \in Probes : ProbeStarts(h) \/ ProbeEnds(h) \/ \E s \in Services : Ping(h, s)
    \/ Arrive \/ Reuse \/ Query \/ ClientLeaves
    \/ \E keep \in BOOLEAN : Answer(keep)
    \/ SocketOpens \/ SocketCloses
    \/ Signal \/ TeardownStarts \/ TeardownStep \/ Grace \/ HardExit

ProcessSpec == ProcessInit /\ [][ProcessNext]_processVars

\* The load balancer keeps asking for /health (healthRoute.ts:44-45), every ping ends
\* (checkWithTimeout), connection errors and ready events arrive, the drivers go on
\* trying, and timers fire.  Clients, requests, disconnects and boot may hang.
Fairness ==
    /\ \A h \in Probes :
        /\ WF_processVars(ProbeStarts(h)) /\ WF_processVars(ProbeEnds(h))
        /\ \A s \in Services : WF_processVars(Ping(h, s))
    /\ \A s \in Services : WF_processVars(ConnectionError(s))
    /\ WF_processVars(RedisReady) /\ WF_processVars(MongoHeartbeat)
    /\ WF_processVars(Grace) /\ WF_processVars(HardExit)

FairSpec == ProcessSpec /\ Fairness
-----------------------------------------------------------------------------
(* Properties.                                                             *)

\* A store is disconnected only when no client waits for a request and none could
\* send one: not on a new connection, a kept one, or a socket (server.ts:59-80).  A
\* request that is left running then is one whose client had left or was cut off.
StoresOutliveRequests == Torn # {} => active = 0 /\ kept = 0 /\ sockets = 0

\* A process that has been told to stop stops, whatever hangs (server.ts:86-90).
ShutdownEnds == (phase = "closing") ~> (phase = "exited")

\* What server.ts:82-83 says of closeAllConnections: stragglers are closed so that the
\* close callback can fire, and the hard exit is left for a teardown that hangs.  It
\* has no hold on upgraded connections: one WebSocket client that never answers the
\* close frame is enough for a hard exit with every store still connected.
StragglersAreClosed == [][HardExit => Drained]_processVars

\* The gate follows the services: when a service has come back for good its flag
\* comes back, with Postgres too, whose pool would only notice in a request the gate
\* turns away; and when it has gone for good the flag goes, however probes that took
\* their pings earlier and events that come late write over each other.
FlagsSettle ==
    \A s \in Services :
        /\ <>[](phase = "serving" /\ up[s]) => <>[]flag[s]
        /\ <>[](phase = "serving" /\ ~up[s]) => <>[]~flag[s]
=============================================================================
