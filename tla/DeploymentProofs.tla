-------------------------- MODULE DeploymentProofs ---------------------------
(***************************************************************************)
(* Proofs about what an operator does to running processes: the rotation   *)
(* of the signing keys over rolling deployments (SigningKeys), for every   *)
(* set of keys and instances and every lifetime of tokens and copies, and  *)
(* the shutdown of a process (Lifecycle), for every set of stores.  The    *)
(* two share nothing.                                                      *)
(***************************************************************************)
EXTENDS SigningKeys, Lifecycle, TLAPS

-----------------------------------------------------------------------------
(* Rotation never leaves a token without a verifier.  Each action is shown *)
(* to keep IInv, one conjunct at a time.                                   *)

\* A key set is never the one of an instance that is down.
LEMMA DownIsNoKeySet == \A c \in KeySets : c # Down
BY DEF KeySets, Down

\* What an instance that is up has loaded is a key set.
LEMMA UpHasKeys ==
    ASSUME TypeOK, NEW i \in Up
    PROVE  i \in Instances /\ loaded[i] \in KeySets
BY DEF Up, TypeOK

LEMMA InitIInv == Init => IInv
<1> SUFFICES ASSUME Init PROVE IInv
    OBVIOUS
<1> USE SigningKeysAssumption
<1>0. config \in KeySets /\ config.keys = {FirstKey} /\ config.active = FirstKey
    BY DEF Init, KeySets
<1>1. TypeOK
    BY <1>0 DEF Init, TypeOK
<1>2. \A i \in Up : loaded[i] = config
    BY DEF Init, Up
<1>3. \A k \in Keys : ServedOrUsed(k) => k = FirstKey
    BY <1>0, <1>2 DEF Init, ServedOrUsed, InUse, getActiveKey
<1>4. UsedKeysAreConfigured
    BY <1>0, <1>3 DEF UsedKeysAreConfigured, ServedOrUsed
<1>5. UsedKeysAreLoaded
    BY <1>0, <1>3 DEF UsedKeysAreLoaded, Everywhere, publicJwkSetFrom, Init
<1> QED
    BY <1>1, <1>4, <1>5 DEF IInv, Init, ServedWasConfigured, CopyKnows

-----------------------------------------------------------------------------
(* The steps.                                                              *)

LEMMA StopKeeps ==
    ASSUME IInv, NEW i \in Instances, Stop(i)
    PROVE  IInv'
<1> USE SigningKeysAssumption DEF IInv
<1>1. \A j \in Instances : loaded'[j] = IF j = i THEN Down ELSE loaded[j]
    BY DEF Stop, TypeOK
<1>2. TypeOK'
    BY DEF Stop, TypeOK
<1>3. \A j \in Up' : j \in Up /\ loaded'[j] = loaded[j]
    BY <1>1 DEF Up
<1>4. \A k \in Keys : InUse(k)' => InUse(k)
    BY <1>3 DEF InUse, getActiveKey, Stop
<1>5. \A k \in Keys : ServedOrUsed(k)' => ServedOrUsed(k)
    BY <1>4 DEF ServedOrUsed, Stop
<1>6. UsedKeysAreConfigured'
    BY <1>4 DEF UsedKeysAreConfigured, Stop
<1>7. UsedKeysAreLoaded'
    BY <1>1, <1>5 DEF UsedKeysAreLoaded, Everywhere, publicJwkSetFrom
<1>8. CopyKnows'
    BY <1>4, <1>5 DEF CopyKnows, Stop
<1> QED
    BY <1>2, <1>6, <1>7, <1>8 DEF Stop, ServedWasConfigured

LEMMA InitJoseKeysKeeps ==
    ASSUME IInv, NEW i \in Instances, initJoseKeys(i)
    PROVE  IInv'
<1> USE SigningKeysAssumption DEF IInv
<1>1. \A j \in Instances : loaded'[j] = IF j = i THEN config ELSE loaded[j]
    BY DEF initJoseKeys, TypeOK
<1>2. TypeOK'
    BY DEF initJoseKeys, TypeOK
<1>3. \A j \in Up' : loaded'[j] = config \/ (j \in Up /\ loaded'[j] = loaded[j])
    BY <1>1 DEF Up
<1>4. \A k \in Keys : InUse(k)' => InUse(k)
    BY <1>3 DEF InUse, getActiveKey, initJoseKeys
<1>5. \A k \in Keys : ServedOrUsed(k)' => ServedOrUsed(k)
    BY <1>4 DEF ServedOrUsed, initJoseKeys
<1>6. UsedKeysAreConfigured'
    BY <1>4 DEF UsedKeysAreConfigured, initJoseKeys
<1>7. \A k \in Keys : ServedOrUsed(k) => k \in config.keys
    BY DEF UsedKeysAreConfigured, ServedOrUsed
<1>8. UsedKeysAreLoaded'
    BY <1>1, <1>5, <1>7 DEF UsedKeysAreLoaded, Everywhere, publicJwkSetFrom
<1>9. CopyKnows'
    BY <1>4, <1>5 DEF CopyKnows, initJoseKeys
<1> QED
    BY <1>2, <1>6, <1>8, <1>9 DEF initJoseKeys, ServedWasConfigured

LEMMA SignJwtKeeps ==
    ASSUME IInv, NEW i \in Instances, signJwt(i)
    PROVE  IInv'
<1> USE SigningKeysAssumption DEF IInv
<1>0. i \in Up /\ getActiveKey(i) \in Keys
    BY UpHasKeys DEF signJwt, getActiveKey, KeySets
<1>1. now + AccessTtl \in Nat
    BY DEF TypeOK
<1>2. TypeOK'
    BY <1>0, <1>1 DEF signJwt, TypeOK
<1>3. \A t \in tokens' : t \in tokens \/ t.kid = getActiveKey(i)
    BY DEF signJwt
<1>4. \A k \in Keys : InUse(k)' => InUse(k)
    BY <1>0, <1>3 DEF InUse, getActiveKey, signJwt, Up
<1>5. \A k \in Keys : ServedOrUsed(k)' => ServedOrUsed(k)
    BY <1>4 DEF ServedOrUsed, signJwt
<1>6. UsedKeysAreConfigured'
    BY <1>4 DEF UsedKeysAreConfigured, signJwt
<1>7. UsedKeysAreLoaded'
    BY <1>5 DEF UsedKeysAreLoaded, Everywhere, publicJwkSetFrom, signJwt
<1>8. CopyKnows'
    BY <1>4, <1>5 DEF CopyKnows, signJwt
<1> QED
    BY <1>2, <1>6, <1>7, <1>8 DEF signJwt, ServedWasConfigured

LEMMA GetJwksKeeps ==
    ASSUME IInv, NEW i \in Instances, getJwks(i)
    PROVE  IInv'
<1> USE SigningKeysAssumption DEF IInv
<1>0. i \in Up /\ loaded[i] \in KeySets
    BY UpHasKeys DEF getJwks
<1>1. now + MaxAge \in Nat
    BY DEF TypeOK
<1>2. cache' = [keys |-> loaded[i].keys, until |-> now + MaxAge]
    BY DEF getJwks, publicJwkSetFrom
<1>3. TypeOK'
    BY <1>0, <1>1, <1>2 DEF getJwks, TypeOK, KeySets
<1>4. \A k \in Keys : (InUse(k)' <=> InUse(k)) /\ (ServedOrUsed(k)' <=> ServedOrUsed(k))
    BY DEF InUse, ServedOrUsed, getActiveKey, getJwks, Up
<1>5. UsedKeysAreConfigured' /\ UsedKeysAreLoaded' /\ ServedWasConfigured'
    BY <1>4 DEF UsedKeysAreConfigured, UsedKeysAreLoaded, ServedWasConfigured, Everywhere,
                publicJwkSetFrom, getJwks
<1>6. \A k \in Keys : ServedOrUsed(k) => k \in cache'.keys
    BY <1>0, <1>2 DEF UsedKeysAreLoaded, Everywhere, publicJwkSetFrom, Up
<1>7. CopyKnows'
    BY <1>4, <1>6 DEF CopyKnows, ServedOrUsed
<1>8. (cache.until <= now + MaxAge)'
    BY <1>1, <1>2 DEF getJwks
<1> QED
    BY <1>3, <1>5, <1>7, <1>8

LEMMA PublishKeeps ==
    ASSUME IInv, NEW k \in Keys, Publish(k)
    PROVE  IInv'
<1> USE SigningKeysAssumption DEF IInv
<1>1. config'.active = config.active /\ config'.keys = config.keys \cup {k}
    BY DEF Publish, TypeOK, KeySets
<1>2. TypeOK'
  <2>1. config' \in KeySets
    BY DEF Publish, TypeOK, KeySets
  <2> QED
    BY <1>1, <2>1 DEF Publish, TypeOK
<1>3. served[k] = 0
    BY DEF Publish, ServedWasConfigured, TypeOK
<1>4. \A j \in Keys : InUse(j)' <=> InUse(j)
    BY <1>1 DEF InUse, getActiveKey, Publish, Up
<1>5. \A j \in Keys : ServedOrUsed(j)' => ServedOrUsed(j)
    BY <1>1, <1>3, <1>4 DEF ServedOrUsed, Publish
<1>6. UsedKeysAreConfigured'
    BY <1>1, <1>4 DEF UsedKeysAreConfigured
<1>7. UsedKeysAreLoaded'
    BY <1>5 DEF UsedKeysAreLoaded, Everywhere, publicJwkSetFrom, Publish
<1>8. CopyKnows'
    BY <1>4, <1>5 DEF CopyKnows, Publish
<1>9. ServedWasConfigured'
    BY DEF ServedWasConfigured, Publish
<1> QED
    BY <1>2, <1>6, <1>7, <1>8, <1>9 DEF Publish

LEMMA SeeServedKeeps ==
    ASSUME IInv, NEW k \in Keys, SeeServed(k)
    PROVE  IInv'
<1> USE SigningKeysAssumption DEF IInv
<1>1. \A j \in Keys : served'[j] = IF j = k THEN now ELSE served[j]
    BY DEF SeeServed, TypeOK
<1>2. TypeOK'
    BY DEF SeeServed, TypeOK
<1>3. \A j \in Keys : InUse(j)' <=> InUse(j)
    BY DEF InUse, getActiveKey, SeeServed, Up
<1>4. \A j \in Keys : ServedOrUsed(j)' => ServedOrUsed(j) \/ j = k
    BY <1>1, <1>3 DEF ServedOrUsed, SeeServed
<1>5. UsedKeysAreConfigured'
    BY <1>3 DEF UsedKeysAreConfigured, SeeServed
<1>6. UsedKeysAreLoaded'
    BY <1>4 DEF UsedKeysAreLoaded, Everywhere, publicJwkSetFrom, SeeServed
<1>7. ServedWasConfigured'
    BY <1>1 DEF ServedWasConfigured, SeeServed, TypeOK
<1>8. cache.until <= served'[k] + MaxAge
    BY <1>1
<1>9. CopyKnows'
  <2> SUFFICES ASSUME now < cache.until, NEW j \in Keys
               PROVE  /\ InUse(j)' => j \in cache.keys
                      /\ ServedOrUsed(j)' => j \in cache.keys \/ cache.until <= served'[j] + MaxAge
    BY DEF CopyKnows, SeeServed
  <2>1. InUse(j)' => j \in cache.keys
    BY <1>3 DEF CopyKnows
  <2>2. CASE j = k
    BY <1>8, <2>1, <2>2
  <2>3. CASE j # k
    BY <1>1, <1>4, <2>1, <2>3 DEF CopyKnows
  <2> QED
    BY <2>2, <2>3
<1> QED
    BY <1>2, <1>5, <1>6, <1>7, <1>9 DEF SeeServed

LEMMA PromoteKeeps ==
    ASSUME IInv, NEW k \in Keys, Promote(k)
    PROVE  IInv'
<1> USE SigningKeysAssumption DEF IInv
<1>1. config'.active = k /\ config'.keys = config.keys /\ k \in config.keys
    BY DEF Promote, TypeOK, KeySets
<1>2. TypeOK'
  <2>1. config' \in KeySets
    BY DEF Promote, TypeOK, KeySets
  <2> QED
    BY <1>1, <2>1 DEF Promote, TypeOK
<1>3. ServedOrUsed(k) /\ served[k] + MaxAge <= now
    BY DEF ServedOrUsed, Promote, Seen
<1>4. \A j \in Keys : InUse(j)' => InUse(j) \/ j = k
    BY <1>1 DEF InUse, getActiveKey, Promote, Up
<1>5. \A j \in Keys : ServedOrUsed(j)' => ServedOrUsed(j)
    BY <1>1, <1>3, <1>4 DEF ServedOrUsed, Promote
<1>6. UsedKeysAreConfigured'
    BY <1>1, <1>4 DEF UsedKeysAreConfigured
<1>7. UsedKeysAreLoaded'
    BY <1>5 DEF UsedKeysAreLoaded, Everywhere, publicJwkSetFrom, Promote
<1>8. CopyKnows'
  <2>1. now < cache.until => k \in cache.keys
    BY <1>3 DEF CopyKnows, TypeOK
  <2> QED
    BY <1>4, <1>5, <2>1 DEF CopyKnows, Promote
<1>9. ServedWasConfigured'
    BY DEF ServedWasConfigured, Promote
<1> QED
    BY <1>2, <1>6, <1>7, <1>8, <1>9 DEF Promote

LEMMA RetireKeeps ==
    ASSUME IInv, NEW k \in Keys, Retire(k)
    PROVE  IInv'
<1> USE SigningKeysAssumption DEF IInv
<1>1. config'.active = config.active /\ config'.keys = config.keys \ {k}
    BY DEF Retire, TypeOK, KeySets
<1>2. TypeOK'
  <2>1. config' \in KeySets
    BY DEF Retire, TypeOK, KeySets
  <2> QED
    BY <1>1, <2>1 DEF Retire, TypeOK
<1>3. ~InUse(k)
    BY DEF InUse, Retire
<1>4. \A j \in Keys : InUse(j)' <=> InUse(j)
    BY <1>1 DEF InUse, getActiveKey, Retire, Up
<1>5. \A j \in Keys : ServedOrUsed(j)' => ServedOrUsed(j)
    BY <1>1, <1>4 DEF ServedOrUsed, Retire
<1>6. UsedKeysAreConfigured'
    BY <1>1, <1>3, <1>4 DEF UsedKeysAreConfigured
<1>7. UsedKeysAreLoaded'
    BY <1>5 DEF UsedKeysAreLoaded, Everywhere, publicJwkSetFrom, Retire
<1>8. CopyKnows'
    BY <1>4, <1>5 DEF CopyKnows, Retire
<1>9. ServedWasConfigured'
    BY DEF ServedWasConfigured, Retire
<1> QED
    BY <1>2, <1>6, <1>7, <1>8, <1>9 DEF Retire

LEMMA TickKeeps ==
    ASSUME IInv, Tick
    PROVE  IInv'
<1> USE SigningKeysAssumption DEF IInv
<1>0. now' = now + 1 /\ now \in Nat /\ now' \in Nat
    BY DEF Tick, TypeOK
<1>1. tokens' \subseteq tokens
    BY DEF Tick
<1>2. TypeOK'
    BY <1>0, <1>1 DEF Tick, TypeOK
<1>3. \A k \in Keys : InUse(k)' => InUse(k)
    BY <1>1 DEF InUse, getActiveKey, Tick, Up
<1>4. \A k \in Keys : ServedOrUsed(k)' => ServedOrUsed(k)
    BY <1>3 DEF ServedOrUsed, Tick
<1>5. UsedKeysAreConfigured' /\ UsedKeysAreLoaded'
    BY <1>3, <1>4 DEF UsedKeysAreConfigured, UsedKeysAreLoaded, Everywhere, publicJwkSetFrom, Tick
<1>6. ServedWasConfigured'
    BY <1>0 DEF ServedWasConfigured, Tick, TypeOK
<1>7. cache \in [keys : SUBSET Keys, until : Nat]
    BY DEF TypeOK
<1>8. (now < cache.until)' => now < cache.until
    BY <1>0, <1>7 DEF Tick
<1>9. CopyKnows'
    BY <1>3, <1>4, <1>8 DEF CopyKnows, Tick
<1>10. (cache.until <= now + MaxAge)'
    BY <1>0, <1>7 DEF Tick
<1> QED
    BY <1>2, <1>5, <1>6, <1>9, <1>10

-----------------------------------------------------------------------------
(* The theorems.                                                           *)

LEMMA StepKeepsIInv == IInv /\ [Next]_vars => IInv'
<1> SUFFICES ASSUME IInv, [Next]_vars PROVE IInv'
    OBVIOUS
<1>1. CASE \E i \in Instances : Stop(i) \/ initJoseKeys(i) \/ signJwt(i) \/ getJwks(i)
    BY <1>1, StopKeeps, InitJoseKeysKeeps, SignJwtKeeps, GetJwksKeeps
<1>2. CASE \E k \in Keys : Publish(k) \/ SeeServed(k) \/ Promote(k) \/ Retire(k)
    BY <1>2, PublishKeeps, SeeServedKeeps, PromoteKeeps, RetireKeeps
<1>3. CASE Tick
    BY <1>3, TickKeeps
<1>4. CASE UNCHANGED vars
    BY <1>4 DEF vars, IInv, TypeOK, UsedKeysAreConfigured, UsedKeysAreLoaded, ServedWasConfigured,
                CopyKnows, InUse, ServedOrUsed, Everywhere, publicJwkSetFrom, getActiveKey, Up
<1> QED
    BY <1>1, <1>2, <1>3, <1>4 DEF Next

LEMMA Invariant == Spec => []IInv
BY InitIInv, StepKeepsIInv, PTL DEF Spec

\* Key sets always hold the key that is to sign, and only keys that were configured.
THEOREM TypeCorrect == Spec => []TypeOK
<1>1. IInv => TypeOK
    BY DEF IInv
<1> QED
    BY <1>1, Invariant, PTL

\* Every instance that is up verifies every access token until it expires, whatever
\* the order of deployments, crashes and rotations (jose.ts:91-97).
THEOREM EveryInstanceVerifies == Spec => []TokensAccepted
<1>1. IInv => TokensAccepted
  <2> SUFFICES ASSUME IInv, NEW i \in Up, NEW t \in tokens
               PROVE  Verifies(i, t)
    BY DEF TokensAccepted
  <2>1. t.kid \in Keys /\ ServedOrUsed(t.kid)
    BY DEF IInv, TypeOK, ServedOrUsed, InUse
  <2> QED
    BY <2>1 DEF IInv, UsedKeysAreLoaded, Everywhere, Verifies, Up
<1> QED
    BY <1>1, Invariant, PTL

\* A copy of the JWKS that is no older than max-age verifies them too
\* (appConfig.ts:98-101).
THEOREM CopiesVerify == Spec => []CopiesSuffice
<1>1. IInv => CopiesSuffice
    BY DEF IInv, TypeOK, CopyKnows, InUse, CopiesSuffice
<1> QED
    BY <1>1, Invariant, PTL

-----------------------------------------------------------------------------
(* The process: stores outlive requests.                                   *)

ConnectionsType == active \in Nat /\ kept \in Nat /\ sockets \in Nat

\* Once teardown has begun no connection is left, and none can come or carry a request.
NothingLeft == phase = "teardown" => active = 0 /\ kept = 0 /\ sockets = 0

ShutdownInv == ConnectionsType /\ NothingLeft

\* Whatever ends the process ends its connections.
LEMMA ExitLeavesNothing ==
  ASSUME NEW how, Exit(how)
  PROVE  ShutdownInv'
  BY DEF Exit, ShutdownInv, ConnectionsType, NothingLeft

\* Boot, services, their clients and health probes neither open connections nor start
\* a teardown.
LEMMA ServicesKeepShutdownInv ==
  ASSUME ShutdownInv,
         \/ BootStep
         \/ \E s \in Services : ServiceFails(s) \/ ServiceReturns(s) \/ ConnectionError(s)
         \/ RedisReady \/ MongoHeartbeat
         \/ \E h \in Probes : ProbeStarts(h) \/ ProbeEnds(h) \/ \E s \in Services : Ping(h, s)
         \/ Query
  PROVE  ShutdownInv'
  <1>1. UNCHANGED conns
    BY DEF BootStep, ServiceFails, ServiceReturns, ConnectionError, RedisReady, MongoHeartbeat,
           ProbeStarts, ProbeEnds, Ping, Query
  <1>2. phase' = phase \/ phase' = "serving"
    BY DEF BootStep, ServiceFails, ServiceReturns, ConnectionError, RedisReady, MongoHeartbeat,
           ProbeStarts, ProbeEnds, Ping, Query, process
  <1> QED BY <1>1, <1>2 DEF conns, ShutdownInv, ConnectionsType, NothingLeft

\* A new connection needs a server that listens, and a request one that was kept: in a
\* teardown there is neither.
LEMMA ConnectionsKeepShutdownInv ==
  ASSUME ShutdownInv,
         \/ Arrive \/ Reuse \/ ClientLeaves
         \/ \E keep \in BOOLEAN : Answer(keep)
         \/ SocketOpens \/ SocketCloses
  PROVE  ShutdownInv'
  <1>1. phase' = phase
    BY DEF Arrive, Reuse, ClientLeaves, Answer, SocketOpens, SocketCloses, process
  <1>2. CASE phase = "teardown"
    <2>1. active = 0 /\ kept = 0 /\ sockets = 0
      BY <1>2 DEF ShutdownInv, NothingLeft
    <2> QED BY <1>2, <2>1 DEF Arrive, Reuse, ClientLeaves, Answer, SocketOpens, SocketCloses
  <1>3. CASE phase # "teardown"
    <2>1. ConnectionsType'
      BY DEF ShutdownInv, ConnectionsType, Arrive, Reuse, ClientLeaves, Answer, SocketOpens,
             SocketCloses
    <2> QED BY <1>1, <1>3, <2>1 DEF ShutdownInv, NothingLeft
  <1> QED BY <1>2, <1>3

\* Teardown begins when the last connection has closed, and the grace only closes more.
LEMMA ShutdownKeepsShutdownInv ==
  ASSUME ShutdownInv,
         Signal \/ TeardownStarts \/ TeardownStep \/ Grace \/ HardExit
  PROVE  ShutdownInv'
  <1>1. CASE Signal
    <2>1. CASE phase = "boot" /\ Exit("killed")
      BY <2>1, ExitLeavesNothing
    <2>2. CASE phase' = "closing" /\ kept' = 0 /\ UNCHANGED <<active, sockets>>
      BY <2>2 DEF ShutdownInv, ConnectionsType, NothingLeft
    <2> QED BY <1>1, <2>1, <2>2 DEF Signal
  <1>2. CASE TeardownStarts
    BY <1>2 DEF TeardownStarts, Drained, conns, ShutdownInv, ConnectionsType, NothingLeft
  <1>3. CASE TeardownStep
    <2>1. CASE Exit("ok")
      BY <2>1, ExitLeavesNothing
    <2>2. CASE UNCHANGED <<phase, conns>>
      BY <2>2 DEF conns, ShutdownInv, ConnectionsType, NothingLeft
    <2> QED BY <1>3, <2>1, <2>2 DEF TeardownStep
  <1>4. CASE Grace
    BY <1>4 DEF Grace, ShutdownInv, ConnectionsType, NothingLeft
  <1>5. CASE HardExit
    BY <1>5, ExitLeavesNothing DEF HardExit
  <1> QED BY <1>1, <1>2, <1>3, <1>4, <1>5

\* Every step of the process keeps the invariant.
LEMMA StepKeepsShutdownInv ==
  ASSUME ShutdownInv, [ProcessNext]_processVars
  PROVE  ShutdownInv'
  <1>1. CASE ConnectFails \/ StartupFails \/ BootThrows
    BY <1>1, ExitLeavesNothing DEF ConnectFails, StartupFails, BootThrows
  <1>2. CASE UNCHANGED processVars
    BY <1>2 DEF processVars, process, conns, ShutdownInv, ConnectionsType, NothingLeft
  <1> QED
    BY <1>1, <1>2, ServicesKeepShutdownInv, ConnectionsKeepShutdownInv, ShutdownKeepsShutdownInv
       DEF ProcessNext

\* For every set of stores and number of connections, and whatever the stores, clients
\* and health probes do: no store is disconnected while a client waits for a request
\* or has a connection that could send one.
THEOREM StoresAlwaysOutliveRequests == ProcessSpec => []StoresOutliveRequests
  <1>1. ProcessInit => ShutdownInv
    BY DEF ProcessInit, ShutdownInv, ConnectionsType, NothingLeft
  <1>2. ShutdownInv /\ [ProcessNext]_processVars => ShutdownInv'
    BY StepKeepsShutdownInv
  <1>3. ShutdownInv => StoresOutliveRequests
    BY DEF ShutdownInv, NothingLeft, StoresOutliveRequests, Torn
  <1> QED BY <1>1, <1>2, <1>3, PTL DEF ProcessSpec
=============================================================================
