--------------------------- MODULE LoginThrottle ---------------------------
(***************************************************************************)
(* The brute-force protection of loginWithPassword                         *)
(* (modules/auth/services/loginWithPassword.ts): failures are counted per  *)
(* address and per account and address, a count that reaches the limit     *)
(* sets a lock, and an address with some failures has to solve a CAPTCHA   *)
(* (assessLoginRisk.ts).  Counters and locks are Redis keys with a TTL; a  *)
(* login reads them, compares the password, and counts or clears in        *)
(* separate commands, between which other logins run and time passes.  The *)
(* counter per account alone is only logged and is left out, and so is the *)
(* session a successful login goes on to create.                           *)
(***************************************************************************)
EXTENDS Naturals, FiniteSets

CONSTANTS Emails, Ips,
          Workers,       \* logins that may be under way at a time
          MaxFailed,     \* auth.maxFailedLogins
          FailThreshold, \* captcha.failThreshold
          Window,        \* auth.lockoutWindowSec, the TTL of counters and of locks
          MaxTime,       \* bound: instants
          MaxTries,      \* bound: wrong passwords compared, and failures
          MaxLost,       \* bound: failures of Redis or of the process
          NoAccount           \* no account: the keys of an address

ASSUME LoginThrottleAssumption ==
    /\ NoAccount \notin Emails /\ IsFiniteSet(Workers)
    /\ {FailThreshold, Window} \subseteq Nat \ {0} /\ MaxFailed \in Nat \ {0, 1}
    /\ {MaxTime, MaxTries, MaxLost} \subseteq Nat

VARIABLES
    now,
    \* Redis
    count,      \* failures under each key
    countEnd,   \* when the counter expires
    lock,       \* when the lock of each key expires, 0 if there is none
    \* logins
    stage,      \* the await each is at
    login,      \* [email, ip] of the attempt
    seen,       \* what its reads returned: whether the lock of its pair was there, about
                \* to end, and the INCRs: [ending, address, pair]
    \* history
    tries,      \* wrong passwords compared: [pair, at, nr, ending], numbered for a pair and an instant
    known,      \* accounts and addresses that have logged in: no guess is needed there
    lost        \* reads of the locks that failed, and logins that died before they locked

redis   == <<count, countEnd, lock>>
locals  == <<login, seen>>
history == <<tries, known, lost>>
throttleVars == <<now, redis, stage, locals, history>>

Steps == {"idle", "assess", "verify", "incr.address", "incr.pair", "lock.address",
          "lock.pair", "clear"}
Nobody == <<NoAccount, NoAccount>>  \* the login of a worker that has none
Keys  == (Emails \cup {NoAccount}) \X Ips
Pairs == Emails \X Ips
Times == 0..MaxTime

ThrottleTypeOK ==
    /\ now \in Times
    /\ count \in [Keys -> Nat] /\ countEnd \in [Keys -> Nat] /\ lock \in [Keys -> Nat]
    /\ \A k \in Keys : /\ (count[k] = 0) = (countEnd[k] = 0)
                       /\ countEnd[k] # 0 => countEnd[k] \in (now + 1)..(now + Window)
                       /\ lock[k] # 0 => lock[k] \in (now + 1)..(now + Window)
    /\ stage \in [Workers -> Steps]
    /\ login \in [Workers -> Pairs \cup {Nobody}]
    /\ \A w \in Workers : (stage[w] = "idle") = (login[w] = Nobody)
    /\ seen \in [Workers -> [ending : BOOLEAN, address : Nat, pair : Nat]]
    /\ tries \in SUBSET [pair : Pairs, at : 0..now, nr : Nat, ending : BOOLEAN]
    /\ IsFiniteSet(tries)
    /\ known \subseteq Pairs
    /\ lost \in 0..MaxLost

NoneSeen == [ending |-> FALSE, address |-> 0, pair |-> 0]

ThrottleInit ==
    /\ now = 0
    /\ count = [k \in Keys |-> 0] /\ countEnd = [k \in Keys |-> 0] /\ lock = [k \in Keys |-> 0]
    /\ stage = [w \in Workers |-> "idle"]
    /\ login = [w \in Workers |-> Nobody]
    /\ seen = [w \in Workers |-> NoneSeen]
    /\ tries = {} /\ known = {} /\ lost = 0

-----------------------------------------------------------------------------
\* keysFor.
Address(w) == <<NoAccount, login[w][2]>>
Pair(w)    == login[w]

\* The keys of an address cover all its accounts.
Covers(key, p) == key[2] = p[2] /\ key[1] \in {NoAccount, p[1]}

Goto(w, step) == stage' = [stage EXCEPT ![w] = step]

Done(w) ==
    /\ Goto(w, "idle")
    /\ login' = [login EXCEPT ![w] = Nobody]
    /\ seen' = [seen EXCEPT ![w] = NoneSeen]

\* The wrong passwords compared for p at t.
TriesAt(p, t) == {x \in tries : x.pair = p /\ x.at = t}

-----------------------------------------------------------------------------
(* assertAccNotLocked.                                                     *)

\* Redis rounds a TTL to whole seconds: in its last half second a lock is still
\* there and reads as 0, which is not > 0.  That is some time in its last instant.
ReadsAsNone(key) == lock[key] \in {0, now + 1}

\* The locks are read in one pipeline, and a locked login is refused.  A command
\* of a pipeline that fails leaves no value, which counts as no lock.
Start(w, p, read) ==
    /\ stage[w] = "idle"
    /\ read => ReadsAsNone(<<NoAccount, p[2]>>) /\ ReadsAsNone(p)
    /\ seen' = [seen EXCEPT ![w].ending = read /\ lock[p] # 0]
    /\ lost' = IF read THEN lost ELSE lost + 1
    /\ lost' <= MaxLost
    /\ Cardinality(tries) + Cardinality({v \in Workers : stage[v] # "idle"}) + lost' < MaxTries
    /\ login' = [login EXCEPT ![w] = p]
    /\ Goto(w, "assess")
    /\ UNCHANGED <<now, redis, tries, known>>

\* assessLoginRisk.
captchaRequired(w) == count[Address(w)] >= FailThreshold

\* verifyCaptcha: a refused token, an unreachable provider and a missing secret
\* are one answer, and the other is success.
CaptchaAnswers == BOOLEAN

\* The CAPTCHA gate, after the locks and before the password.
Assess(w, solved) ==
    /\ stage[w] = "assess"
    /\ IF captchaRequired(w) /\ ~solved
         THEN Done(w)
         ELSE Goto(w, "verify") /\ UNCHANGED locals
    /\ UNCHANGED <<now, redis, history>>

-----------------------------------------------------------------------------
(* loginWithPassword.                                                      *)

\* verifyPassword fails, against the account's hash or the dummy one.
WrongPassword(w) ==
    /\ stage[w] = "verify"
    /\ tries' = tries \cup {[pair |-> Pair(w), at |-> now,
                            nr |-> Cardinality(TriesAt(Pair(w), now)), ending |-> seen[w].ending]}
    /\ Goto(w, "incr.address")
    /\ UNCHANGED <<now, redis, locals, known, lost>>

\* It succeeds: the account may still be pending or suspended.
RightPassword(w, active) ==
    /\ stage[w] = "verify"
    /\ IF active THEN Goto(w, "clear") /\ UNCHANGED locals ELSE Done(w)
    /\ UNCHANGED <<now, redis, history>>

\* A slip: EXPIRE is a command of its own, and is not reached.
IncrementAlone(key) ==
    /\ count' = [count EXCEPT ![key] = @ + 1]
    /\ UNCHANGED <<countEnd, lock>>

\* INCR, and EXPIRE by whoever finds no counter, in one script.
Increment(key) ==
    /\ count' = [count EXCEPT ![key] = @ + 1]
    /\ countEnd' = IF count[key] = 0 THEN [countEnd EXCEPT ![key] = now + Window] ELSE countEnd
    /\ UNCHANGED lock

\* recordFailedAttempt: the commands are sent together and executed in turn.
IncrementAddress(w) ==
    /\ stage[w] = "incr.address"
    /\ Increment(Address(w))
    /\ seen' = [seen EXCEPT ![w].address = count[Address(w)] + 1]
    /\ Goto(w, "incr.pair")
    /\ UNCHANGED <<now, login, history>>

Reached(n) == n >= MaxFailed

IncrementPair(w) ==
    /\ stage[w] = "incr.pair"
    /\ Increment(Pair(w))
    /\ LET s == [seen[w] EXCEPT !.pair = count[Pair(w)] + 1]
       IN  IF Reached(s.address) \/ Reached(s.pair)
             THEN /\ seen' = [seen EXCEPT ![w] = s]
                  /\ Goto(w, IF Reached(s.address) THEN "lock.address" ELSE "lock.pair")
                  /\ UNCHANGED login
             ELSE Done(w)
    /\ UNCHANGED <<now, history>>

\* SET EX NX.
SetLock(key) == lock' = IF lock[key] = 0 THEN [lock EXCEPT ![key] = now + Window] ELSE lock

\* A slip: an address that is locked locks the account too.
AlwaysPair(w) == TRUE

\* Whether the pair is locked after the address.
PairToo(w) == Reached(seen[w].pair)

LockAddress(w) ==
    /\ stage[w] = "lock.address"
    /\ SetLock(Address(w))
    /\ IF PairToo(w) THEN Goto(w, "lock.pair") /\ UNCHANGED locals ELSE Done(w)
    /\ UNCHANGED <<now, count, countEnd, history>>

LockPair(w) ==
    /\ stage[w] = "lock.pair"
    /\ SetLock(Pair(w))
    /\ Done(w)
    /\ UNCHANGED <<now, count, countEnd, history>>

\* A slip: a success clears everything known of its address.
EveryPairOf(w) == {k \in Keys : k[2] = login[w][2]}

\* What a success deletes: counters and locks of its address, and of its account there.
Cleared(w) == {Address(w), Pair(w)}

\* clearFailedAttempts: one DEL.
ClearFailedAttempts(w) ==
    /\ stage[w] = "clear"
    /\ count' = [k \in Keys |-> IF k \in Cleared(w) THEN 0 ELSE count[k]]
    /\ countEnd' = [k \in Keys |-> IF k \in Cleared(w) THEN 0 ELSE countEnd[k]]
    /\ lock' = [k \in Keys |-> IF k \in Cleared(w) THEN 0 ELSE lock[k]]
    /\ Done(w)
    /\ known' = known \cup {Pair(w)}
    /\ UNCHANGED <<now, tries, lost>>

-----------------------------------------------------------------------------
\* The steps of recordFailedAttempt.
Recording == {"incr.address", "incr.pair", "lock.address", "lock.pair"}

\* An await throws, or the process dies.
Fail(w) ==
    /\ stage[w] # "idle"
    /\ lost' = IF stage[w] \in Recording THEN lost + 1 ELSE lost
    /\ lost' <= MaxLost
    /\ Done(w)
    /\ UNCHANGED <<now, redis, tries, known>>

\* Keys expire.
Tick ==
    /\ now < MaxTime
    /\ now' = now + 1
    /\ count' = [k \in Keys |-> IF countEnd[k] = now + 1 THEN 0 ELSE count[k]]
    /\ countEnd' = [k \in Keys |-> IF countEnd[k] = now + 1 THEN 0 ELSE countEnd[k]]
    /\ lock' = [k \in Keys |-> IF lock[k] = now + 1 THEN 0 ELSE lock[k]]
    /\ UNCHANGED <<stage, locals, history>>

ThrottleNext ==
    \/ \E w \in Workers :
        \/ \E p \in Pairs, read \in BOOLEAN : Start(w, p, read)
        \/ \E solved \in CaptchaAnswers : Assess(w, solved)
        \/ WrongPassword(w) \/ \E active \in BOOLEAN : RightPassword(w, active)
        \/ IncrementAddress(w) \/ IncrementPair(w) \/ LockAddress(w) \/ LockPair(w)
        \/ ClearFailedAttempts(w) \/ Fail(w)
    \/ Tick

ThrottleSpec == ThrottleInit /\ [][ThrottleNext]_throttleVars
-----------------------------------------------------------------------------
(* Properties.                                                             *)

\* Wrong passwords compared for p from t on, for the length of a window, by logins
\* that did not come through the last half second of a lock.
TriesFrom(p, t) == {x \in tries : x.pair = p /\ ~x.ending /\ t <= x.at /\ x.at < t + Window}

\* What may be tried in a window before the last count in it begins: by logins that
\* were past a lock when it was set, or as an earlier counter allows without one.
Before == IF Cardinality(Workers) >= MaxFailed THEN Cardinality(Workers) - 1 ELSE MaxFailed - 2

\* Until somebody logs in to it from there, no more wrong passwords are tried on
\* an account from one address, in any span of one window, than a counter allows
\* without a lock, and one for every login under way, every read of the locks that
\* failed and every login that died before it had counted and locked, after what
\* the counter or the lock before allowed: whatever other accounts do from the same
\* address (their successes clear its counter and its lock), and whenever counters
\* and locks expire.  Not bounded, and not counted here, are those whose login came
\* in the last half second of the account's lock: it reads as none and yet keeps
\* SET NX from setting the next (loginWithPassword.ts:82-87, 118-120).
PairTriesBounded ==
    \A p \in Pairs \ known, t \in Times :
        Cardinality(TriesFrom(p, t)) <= Before + (MaxFailed - 1) + Cardinality(Workers) + lost

\* An account is locked for an address after as many wrong passwords for that account
\* from that address as a lock takes, and an address after as many from there, on
\* whatever accounts: failures from elsewhere lock nobody out, those of others at the
\* same address do (loginWithPassword.ts:42-48).
LocksAreEarned ==
    \A k \in Keys :
        lock[k] # 0 => MaxFailed <= Cardinality({x \in tries : Covers(k, x.pair)})

\* What loginWithPassword.ts:112-113 says ("the lock lasts exactly lockoutWindowSec"), and
\* a TTL that is rounded to seconds does not give: nobody who has read the lock
\* of an account gets past it while it is there.
LocksLast == \A w \in Workers : ~seen[w].ending
=============================================================================
