---------------------------- MODULE OneTimeCodes ----------------------------
(***************************************************************************)
(* The one-time codes of modules/auth/infra/tokenStore.ts: one Redis hash  *)
(* per user with the hash of the mailed code and the number of tries, for  *)
(* e-mail verification (verifyEmail) and for password reset                *)
(* (requestPasswordReset, resetPassword), which share this algorithm.      *)
(* Creating a code is three Redis commands and checking one is three, so   *)
(* the commands of concurrent requests interleave: each is an action.  The *)
(* model follows one key, and numbers the codes in the order they are      *)
(* drawn (two codes drawn alike, one in a million, are left out).  A check *)
(* that finds no code changes nothing and is not an action.                *)
(***************************************************************************)
EXTENDS Naturals, FiniteSets

CONSTANTS Creators,     \* requests that may be creating a code at a time
          Verifiers,    \* requests that may be checking a code at a time
          MaxAttempts,  \* otp.maxAttempts
          MaxCodes,     \* bound: codes drawn
          MaxTries      \* bound: checks started

ASSUME OneTimeCodesAssumption ==
    /\ MaxAttempts \in Nat \ {0} /\ MaxCodes \in Nat \ {0} /\ MaxTries \in Nat
    /\ Creators \cap Verifiers = {} /\ IsFiniteSet(Verifiers)

Codes == 1..MaxCodes
NoCode == 0     \* no "hash" field; as a guess, a wrong number

VARIABLES
    \* the key in Redis
    stored,     \* the code whose hash is in the "hash" field
    attempts,   \* the "attempts" field, 0 when it is absent
    volatile,   \* whether the key has a TTL
    \* requests
    pc,         \* the command each request is to send next
    own,        \* the code a creator drew
    read,       \* what a verifier's HGET returned
    guess,      \* the code presented to it
    \* users
    mailed,     \* codes whose e-mail was queued
    \* history
    drawn,      \* codes drawn so far
    tries,      \* checks started so far
    compared,   \* how often a presented number was compared with each code
    spent       \* codes whose key was deleted because they were accepted

redis   == <<stored, attempts, volatile>>
request == <<own, read, guess>>
history == <<drawn, tries, compared, spent>>
vars == <<redis, pc, request, mailed, history>>

Steps == {"idle", "create.del", "create.hset", "create.expire", "create.mail",
          "verify.hincrby", "verify.drop", "verify.accept"}

TypeOK ==
    /\ stored \in Codes \cup {NoCode} /\ attempts \in Nat /\ volatile \in BOOLEAN
    /\ pc \in [Creators \cup Verifiers -> Steps]
    /\ own \in [Creators -> Codes \cup {NoCode}]
    /\ read \in [Verifiers -> Codes \cup {NoCode}]
    /\ guess \in [Verifiers -> Codes \cup {NoCode}]
    /\ mailed \subseteq Codes /\ spent \subseteq Codes
    /\ drawn \in 0..MaxCodes /\ tries \in Nat
    /\ compared \in [Codes -> Nat]

Init ==
    /\ stored = NoCode /\ attempts = 0 /\ volatile = FALSE
    /\ pc = [r \in Creators \cup Verifiers |-> "idle"]
    /\ own = [r \in Creators |-> NoCode]
    /\ read = [v \in Verifiers |-> NoCode] /\ guess = [v \in Verifiers |-> NoCode]
    /\ mailed = {} /\ spent = {} /\ drawn = 0 /\ tries = 0
    /\ compared = [c \in Codes |-> 0]

-----------------------------------------------------------------------------
Goto(r, step) == pc' = [pc EXCEPT ![r] = step]

\* Redis keeps a hash as long as it has a field.
Exists == stored # NoCode \/ attempts > 0

\* DEL, or the TTL running out.
Delete == stored' = NoCode /\ attempts' = 0 /\ volatile' = FALSE

\* A verifier answers, or never will.
Answer(v) ==
    /\ Goto(v, "idle")
    /\ read' = [read EXCEPT ![v] = NoCode] /\ guess' = [guess EXCEPT ![v] = NoCode]

-----------------------------------------------------------------------------
(* createEmailVerificationCode, createPasswordResetCode.                   *)

Create(r) ==
    /\ pc[r] = "idle" /\ drawn < MaxCodes
    /\ drawn' = drawn + 1
    /\ own' = [own EXCEPT ![r] = drawn + 1]
    /\ Goto(r, "create.del")
    /\ UNCHANGED <<redis, read, guess, mailed, tries, compared, spent>>

DropPrevious(r) ==
    /\ pc[r] = "create.del"
    /\ Delete
    /\ Goto(r, "create.hset")
    /\ UNCHANGED <<request, mailed, history>>

\* A slip: EXPIRE is sent first, for a key that may not be there.
StoreLast(r) ==
    /\ pc[r] = "create.hset"
    /\ stored' = own[r] /\ attempts' = 0
    /\ Goto(r, "create.mail")
    /\ UNCHANGED <<volatile, request, mailed, history>>

\* HSET writes both fields and leaves the TTL of an existing key alone.
StoreHash(r) ==
    /\ pc[r] = "create.hset"
    /\ stored' = own[r] /\ attempts' = 0
    /\ Goto(r, "create.expire")
    /\ UNCHANGED <<volatile, request, mailed, history>>

SetExpiry(r) ==
    /\ pc[r] = "create.expire"
    /\ volatile' = Exists
    /\ Goto(r, "create.mail")
    /\ UNCHANGED <<stored, attempts, request, mailed, history>>

\* enqueueEmail.
Mail(r) ==
    /\ pc[r] = "create.mail"
    /\ mailed' = mailed \cup {own[r]}
    /\ own' = [own EXCEPT ![r] = NoCode]
    /\ Goto(r, "idle")
    /\ UNCHANGED <<redis, read, guess, history>>

-----------------------------------------------------------------------------
(* verifyEmailVerificationCode, verifyPasswordResetCode.                   *)

\* HGET of the stored hash; without one the check fails here.
Verify(v, g) ==
    /\ pc[v] = "idle" /\ tries < MaxTries
    /\ stored # NoCode
    /\ tries' = tries + 1
    /\ read' = [read EXCEPT ![v] = stored] /\ guess' = [guess EXCEPT ![v] = g]
    /\ Goto(v, "verify.hincrby")
    /\ UNCHANGED <<redis, own, mailed, drawn, compared, spent>>

\* A slip: one try too many is allowed, and the next.
Unlimited(v) == FALSE

\* The counter, as HINCRBY returns it, is past the limit.
OverLimit(v) == attempts + 1 > MaxAttempts

\* HINCRBY recreates the key, without a TTL, if it is gone; the comparison is
\* with the hash that was read before.
CountTry(v) ==
    /\ pc[v] = "verify.hincrby"
    /\ attempts' = attempts + 1
    /\ UNCHANGED <<stored, volatile, own, mailed, drawn, tries, spent>>
    /\ IF OverLimit(v)
         THEN Goto(v, "verify.drop") /\ UNCHANGED <<read, guess, compared>>
         ELSE /\ compared' = [compared EXCEPT ![read[v]] = @ + 1]
              /\ IF guess[v] = read[v]
                   THEN Goto(v, "verify.accept") /\ UNCHANGED <<read, guess>>
                   ELSE Answer(v)

\* The DEL of a check that failed for the number of tries.
DropCode(v) ==
    /\ pc[v] = "verify.drop"
    /\ Delete
    /\ Answer(v)
    /\ UNCHANGED <<own, mailed, history>>

\* A slip: an accepted code is left to its TTL.
AcceptAndKeep(v) ==
    /\ pc[v] = "verify.accept"
    /\ spent' = spent \cup {read[v]}
    /\ Answer(v)
    /\ UNCHANGED <<redis, own, mailed, drawn, tries, compared>>

\* A slip: the key is read again to say which code was accepted.
AcceptStored(v) ==
    /\ pc[v] = "verify.accept"
    /\ Delete
    /\ spent' = spent \cup {stored}
    /\ Answer(v)
    /\ UNCHANGED <<own, mailed, drawn, tries, compared>>

\* The DEL of a check that succeeded, whatever code the key holds by now.
AcceptCode(v) ==
    /\ pc[v] = "verify.accept"
    /\ Delete
    /\ spent' = spent \cup {read[v]}
    /\ Answer(v)
    /\ UNCHANGED <<own, mailed, drawn, tries, compared>>

-----------------------------------------------------------------------------
\* otp.ttlSec passes.
Expire ==
    /\ volatile
    /\ Delete
    /\ UNCHANGED <<pc, request, mailed, history>>

\* A command throws or the process dies.
Fail(r) ==
    /\ pc[r] # "idle"
    /\ IF r \in Creators
         THEN /\ Goto(r, "idle") /\ own' = [own EXCEPT ![r] = NoCode]
              /\ UNCHANGED <<read, guess>>
         ELSE Answer(r) /\ UNCHANGED own
    /\ UNCHANGED <<redis, mailed, history>>

Next ==
    \/ \E r \in Creators : Create(r) \/ DropPrevious(r) \/ StoreHash(r) \/ SetExpiry(r) \/ Mail(r)
    \/ \E v \in Verifiers :
        \/ \E g \in mailed \cup {NoCode} : Verify(v, g)
        \/ CountTry(v) \/ DropCode(v) \/ AcceptCode(v)
    \/ \E r \in Creators \cup Verifiers : Fail(r)
    \/ Expire

Spec == Init /\ [][Next]_vars

\* Redis expires keys; no request is owed anything.
FairSpec == Spec /\ WF_vars(Expire)
-----------------------------------------------------------------------------
(* Properties.                                                             *)

\* However creators and checks interleave, the code a user was mailed is never
\* stored without a TTL (createPasswordResetCode mails after EXPIRE).
MailedCodeExpires == stored \in mailed => volatile

\* A code is compared with a presented number at most MaxAttempts times, plus
\* once for every check that had read it when the counter was dropped:
\* nothing a check or a creator does makes an old code guessable afresh.
GuessesBounded ==
    \A c \in Codes : compared[c] <= MaxAttempts + Cardinality(Verifiers)

\* A code that was accepted is never in the key again: it can only be accepted
\* once more by a check that had read it before.
SpentCodeIsGone == stored \notin spent

\* A mailed code eventually stops working for good, even if nobody ever uses it.
MailedCodesRunOut == \A c \in Codes : (c \in mailed) ~> [](stored # c)

\* What appConfig.ts:122 says, and the code does not quite do: after maxAttempts tries the code is invalid.
AttemptsLimited == \A c \in Codes : compared[c] <= MaxAttempts

-----------------------------------------------------------------------------
(* The inductive invariant behind the safety properties.                   *)

CreateSteps == {"create.del", "create.hset", "create.expire", "create.mail"}
CheckSteps == {"verify.hincrby", "verify.drop", "verify.accept"}

Creating(r) == pc[r] \in CreateSteps
Checking(v) == pc[v] \in CheckSteps

\* Drawn, and not yet in the key.
Pending(r) == pc[r] \in {"create.del", "create.hset"}

\* Checks that are about to count a try against c.
Readers(c) == {v \in Verifiers : pc[v] = "verify.hincrby" /\ read[v] = c}

\* Only codes that were drawn are anywhere.
KnownCodes ==
    /\ stored <= drawn
    /\ \A c \in Codes : c \in mailed \cup spent => c <= drawn
    /\ \A c \in Codes : c > drawn => compared[c] = 0
    /\ \A v \in Verifiers :
        /\ pc[v] \in CheckSteps \cup {"idle"}
        /\ Checking(v) => read[v] \in Codes /\ read[v] <= drawn

\* A creator has a code of its own, which nobody has seen before it is stored and
\* nobody is mailed before it has a TTL.
HasItsOwn(r) ==
    /\ pc[r] \in CreateSteps \cup {"idle"}
    /\ Creating(r) => own[r] \in Codes /\ own[r] <= drawn /\ own[r] \notin mailed
    /\ \A q \in Creators : Creating(r) /\ Creating(q) /\ own[r] = own[q] => r = q
    /\ Pending(r) => /\ own[r] # stored /\ own[r] \notin spent /\ compared[own[r]] = 0
                     /\ \A v \in Verifiers : Checking(v) => read[v] # own[r]
    /\ pc[r] = "create.mail" /\ stored = own[r] => volatile

OwnedCodes == \A r \in Creators : HasItsOwn(r)

\* The counter covers the code in the key; a code that is gone is only compared by
\* the checks that have read it.
CountsFit ==
    /\ stored # NoCode => compared[stored] <= attempts /\ compared[stored] <= MaxAttempts
    /\ \A c \in Codes :
        c # stored => compared[c] + Cardinality(Readers(c)) <= MaxAttempts + Cardinality(Verifiers)

IInv ==
    /\ TypeOK /\ KnownCodes /\ OwnedCodes /\ CountsFit
    /\ MailedCodeExpires /\ SpentCodeIsGone
=============================================================================
