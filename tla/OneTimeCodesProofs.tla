------------------------ MODULE OneTimeCodesProofs -------------------------
(***************************************************************************)
(* Proofs about OneTimeCodes, for every number of requests, codes and      *)
(* tries.  IInv says who may know a code at each stage of its life; the    *)
(* count of comparisons adds the checks that have read a code to those it  *)
(* has been through.                                                       *)
(***************************************************************************)
EXTENDS OneTimeCodes, FiniteSetTheorems, TLAPS

\* Sets of checks have a size, and a smaller set a smaller one.
LEMMA CheckCounts ==
    ASSUME NEW T \in SUBSET Verifiers, NEW S \in SUBSET T
    PROVE  /\ Cardinality(S) \in Nat /\ Cardinality(T) \in Nat
           /\ Cardinality(Verifiers) \in Nat
           /\ Cardinality(S) <= Cardinality(T)
           /\ Cardinality(T) <= Cardinality(Verifiers)
<1>1. IsFiniteSet(Verifiers)
    BY OneTimeCodesAssumption
<1>2. IsFiniteSet(T) /\ Cardinality(T) <= Cardinality(Verifiers)
    BY <1>1, FS_Subset
<1>3. IsFiniteSet(S) /\ Cardinality(S) <= Cardinality(T)
    BY <1>2, FS_Subset
<1> QED
    BY <1>1, <1>2, <1>3, FS_CardinalityType

\* Nothing of the count changes, or the key goes, and no check has read anything.
LEMMA CountsKept ==
    ASSUME TypeOK, CountsFit, compared' = compared,
           \A c \in Codes : Readers(c)' \subseteq Readers(c),
           \/ stored' = stored /\ attempts' = attempts
           \/ stored' = NoCode
    PROVE  CountsFit'
<1> USE OneTimeCodesAssumption
<1>1. stored' # NoCode => compared'[stored'] <= attempts' /\ compared'[stored'] <= MaxAttempts
    BY DEF CountsFit
<1>2. ASSUME NEW c \in Codes, c # stored'
      PROVE  compared'[c] + Cardinality(Readers(c)') <= MaxAttempts + Cardinality(Verifiers)
  <2>1. Readers(c) \in SUBSET Verifiers /\ Readers(c)' \in SUBSET Readers(c)
    BY DEF Readers
  <2>2. /\ Cardinality(Readers(c)') \in Nat /\ Cardinality(Readers(c)) \in Nat
        /\ Cardinality(Verifiers) \in Nat
        /\ Cardinality(Readers(c)') <= Cardinality(Readers(c))
        /\ Cardinality(Readers(c)) <= Cardinality(Verifiers)
    BY <2>1, CheckCounts
  <2>3. compared[c] \in Nat
    BY DEF TypeOK
  <2>4. CASE c # stored
    BY <2>2, <2>3, <2>4 DEF CountsFit
  <2>5. CASE c = stored
    <3>1. compared[c] <= MaxAttempts
        BY <1>2, <2>5 DEF CountsFit, Codes, NoCode
    <3> QED
        BY <2>2, <2>3, <3>1
  <2> QED
    BY <2>4, <2>5
<1> QED
    BY <1>1, <1>2 DEF CountsFit

LEMMA InitIInv == Init => IInv
<1> SUFFICES ASSUME Init PROVE IInv
    OBVIOUS
<1> USE OneTimeCodesAssumption
<1>1. TypeOK
  <2>1. "idle" \in Steps
    BY DEF Steps
  <2>2. /\ pc \in [Creators \cup Verifiers -> Steps]
        /\ own \in [Creators -> Codes \cup {NoCode}]
        /\ read \in [Verifiers -> Codes \cup {NoCode}]
        /\ guess \in [Verifiers -> Codes \cup {NoCode}]
        /\ compared \in [Codes -> Nat]
    BY <2>1 DEF Init
  <2>3. 0 \in 0..MaxCodes
    BY DEF Init
  <2> QED
    BY <2>2, <2>3 DEF Init, TypeOK, NoCode
<1>2. KnownCodes
    BY DEF Init, KnownCodes, Codes, NoCode, Checking, CheckSteps
<1>3. OwnedCodes
    BY DEF Init, OwnedCodes, HasItsOwn, Creating, CreateSteps, Pending
<1>4. CountsFit
  <2>1. \A c \in Codes : Cardinality(Readers(c)) \in Nat
                         /\ Cardinality(Readers(c)) <= Cardinality(Verifiers)
                         /\ Cardinality(Verifiers) \in Nat
    BY CheckCounts DEF Readers
  <2> QED
    BY <2>1 DEF Init, CountsFit, Codes
<1> QED
    BY <1>1, <1>2, <1>3, <1>4 DEF Init, IInv, MailedCodeExpires, SpentCodeIsGone, NoCode

-----------------------------------------------------------------------------
(* The creators.                                                           *)

LEMMA CreateKeeps ==
    ASSUME IInv, NEW r \in Creators, Create(r)
    PROVE  IInv'
<1> USE OneTimeCodesAssumption DEF IInv, NoCode
<1>0. drawn' = drawn + 1 /\ drawn' \in Codes /\ drawn \in Nat /\ r \notin Verifiers
    BY DEF Create, TypeOK, Codes
<1>1. pc' \in [Creators \cup Verifiers -> Steps] /\ own' \in [Creators -> Codes \cup {NoCode}]
    BY <1>0 DEF Create, Goto, TypeOK, Steps
<1>2. TypeOK'
    BY <1>0, <1>1 DEF Create, TypeOK, Codes, redis
<1>3. \A q \in Creators \cup Verifiers : pc'[q] = IF q = r THEN "create.del" ELSE pc[q]
    BY DEF Create, Goto, TypeOK
<1>4. \A q \in Creators : own'[q] = IF q = r THEN drawn' ELSE own[q]
    BY <1>0 DEF Create, TypeOK
<1>5. UNCHANGED <<stored, attempts, volatile, read, guess, mailed, tries, compared, spent>>
    BY DEF Create, redis
<1>6. KnownCodes'
    BY <1>0, <1>3, <1>5 DEF KnownCodes, Checking, TypeOK, Codes
<1>7. OwnedCodes'
  <2> SUFFICES ASSUME NEW p \in Creators PROVE HasItsOwn(p)'
    BY DEF OwnedCodes
  <2>1. \A q \in Creators : q # r /\ Creating(q) => own[q] <= drawn
    BY DEF OwnedCodes, HasItsOwn
  <2>2. \A q \in Creators : q # r => (Creating(q)' <=> Creating(q)) /\ (Pending(q)' <=> Pending(q))
    BY <1>3 DEF Creating, Pending
  <2>3. \A v \in Verifiers : Checking(v)' <=> Checking(v)
    BY <1>0, <1>3 DEF Checking
  <2>4. \A c \in Codes : own \in [Creators -> Codes \cup {0}] /\ c \in Nat
    BY DEF TypeOK, Codes
  <2>5. \A q \in Creators : Creating(p)' /\ Creating(q)' /\ own'[p] = own'[q] => p = q
    BY <1>0, <1>4, <2>1, <2>2, <2>4 DEF OwnedCodes, HasItsOwn
  <2>6. CASE p = r
    <3>1. drawn' > drawn /\ ~(drawn' <= drawn)
        BY <1>0
    <3>2. own'[p] = drawn' /\ pc'[p] = "create.del"
        BY <1>3, <1>4, <2>6
    <3>3. drawn' \notin mailed /\ drawn' \notin spent /\ drawn' # stored /\ compared[drawn'] = 0
        BY <1>0, <3>1 DEF KnownCodes
    <3>4. \A v \in Verifiers : Checking(v) => read[v] # drawn'
        BY <3>1 DEF KnownCodes
    <3>5. drawn' <= drawn'
        BY <1>0
    <3> QED
        BY <1>0, <1>5, <2>3, <2>5, <3>2, <3>3, <3>4, <3>5 DEF HasItsOwn, CreateSteps
  <2>7. CASE p # r
    <3>1. pc'[p] = pc[p] /\ own'[p] = own[p]
        BY <1>3, <1>4, <2>7
    <3>2. Creating(p) => own[p] <= drawn'
        BY <1>0, <2>1, <2>4, <2>7 DEF OwnedCodes, HasItsOwn, Codes
    <3> QED
        BY <1>5, <2>2, <2>3, <2>5, <2>7, <3>1, <3>2 DEF OwnedCodes, HasItsOwn
  <2> QED
    BY <2>6, <2>7
<1>8. CountsFit'
  <2>1. \A c \in Codes : Readers(c)' \subseteq Readers(c)
    BY <1>0, <1>3, <1>5 DEF Readers
  <2> QED
    BY <1>5, <2>1, CountsKept
<1>9. MailedCodeExpires' /\ SpentCodeIsGone'
    BY <1>5 DEF MailedCodeExpires, SpentCodeIsGone
<1> QED
    BY <1>2, <1>6, <1>7, <1>8, <1>9

LEMMA DropPreviousKeeps ==
    ASSUME IInv, NEW r \in Creators, DropPrevious(r)
    PROVE  IInv'
<1> USE OneTimeCodesAssumption DEF IInv, NoCode
<1>0. r \notin Verifiers /\ pc[r] = "create.del" /\ stored' = 0 /\ attempts' = 0 /\ volatile' = FALSE
    BY DEF DropPrevious, Delete
<1>1. UNCHANGED <<own, read, guess, mailed, drawn, tries, compared, spent>>
    BY DEF DropPrevious, request, history
<1>2. pc' = [pc EXCEPT ![r] = "create.hset"]
    BY DEF DropPrevious, Goto
<1>3. \A q \in Creators \cup Verifiers : pc'[q] = IF q = r THEN "create.hset" ELSE pc[q]
    BY <1>2 DEF TypeOK
<1>4. TypeOK'
    BY <1>0, <1>1, <1>2 DEF TypeOK, Steps
<1>5. KnownCodes'
    BY <1>0, <1>1, <1>3 DEF KnownCodes, Checking, TypeOK
<1>6. OwnedCodes'
  <2> SUFFICES ASSUME NEW p \in Creators PROVE HasItsOwn(p)'
    BY DEF OwnedCodes
  <2>1. \A q \in Creators : (Creating(q)' <=> Creating(q)) /\ (Pending(q)' <=> Pending(q))
    BY <1>0, <1>3 DEF Creating, Pending, CreateSteps
  <2>2. \A v \in Verifiers : Checking(v)' <=> Checking(v)
    BY <1>0, <1>3 DEF Checking
  <2>3. Pending(p) => Creating(p)
    BY DEF Pending, Creating, CreateSteps
  <2>4. Creating(p) => own[p] # 0
    BY DEF OwnedCodes, HasItsOwn, Codes
  <2>5. pc'[p] \in CreateSteps \cup {"idle"}
    BY <1>3 DEF OwnedCodes, HasItsOwn, CreateSteps
  <2>6. pc'[p] = "create.mail" => own[p] # 0
    BY <1>3, <2>4 DEF Creating, CreateSteps
  <2> QED
    BY <1>0, <1>1, <2>1, <2>2, <2>3, <2>4, <2>5, <2>6 DEF OwnedCodes, HasItsOwn
<1>7. CountsFit'
  <2>1. \A c \in Codes : Readers(c)' \subseteq Readers(c)
    BY <1>0, <1>1, <1>3 DEF Readers
  <2> QED
    BY <1>0, <1>1, <2>1, CountsKept
<1>8. MailedCodeExpires' /\ SpentCodeIsGone'
    BY <1>0, <1>1 DEF MailedCodeExpires, SpentCodeIsGone, TypeOK, Codes
<1> QED
    BY <1>4, <1>5, <1>6, <1>7, <1>8

LEMMA StoreHashKeeps ==
    ASSUME IInv, NEW r \in Creators, StoreHash(r)
    PROVE  IInv'
<1> USE OneTimeCodesAssumption DEF IInv, NoCode
<1>0. r \notin Verifiers /\ pc[r] = "create.hset" /\ stored' = own[r] /\ attempts' = 0
    BY DEF StoreHash
<1>1. UNCHANGED <<volatile, own, read, guess, mailed, drawn, tries, compared, spent>>
    BY DEF StoreHash, request, history
<1>2. pc' = [pc EXCEPT ![r] = "create.expire"]
    BY DEF StoreHash, Goto
<1>3. \A q \in Creators \cup Verifiers : pc'[q] = IF q = r THEN "create.expire" ELSE pc[q]
    BY <1>2 DEF TypeOK
<1>4. /\ own[r] \in Codes /\ own[r] <= drawn /\ own[r] \notin mailed /\ own[r] \notin spent
      /\ own[r] # stored /\ compared[own[r]] = 0
      /\ \A v \in Verifiers : Checking(v) => read[v] # own[r]
      /\ \A q \in Creators : Creating(q) /\ own[r] = own[q] => r = q
    BY <1>0 DEF OwnedCodes, HasItsOwn, Creating, Pending, CreateSteps
<1>5. TypeOK'
    BY <1>0, <1>1, <1>2, <1>4 DEF TypeOK, Steps
<1>6. KnownCodes'
    BY <1>0, <1>1, <1>3, <1>4 DEF KnownCodes, Checking
<1>7. OwnedCodes'
  <2> SUFFICES ASSUME NEW p \in Creators PROVE HasItsOwn(p)'
    BY DEF OwnedCodes
  <2>1. \A q \in Creators : Creating(q)' <=> Creating(q)
    BY <1>0, <1>3 DEF Creating, CreateSteps
  <2>2. \A q \in Creators : Pending(q)' => Pending(q) /\ Creating(q) /\ q # r
    BY <1>0, <1>3 DEF Creating, Pending, CreateSteps
  <2>3. \A v \in Verifiers : Checking(v)' <=> Checking(v)
    BY <1>0, <1>3 DEF Checking
  <2>4. pc'[p] = "create.mail" => Creating(p) /\ p # r
    BY <1>3 DEF Creating, CreateSteps
  <2>5. pc'[p] \in CreateSteps \cup {"idle"}
    BY <1>3 DEF OwnedCodes, HasItsOwn, CreateSteps
  <2> QED
    BY <1>0, <1>1, <1>4, <2>1, <2>2, <2>3, <2>4, <2>5 DEF OwnedCodes, HasItsOwn
<1>8. CountsFit'
  <2>1. ASSUME NEW c \in Codes, c # stored'
        PROVE  compared'[c] + Cardinality(Readers(c)') <= MaxAttempts + Cardinality(Verifiers)
    <3>1. Readers(c)' = Readers(c)
        BY <1>0, <1>1, <1>3 DEF Readers
    <3>2. CASE c # stored
        BY <1>1, <3>1, <3>2 DEF CountsFit
    <3>3. CASE c = stored
      <4>1. Readers(c) \in SUBSET Verifiers
        BY DEF Readers
      <4>2. /\ Cardinality(Readers(c)) \in Nat /\ Cardinality(Verifiers) \in Nat
            /\ Cardinality(Readers(c)) <= Cardinality(Verifiers)
        BY <4>1, CheckCounts
      <4>3. compared[c] \in Nat /\ compared[c] <= MaxAttempts
        BY <3>3 DEF CountsFit, TypeOK, Codes
      <4> QED
        BY <1>1, <3>1, <4>2, <4>3
    <3> QED
        BY <3>2, <3>3
  <2>2. compared'[stored'] = 0
    BY <1>0, <1>1, <1>4
  <2> QED
    BY <1>0, <2>1, <2>2 DEF CountsFit
<1>9. MailedCodeExpires' /\ SpentCodeIsGone'
    BY <1>0, <1>1, <1>4 DEF MailedCodeExpires, SpentCodeIsGone
<1> QED
    BY <1>5, <1>6, <1>7, <1>8, <1>9

LEMMA SetExpiryKeeps ==
    ASSUME IInv, NEW r \in Creators, SetExpiry(r)
    PROVE  IInv'
<1> USE OneTimeCodesAssumption DEF IInv, NoCode
<1>0. r \notin Verifiers /\ pc[r] = "create.expire" /\ (stored # 0 => volatile')
    BY DEF SetExpiry, Exists
<1>1. UNCHANGED <<stored, attempts, own, read, guess, mailed, drawn, tries, compared, spent>>
    BY DEF SetExpiry, request, history
<1>2. pc' = [pc EXCEPT ![r] = "create.mail"]
    BY DEF SetExpiry, Goto
<1>3. \A q \in Creators \cup Verifiers : pc'[q] = IF q = r THEN "create.mail" ELSE pc[q]
    BY <1>2 DEF TypeOK
<1>4. TypeOK'
  <2>1. volatile' \in BOOLEAN
    BY Zenon DEF SetExpiry, Exists
  <2> QED
    BY <1>1, <1>2, <2>1 DEF TypeOK, Steps
<1>5. KnownCodes'
    BY <1>0, <1>1, <1>3 DEF KnownCodes, Checking
<1>6. OwnedCodes'
  <2> SUFFICES ASSUME NEW p \in Creators PROVE HasItsOwn(p)'
    BY DEF OwnedCodes
  <2>1. \A q \in Creators : (Creating(q)' <=> Creating(q)) /\ (Pending(q)' <=> Pending(q))
    BY <1>0, <1>3 DEF Creating, Pending, CreateSteps
  <2>2. \A v \in Verifiers : Checking(v)' <=> Checking(v)
    BY <1>0, <1>3 DEF Checking
  <2>3. pc'[p] = "create.mail" => own[p] # 0
    BY <1>0, <1>3 DEF OwnedCodes, HasItsOwn, Creating, CreateSteps, Codes
  <2>4. pc'[p] \in CreateSteps \cup {"idle"}
    BY <1>3 DEF OwnedCodes, HasItsOwn, CreateSteps
  <2> QED
    BY <1>0, <1>1, <2>1, <2>2, <2>3, <2>4 DEF OwnedCodes, HasItsOwn
<1>7. CountsFit'
  <2>1. \A c \in Codes : Readers(c)' \subseteq Readers(c)
    BY <1>0, <1>1, <1>3 DEF Readers
  <2> QED
    BY <1>1, <2>1, CountsKept
<1>8. MailedCodeExpires' /\ SpentCodeIsGone'
    BY <1>0, <1>1 DEF MailedCodeExpires, SpentCodeIsGone, TypeOK, Codes
<1> QED
    BY <1>4, <1>5, <1>6, <1>7, <1>8

LEMMA MailKeeps ==
    ASSUME IInv, NEW r \in Creators, Mail(r)
    PROVE  IInv'
<1> USE OneTimeCodesAssumption DEF IInv, NoCode
<1>0. r \notin Verifiers /\ pc[r] = "create.mail" /\ mailed' = mailed \cup {own[r]}
    BY DEF Mail
<1>1. UNCHANGED <<stored, attempts, volatile, read, guess, drawn, tries, compared, spent>>
    BY DEF Mail, redis, history
<1>2. pc' = [pc EXCEPT ![r] = "idle"] /\ own' = [own EXCEPT ![r] = 0]
    BY DEF Mail, Goto
<1>3. \A q \in Creators \cup Verifiers : pc'[q] = IF q = r THEN "idle" ELSE pc[q]
    BY <1>2 DEF TypeOK
<1>4. \A q \in Creators : own'[q] = IF q = r THEN 0 ELSE own[q]
    BY <1>2 DEF TypeOK
<1>5. /\ own[r] \in Codes /\ own[r] <= drawn /\ (stored = own[r] => volatile)
      /\ \A q \in Creators : Creating(q) /\ own[r] = own[q] => r = q
    BY <1>0 DEF OwnedCodes, HasItsOwn, Creating, CreateSteps
<1>6. TypeOK'
    BY <1>0, <1>1, <1>2, <1>5 DEF TypeOK, Steps
<1>7. KnownCodes'
    BY <1>0, <1>1, <1>3, <1>5 DEF KnownCodes, Checking
<1>8. OwnedCodes'
  <2> SUFFICES ASSUME NEW p \in Creators PROVE HasItsOwn(p)'
    BY DEF OwnedCodes
  <2>1. \A q \in Creators : Creating(q)' => Creating(q) /\ q # r
    BY <1>3 DEF Creating, CreateSteps
  <2>2. Pending(p)' => Pending(p) /\ p # r
    BY <1>3 DEF Pending
  <2>3. \A v \in Verifiers : Checking(v)' <=> Checking(v)
    BY <1>0, <1>3 DEF Checking
  <2>4. pc'[p] = "create.mail" => pc[p] = "create.mail" /\ p # r
    BY <1>3
  <2>5. pc'[p] \in CreateSteps \cup {"idle"}
    BY <1>3 DEF OwnedCodes, HasItsOwn
  <2> QED
    BY <1>0, <1>1, <1>4, <1>5, <2>1, <2>2, <2>3, <2>4, <2>5 DEF OwnedCodes, HasItsOwn
<1>9. CountsFit'
  <2>1. \A c \in Codes : Readers(c)' \subseteq Readers(c)
    BY <1>0, <1>1, <1>3 DEF Readers
  <2> QED
    BY <1>1, <2>1, CountsKept
<1>10. MailedCodeExpires' /\ SpentCodeIsGone'
    BY <1>0, <1>1, <1>5 DEF MailedCodeExpires, SpentCodeIsGone
<1> QED
    BY <1>6, <1>7, <1>8, <1>9, <1>10

-----------------------------------------------------------------------------
(* The checks, and time.                                                   *)

\* What a check does leaves the creators their codes: it works on codes that have
\* been stored, and at most takes the key away.
LEMMA CheckKeepsOwned ==
    ASSUME TypeOK, OwnedCodes,
           \A q \in Creators : pc'[q] = pc[q],
           UNCHANGED <<own, mailed, drawn>>,
           \/ stored' = stored /\ volatile' = volatile
           \/ stored' = 0,
           \A c \in spent' : c \in spent \/ \E v \in Verifiers : Checking(v) /\ read[v] = c,
           \A c \in Codes : compared'[c] = compared[c]
                              \/ \E v \in Verifiers : Checking(v) /\ read[v] = c,
           \A v \in Verifiers : Checking(v)' => \/ Checking(v) /\ read'[v] = read[v]
                                                \/ read'[v] = stored
    PROVE  OwnedCodes'
<1> SUFFICES ASSUME NEW p \in Creators PROVE HasItsOwn(p)'
    BY DEF OwnedCodes
<1>1. \A q \in Creators : (Creating(q)' <=> Creating(q)) /\ (Pending(q)' <=> Pending(q))
    BY DEF Creating, Pending
<1>2. Pending(p) => Creating(p)
    BY DEF Pending, Creating, CreateSteps
<1>3. Creating(p) => own[p] \in Codes /\ own[p] # 0
    BY DEF OwnedCodes, HasItsOwn, Codes
<1>4. HasItsOwn(p)
    BY DEF OwnedCodes
<1>5. Pending(p) => own[p] # stored' /\ own[p] \notin spent'
    BY <1>2, <1>3, <1>4 DEF HasItsOwn
<1>6. Pending(p) => compared'[own[p]] = 0
    BY <1>2, <1>3, <1>4 DEF HasItsOwn
<1>7. Pending(p) => \A v \in Verifiers : Checking(v)' => read'[v] # own[p]
    BY <1>4 DEF HasItsOwn
<1>8. pc[p] = "create.mail" /\ stored' = own[p] => volatile'
    BY <1>3, <1>4 DEF HasItsOwn, Creating, CreateSteps
<1>9. \A q \in Creators : Creating(p)' /\ Creating(q)' /\ own'[p] = own'[q] => p = q
    BY <1>1, <1>4 DEF HasItsOwn
<1> QED
    BY <1>1, <1>4, <1>5, <1>6, <1>7, <1>8, <1>9 DEF HasItsOwn

LEMMA VerifyKeeps ==
    ASSUME IInv, NEW v \in Verifiers, NEW g \in mailed \cup {NoCode}, Verify(v, g)
    PROVE  IInv'
<1> USE OneTimeCodesAssumption DEF IInv, NoCode
<1>0. v \notin Creators /\ pc[v] = "idle" /\ stored # 0 /\ tries' = tries + 1
    BY DEF Verify
<1>1. UNCHANGED <<stored, attempts, volatile, own, mailed, drawn, compared, spent>>
    BY DEF Verify, redis
<1>2. /\ pc' = [pc EXCEPT ![v] = "verify.hincrby"]
      /\ read' = [read EXCEPT ![v] = stored] /\ guess' = [guess EXCEPT ![v] = g]
    BY DEF Verify, Goto
<1>3. \A q \in Creators \cup Verifiers : pc'[q] = IF q = v THEN "verify.hincrby" ELSE pc[q]
    BY <1>2 DEF TypeOK
<1>4. \A q \in Verifiers : read'[q] = IF q = v THEN stored ELSE read[q]
    BY <1>2 DEF TypeOK
<1>5. TypeOK'
  <2>1. g \in Codes \cup {0} /\ tries' \in Nat
    BY <1>0 DEF TypeOK
  <2> QED
    BY <1>1, <1>2, <2>1 DEF TypeOK, Steps
<1>6. KnownCodes'
    BY <1>0, <1>1, <1>3, <1>4 DEF KnownCodes, Checking, CheckSteps, TypeOK
<1>7. OwnedCodes'
  <2>1. \A q \in Creators : pc'[q] = pc[q]
    BY <1>0, <1>3
  <2>2. \A w \in Verifiers : Checking(w)' => \/ Checking(w) /\ read'[w] = read[w]
                                             \/ read'[w] = stored
    BY <1>3, <1>4 DEF Checking
  <2> QED
    BY <1>1, <2>1, <2>2, CheckKeepsOwned
<1>8. CountsFit'
  <2>1. \A c \in Codes : c # stored => Readers(c)' = Readers(c)
    BY <1>0, <1>3, <1>4 DEF Readers
  <2> QED
    BY <1>1, <2>1 DEF CountsFit
<1>9. MailedCodeExpires' /\ SpentCodeIsGone'
    BY <1>1 DEF MailedCodeExpires, SpentCodeIsGone
<1> QED
    BY <1>5, <1>6, <1>7, <1>8, <1>9

\* A check that answers.
LEMMA Answered ==
    ASSUME TypeOK, NEW v \in Verifiers, Answer(v)
    PROVE  /\ pc' \in [Creators \cup Verifiers -> Steps]
           /\ read' \in [Verifiers -> Codes \cup {0}]
           /\ guess' \in [Verifiers -> Codes \cup {0}]
           /\ \A q \in Creators : pc'[q] = pc[q]
           /\ \A w \in Verifiers : /\ pc'[w] = IF w = v THEN "idle" ELSE pc[w]
                                   /\ read'[w] = IF w = v THEN 0 ELSE read[w]
           /\ \A w \in Verifiers : Checking(w)' => Checking(w) /\ w # v /\ read'[w] = read[w]
           /\ \A c \in Codes : Readers(c)' = Readers(c) \ {v}
<1> USE OneTimeCodesAssumption DEF NoCode
<1>1. /\ pc' = [pc EXCEPT ![v] = "idle"]
      /\ read' = [read EXCEPT ![v] = 0] /\ guess' = [guess EXCEPT ![v] = 0]
    BY DEF Answer, Goto
<1>2. /\ pc' \in [Creators \cup Verifiers -> Steps]
      /\ read' \in [Verifiers -> Codes \cup {0}]
      /\ guess' \in [Verifiers -> Codes \cup {0}]
    BY <1>1 DEF TypeOK, Steps
<1>3. \A q \in Creators : pc'[q] = pc[q]
    BY <1>1 DEF TypeOK
<1>4. \A w \in Verifiers : /\ pc'[w] = IF w = v THEN "idle" ELSE pc[w]
                           /\ read'[w] = IF w = v THEN 0 ELSE read[w]
    BY <1>1 DEF TypeOK
<1>5. \A w \in Verifiers : Checking(w)' => Checking(w) /\ w # v /\ read'[w] = read[w]
    BY <1>4 DEF Checking, CheckSteps
<1>6. \A c \in Codes : Readers(c)' = Readers(c) \ {v}
    BY <1>4 DEF Readers
<1> QED
    BY <1>2, <1>3, <1>4, <1>5, <1>6

\* A check that ends with a DEL, whether it accepted its code or gave up.
LEMMA EndingCheckKeeps ==
    ASSUME IInv, NEW v \in Verifiers, Answer(v), Checking(v),
           UNCHANGED <<own, mailed, drawn, tries, compared>>,
           spent' = spent \/ spent' = spent \cup {read[v]},
           Delete \/ (UNCHANGED <<redis, spent>>)
    PROVE  IInv'
<1> USE OneTimeCodesAssumption DEF IInv, NoCode
<1>1. read[v] \in Codes /\ read[v] <= drawn
    BY DEF KnownCodes
<1>2. \/ stored' = stored /\ attempts' = attempts /\ volatile' = volatile /\ spent' = spent
      \/ stored' = 0 /\ attempts' = 0 /\ volatile' = FALSE
    BY DEF Delete, redis
<1>3. TypeOK'
  <2>1. /\ pc' \in [Creators \cup Verifiers -> Steps]
        /\ read' \in [Verifiers -> Codes \cup {0}]
        /\ guess' \in [Verifiers -> Codes \cup {0}]
    BY Answered
  <2>2. stored' \in Codes \cup {0} /\ attempts' \in Nat
    BY <1>2 DEF TypeOK
  <2>3. volatile' \in BOOLEAN
    BY Zenon, <1>2 DEF TypeOK
  <2>4. spent' \subseteq Codes
    BY <1>1 DEF TypeOK
  <2> QED
    BY <2>1, <2>2, <2>3, <2>4 DEF TypeOK
<1>4. KnownCodes'
  <2>1. \A w \in Verifiers : pc'[w] \in CheckSteps \cup {"idle"}
    BY Answered DEF KnownCodes
  <2>2. \A w \in Verifiers : Checking(w)' => read'[w] \in Codes /\ read'[w] <= drawn
    BY Answered DEF KnownCodes
  <2>3. stored' <= drawn
    BY <1>2 DEF KnownCodes, TypeOK
  <2> QED
    BY <1>1, <2>1, <2>2, <2>3 DEF KnownCodes
<1>5. OwnedCodes'
  <2>1. \A c \in spent' : c \in spent \/ \E w \in Verifiers : Checking(w) /\ read[w] = c
    OBVIOUS
  <2> QED
    BY <1>2, <2>1, Answered, CheckKeepsOwned
<1>6. CountsFit'
    BY <1>2, Answered, CountsKept
<1>7. MailedCodeExpires' /\ SpentCodeIsGone'
    BY <1>1, <1>2 DEF MailedCodeExpires, SpentCodeIsGone, TypeOK, Codes
<1> QED
    BY <1>3, <1>4, <1>5, <1>6, <1>7

LEMMA CountTryKeeps ==
    ASSUME IInv, NEW v \in Verifiers, CountTry(v)
    PROVE  IInv'
<1> USE OneTimeCodesAssumption DEF IInv, NoCode
<1>0. v \notin Creators /\ pc[v] = "verify.hincrby" /\ attempts' = attempts + 1
    BY DEF CountTry
<1>1. UNCHANGED <<stored, volatile, own, mailed, drawn, tries, spent>>
    BY DEF CountTry
<1>2. read[v] \in Codes /\ read[v] <= drawn /\ Checking(v)
    BY <1>0 DEF KnownCodes, Checking, CheckSteps
<1>3. \/ /\ attempts + 1 > MaxAttempts /\ UNCHANGED <<read, guess, compared>>
         /\ pc' = [pc EXCEPT ![v] = "verify.drop"]
      \/ /\ ~(attempts + 1 > MaxAttempts)
         /\ compared' = [compared EXCEPT ![read[v]] = @ + 1]
         /\ \/ pc' = [pc EXCEPT ![v] = "verify.accept"] /\ UNCHANGED <<read, guess>>
            \/ Answer(v)
    BY DEF CountTry, Goto, OverLimit
<1>4. \A c \in Codes : compared'[c] \in Nat /\ (c # read[v] => compared'[c] = compared[c])
    BY <1>2, <1>3 DEF TypeOK
<1>5. \/ compared'[read[v]] = compared[read[v]]
      \/ compared'[read[v]] = compared[read[v]] + 1 /\ attempts + 1 <= MaxAttempts
  <2>1. attempts + 1 \in Nat /\ MaxAttempts \in Nat
    BY DEF TypeOK
  <2> QED
    BY <1>2, <1>3, <2>1 DEF TypeOK
<1>6. /\ pc' \in [Creators \cup Verifiers -> Steps]
      /\ \A q \in Creators : pc'[q] = pc[q]
      /\ \A w \in Verifiers : /\ pc'[w] = IF w = v THEN pc'[v] ELSE pc[w]
                              /\ w # v => read'[w] = read[w]
      /\ pc'[v] \in {"verify.drop", "verify.accept", "idle"}
      /\ pc'[v] # "idle" => read'[v] = read[v]
      /\ read' \in [Verifiers -> Codes \cup {0}] /\ guess' \in [Verifiers -> Codes \cup {0}]
  <2>1. CASE Answer(v)
    BY <2>1, Answered
  <2>2. CASE UNCHANGED <<read, guess>> /\ pc' = [pc EXCEPT ![v] = "verify.drop"]
    BY <1>0, <2>2 DEF TypeOK, Steps
  <2>3. CASE UNCHANGED <<read, guess>> /\ pc' = [pc EXCEPT ![v] = "verify.accept"]
    BY <1>0, <2>3 DEF TypeOK, Steps
  <2> QED
    BY <1>3, <2>1, <2>2, <2>3
<1>7. TypeOK'
  <2>1. compared' \in [Codes -> Nat]
    BY <1>2, <1>3 DEF TypeOK
  <2> QED
    BY <1>0, <1>1, <1>6, <2>1 DEF TypeOK
<1>8. \A w \in Verifiers : Checking(w)' => Checking(w) /\ read'[w] = read[w]
    BY <1>2, <1>6 DEF Checking, CheckSteps
<1>9. KnownCodes'
  <2>1. \A w \in Verifiers : pc'[w] \in CheckSteps \cup {"idle"}
    BY <1>6 DEF KnownCodes, CheckSteps
  <2>2. \A c \in Codes : c > drawn => compared'[c] = 0
    BY <1>2, <1>4 DEF KnownCodes, Codes, TypeOK
  <2> QED
    BY <1>1, <1>8, <2>1, <2>2 DEF KnownCodes
<1>10. OwnedCodes'
  <2>1. \A c \in Codes : compared'[c] = compared[c]
                          \/ \E w \in Verifiers : Checking(w) /\ read[w] = c
    BY <1>2, <1>4
  <2> QED
    BY <1>1, <1>6, <1>8, <2>1, CheckKeepsOwned
<1>11. \A c \in Codes : Readers(c)' = Readers(c) \ {v}
    BY <1>6, <1>8 DEF Readers, Checking, CheckSteps
<1>12. CountsFit'
  <2>1. stored' # 0 => compared'[stored'] <= attempts' /\ compared'[stored'] <= MaxAttempts
    BY <1>0, <1>1, <1>4, <1>5 DEF CountsFit, TypeOK
  <2>2. ASSUME NEW c \in Codes, c # stored'
        PROVE  compared'[c] + Cardinality(Readers(c)') <= MaxAttempts + Cardinality(Verifiers)
    <3>1. Readers(c) \in SUBSET Verifiers /\ IsFiniteSet(Verifiers)
        BY DEF Readers
    <3>2. IsFiniteSet(Readers(c))
        BY <3>1, FS_Subset
    <3>3. Cardinality(Readers(c)) \in Nat /\ Cardinality(Verifiers) \in Nat
        BY <3>1, CheckCounts
    <3>4. Cardinality(Readers(c)') =
            IF v \in Readers(c) THEN Cardinality(Readers(c)) - 1 ELSE Cardinality(Readers(c))
        BY <1>11, <3>2, FS_RemoveElement
    <3>5. compared[c] + Cardinality(Readers(c)) <= MaxAttempts + Cardinality(Verifiers)
        BY <1>1, <2>2 DEF CountsFit
    <3>6. v \in Readers(c) <=> c = read[v]
        BY <1>0 DEF Readers
    <3>7. compared[c] \in Nat
        BY DEF TypeOK
    <3>8. compared'[c] <= IF c = read[v] THEN compared[c] + 1 ELSE compared[c]
        BY <1>4, <1>5, <3>7
    <3> QED
        BY <1>4, <3>3, <3>4, <3>5, <3>6, <3>7, <3>8
  <2> QED
    BY <2>1, <2>2 DEF CountsFit
<1>13. MailedCodeExpires' /\ SpentCodeIsGone'
    BY <1>1 DEF MailedCodeExpires, SpentCodeIsGone
<1> QED
    BY <1>7, <1>9, <1>10, <1>12, <1>13

LEMMA ExpireKeeps ==
    ASSUME IInv, Expire
    PROVE  IInv'
<1> USE OneTimeCodesAssumption DEF IInv, NoCode
<1>1. /\ stored' = 0 /\ attempts' = 0 /\ volatile' = FALSE
      /\ UNCHANGED <<pc, own, read, guess, mailed, drawn, tries, compared, spent>>
    BY DEF Expire, Delete, request, history
<1>2. TypeOK'
    BY <1>1 DEF TypeOK
<1>3. KnownCodes'
    BY <1>1 DEF KnownCodes, Checking, TypeOK
<1>4. \A w \in Verifiers : Checking(w)' => Checking(w)
    BY <1>1 DEF Checking
<1>5. OwnedCodes'
    BY <1>1, <1>4, CheckKeepsOwned
<1>6. \A c \in Codes : Readers(c)' \subseteq Readers(c)
    BY <1>1 DEF Readers
<1>7. CountsFit'
    BY <1>1, <1>6, CountsKept
<1> QED
    BY <1>1, <1>2, <1>3, <1>5, <1>7 DEF MailedCodeExpires, SpentCodeIsGone, TypeOK, Codes

LEMMA CreatorFailsKeeps ==
    ASSUME IInv, NEW r \in Creators, Fail(r)
    PROVE  IInv'
<1> USE OneTimeCodesAssumption DEF IInv, NoCode
<1>0. r \notin Verifiers
    OBVIOUS
<1>1. UNCHANGED <<stored, attempts, volatile, read, guess, mailed, drawn, tries, compared, spent>>
    BY DEF Fail, redis, history
<1>2. pc' = [pc EXCEPT ![r] = "idle"] /\ own' = [own EXCEPT ![r] = 0]
    BY DEF Fail, Goto
<1>3. \A q \in Creators \cup Verifiers : pc'[q] = IF q = r THEN "idle" ELSE pc[q]
    BY <1>2 DEF TypeOK
<1>4. \A q \in Creators : own'[q] = IF q = r THEN 0 ELSE own[q]
    BY <1>2 DEF TypeOK
<1>5. TypeOK'
    BY <1>1, <1>2 DEF TypeOK, Steps
<1>6. KnownCodes'
    BY <1>0, <1>1, <1>3 DEF KnownCodes, Checking
<1>7. OwnedCodes'
  <2> SUFFICES ASSUME NEW p \in Creators PROVE HasItsOwn(p)'
    BY DEF OwnedCodes
  <2>1. \A q \in Creators : Creating(q)' => Creating(q) /\ q # r
    BY <1>3 DEF Creating, CreateSteps
  <2>2. Pending(p)' => Pending(p) /\ p # r
    BY <1>3 DEF Pending
  <2>3. \A v \in Verifiers : Checking(v)' <=> Checking(v)
    BY <1>0, <1>3 DEF Checking
  <2>4. pc'[p] = "create.mail" => pc[p] = "create.mail" /\ p # r
    BY <1>3
  <2>5. pc'[p] \in CreateSteps \cup {"idle"}
    BY <1>3 DEF OwnedCodes, HasItsOwn
  <2> QED
    BY <1>1, <1>4, <2>1, <2>2, <2>3, <2>4, <2>5 DEF OwnedCodes, HasItsOwn
<1>8. CountsFit'
  <2>1. \A c \in Codes : Readers(c)' \subseteq Readers(c)
    BY <1>0, <1>1, <1>3 DEF Readers
  <2> QED
    BY <1>1, <2>1, CountsKept
<1>9. MailedCodeExpires' /\ SpentCodeIsGone'
    BY <1>1 DEF MailedCodeExpires, SpentCodeIsGone
<1> QED
    BY <1>5, <1>6, <1>7, <1>8, <1>9

-----------------------------------------------------------------------------
(* The theorems.                                                           *)

LEMMA StepKeepsIInv == IInv /\ [Next]_vars => IInv'
<1> SUFFICES ASSUME IInv, [Next]_vars PROVE IInv'
    OBVIOUS
<1>1. CASE \E r \in Creators : Create(r) \/ DropPrevious(r) \/ StoreHash(r) \/ SetExpiry(r) \/ Mail(r)
    BY <1>1, CreateKeeps, DropPreviousKeeps, StoreHashKeeps, SetExpiryKeeps, MailKeeps
<1>2. ASSUME NEW v \in Verifiers, NEW g \in mailed \cup {NoCode}, Verify(v, g)
      PROVE  IInv'
    BY <1>2, VerifyKeeps
<1>3. ASSUME NEW v \in Verifiers, CountTry(v)
      PROVE  IInv'
    BY <1>3, CountTryKeeps
<1>4. ASSUME NEW v \in Verifiers, DropCode(v)
      PROVE  IInv'
    BY <1>4, EndingCheckKeeps DEF DropCode, Checking, CheckSteps, history
<1>5. ASSUME NEW v \in Verifiers, AcceptCode(v)
      PROVE  IInv'
    BY <1>5, EndingCheckKeeps DEF AcceptCode, Checking, CheckSteps
<1>6. ASSUME NEW r \in Creators \cup Verifiers, Fail(r)
      PROVE  IInv'
  <2>1. CASE r \in Creators
    BY <1>6, <2>1, CreatorFailsKeeps
  <2>2. CASE r \in Verifiers /\ r \notin Creators
    <3>1. Answer(r) /\ UNCHANGED <<redis, own, mailed, drawn, tries, compared, spent>>
        BY <1>6, <2>2 DEF Fail, history
    <3>2. Checking(r)
        BY <1>6, <2>2 DEF Fail, IInv, KnownCodes, Checking
    <3> QED
        BY <2>2, <3>1, <3>2, EndingCheckKeeps
  <2> QED
    BY <2>1, <2>2
<1>7. CASE Expire
    BY <1>7, ExpireKeeps
<1>8. CASE UNCHANGED vars
    BY <1>8 DEF vars, redis, request, history, IInv, TypeOK, KnownCodes, OwnedCodes, HasItsOwn, CountsFit,
                Creating, Checking, Pending, Readers, MailedCodeExpires, SpentCodeIsGone
<1> QED
    BY <1>1, <1>2, <1>3, <1>4, <1>5, <1>6, <1>7, <1>8 DEF Next

LEMMA Invariant == Spec => []IInv
BY InitIInv, StepKeepsIInv, PTL DEF Spec

\* The key holds drawn codes only, and requests stand at steps the code has.
THEOREM TypeCorrect == Spec => []TypeOK
<1>1. IInv => TypeOK
    BY DEF IInv
<1> QED
    BY <1>1, Invariant, PTL

\* A code that was mailed is stored with a TTL, whatever commands of other requests
\* come between HSET and EXPIRE (tokenStore.ts:190-201).
THEOREM MailedCodesExpire == Spec => []MailedCodeExpires
<1>1. IInv => MailedCodeExpires
    BY DEF IInv
<1> QED
    BY <1>1, Invariant, PTL

\* An accepted code never returns to the key (tokenStore.ts:219-223).
THEOREM SpentCodesAreGone == Spec => []SpentCodeIsGone
<1>1. IInv => SpentCodeIsGone
    BY DEF IInv
<1> QED
    BY <1>1, Invariant, PTL

\* A code is compared at most MaxAttempts times, and once more for each check that
\* may be under way (tokenStore.ts:203-217).
THEOREM GuessesAreBounded == Spec => []GuessesBounded
<1>1. IInv => GuessesBounded
  <2> SUFFICES ASSUME IInv, NEW c \in Codes
               PROVE  compared[c] <= MaxAttempts + Cardinality(Verifiers)
    BY DEF GuessesBounded
  <2>1. compared[c] \in Nat /\ MaxAttempts \in Nat /\ c # 0
    BY OneTimeCodesAssumption DEF IInv, TypeOK, Codes
  <2>2. Readers(c) \in SUBSET Verifiers
    BY DEF Readers
  <2>3. Cardinality(Readers(c)) \in Nat /\ Cardinality(Verifiers) \in Nat
    BY <2>2, CheckCounts
  <2>4. CASE c = stored
    BY <2>1, <2>3, <2>4 DEF IInv, CountsFit, NoCode
  <2>5. CASE c # stored
    BY <2>1, <2>3, <2>5 DEF IInv, CountsFit
  <2> QED
    BY <2>4, <2>5
<1> QED
    BY <1>1, Invariant, PTL
=============================================================================
