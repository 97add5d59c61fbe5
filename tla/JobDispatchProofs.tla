------------------------- MODULE JobDispatchProofs -------------------------
(***************************************************************************)
(* Proofs about JobDispatch, for every number of messages, processes and   *)
(* receptions.  A handler that runs twice is accounted for: JobFits counts *)
(* the runs that have happened and the dispatches that may still run, and  *)
(* no step but a slip lets the count grow.  Messages do not share state    *)
(* other than their batch, so each action is proved for the message it is  *)
(* about, and leaves the others alone.                                     *)
(***************************************************************************)
EXTENDS JobDispatch, FiniteSetTheorems, TLAPS

\* The processes that dispatch a message can be counted.
LEMMA SetCounts ==
    ASSUME NEW T \in SUBSET Procs, NEW S \in SUBSET Procs
    PROVE  /\ Cardinality(S) \in Nat /\ Cardinality(T) \in Nat
           /\ S \subseteq T => Cardinality(S) <= Cardinality(T)
<1>1. IsFiniteSet(Procs)
    BY JobDispatchAssumption
<1>2. IsFiniteSet(S) /\ IsFiniteSet(T)
    BY <1>1, FS_Subset
<1>3. S \subseteq T => Cardinality(S) <= Cardinality(T)
    BY <1>2, FS_Subset
<1> QED
    BY <1>2, <1>3, FS_CardinalityType

\* One process more at most.
LEMMA OneMore ==
    ASSUME NEW T \in SUBSET Procs, NEW S \in SUBSET Procs, NEW p \in Procs, S \subseteq T \cup {p}
    PROVE  Cardinality(S) <= Cardinality(T) + 1
<1>1. IsFiniteSet(T)
    BY JobDispatchAssumption, FS_Subset
<1>2. T \cup {p} \in SUBSET Procs /\ Cardinality(T) \in Nat
    BY SetCounts
<1>3. Cardinality(T \cup {p}) <= Cardinality(T) + 1
  <2>1. Cardinality(T \cup {p}) = IF p \in T THEN Cardinality(T) ELSE Cardinality(T) + 1
    BY <1>1, FS_AddElement
  <2> QED
    BY <1>2, <2>1
<1>4. Cardinality(S) <= Cardinality(T \cup {p}) /\ Cardinality(S) \in Nat /\ Cardinality(T \cup {p}) \in Nat
    BY <1>2, SetCounts
<1> QED
    BY <1>2, <1>3, <1>4

\* One process less at least.
LEMMA OneLess ==
    ASSUME NEW T \in SUBSET Procs, NEW S \in SUBSET Procs, NEW p \in T, S \subseteq T \ {p}
    PROVE  Cardinality(S) + 1 <= Cardinality(T)
<1>1. IsFiniteSet(T)
    BY JobDispatchAssumption, FS_Subset
<1>2. T \ {p} \in SUBSET Procs /\ Cardinality(T) \in Nat
    BY SetCounts
<1>3. Cardinality(T \ {p}) = Cardinality(T) - 1
    BY <1>1, FS_RemoveElement
<1>4. Cardinality(S) <= Cardinality(T \ {p}) /\ Cardinality(S) \in Nat
    BY <1>2, SetCounts
<1> QED
    BY <1>2, <1>3, <1>4

\* The sizes JobFits adds up.
LEMMA Sizes ==
    ASSUME NEW j \in Jobs
    PROVE  /\ Running(j) \in SUBSET Procs /\ Strays(j) \in SUBSET Procs
           /\ Cardinality(Running(j)) \in Nat /\ Cardinality(Strays(j)) \in Nat
<1>1. Running(j) \in SUBSET Procs /\ Strays(j) \in SUBSET Procs
    BY DEF Running, Strays
<1> QED
    BY <1>1, SetCounts

LEMMA SizesNext ==
    ASSUME NEW j \in Jobs
    PROVE  /\ Running(j)' \in SUBSET Procs /\ Strays(j)' \in SUBSET Procs
           /\ Cardinality(Running(j)') \in Nat /\ Cardinality(Strays(j)') \in Nat
<1>1. Running(j)' \in SUBSET Procs /\ Strays(j)' \in SUBSET Procs
    BY DEF Running, Strays
<1> QED
    BY <1>1, SetCounts

\* A step that has nothing to do with a message: the processes that had finished
\* with it may forget it.
Untouched(j) ==
    /\ queue'[j] = queue[j] /\ holder'[j] = holder[j] /\ receives'[j] = receives[j]
    /\ marker'[j] = marker[j] /\ effects'[j] = effects[j] /\ slips'[j] = slips[j]
    /\ \A p \in Procs : \/ step'[p][j] = step[p][j]
                        \/ step'[p][j] = "none" /\ step[p][j] = "settled"

LEMMA UntouchedFits ==
    ASSUME NEW j \in Jobs, JobFits(j), Untouched(j)
    PROVE  JobFits(j)'
<1>1. QueueFits(j)'
    BY DEF JobFits, Untouched, QueueFits
<1>2. WorkIsDone(j)'
    BY DEF JobFits, Untouched, WorkIsDone
<1>3. Running(j)' = Running(j) /\ Strays(j)' = Strays(j)
    BY DEF Untouched, Running, Strays, Keeps
<1>4. /\ Alive(j)' <=> Alive(j)
      /\ KeeperAt(j, "mark")' <=> KeeperAt(j, "mark")
      /\ KeeperAt(j, "run")' <=> KeeperAt(j, "run")
    BY DEF Untouched, JobFits, QueueFits, Alive, KeeperAt
<1>5. RunsFit(j)'
    BY <1>3, <1>4 DEF JobFits, Untouched, RunsFit, One
<1> QED
    BY <1>1, <1>2, <1>5 DEF JobFits

LEMMA InitIInv == Init => IInv
<1> SUFFICES ASSUME Init PROVE IInv
    OBVIOUS
<1>1. TypeOK
    BY JobDispatchAssumption DEF Init, TypeOK, Idle, Steps
<1>2. HandsFree
    BY DEF Init, HandsFree
<1>3. ASSUME NEW j \in Jobs PROVE JobFits(j)
  <2>1. QueueFits(j) /\ WorkIsDone(j)
    BY JobDispatchAssumption DEF Init, QueueFits, WorkIsDone, Idle
  <2>2. Running(j) = {} /\ Strays(j) = {}
    BY DEF Init, Running, Strays, Idle
  <2>3. RunsFit(j)
    BY <2>2, FS_EmptySet DEF Init, RunsFit, One
  <2> QED
    BY <2>1, <2>3 DEF JobFits
<1> QED
    BY <1>1, <1>2, <1>3 DEF IInv

-----------------------------------------------------------------------------
(* What a dispatch does with its message.                                  *)

\* A message of a batch moves to its next await; the others stay where they are.
LEMMA Moved ==
    ASSUME TypeOK, HandsFree, NEW p \in Procs, NEW j \in Jobs, NEW s \in Steps,
           step[p][j] # "none", Goto(p, j, s), UNCHANGED <<loop, stopping>>
    PROVE  /\ step' \in [Procs -> [Jobs -> Steps]]
           /\ \A q \in Procs, k \in Jobs :
                step'[q][k] = IF q = p /\ k = j THEN s ELSE step[q][k]
           /\ HandsFree'
<1> DEFINE row == [step[p] EXCEPT ![j] = s]
<1>1. step' = [step EXCEPT ![p] = row]
    BY DEF Goto
<1>2. step[p] \in [Jobs -> Steps] /\ step \in [Procs -> [Jobs -> Steps]]
    BY DEF TypeOK
<1>3. row \in [Jobs -> Steps] /\ \A k \in Jobs : row[k] = IF k = j THEN s ELSE step[p][k]
    BY <1>2
<1> HIDE DEF row
<1>4. step' \in [Procs -> [Jobs -> Steps]]
    BY <1>1, <1>2, <1>3
<1>5. \A q \in Procs : step'[q] = IF q = p THEN row ELSE step[q]
    BY <1>1, <1>2
<1>6. loop[p] = "batch"
    BY DEF HandsFree, Idle
<1>7. HandsFree'
    BY <1>5, <1>6 DEF HandsFree, Idle
<1> QED
    BY <1>3, <1>4, <1>5, <1>7

LEMMA CheckMarkerKeeps ==
    ASSUME IInv, NEW p \in Procs, NEW j \in Jobs, CheckMarker(p, j)
    PROVE  IInv'
<1> USE JobDispatchAssumption DEF IInv
<1>1. /\ step[p][j] = "exists"
      /\ UNCHANGED <<queue, holder, receives, marker, loop, stopping, effects, slips>>
    BY DEF CheckMarker
<1>2. PICK s \in {"delete", "run"} : /\ Goto(p, j, s)
                                     /\ s = IF marker[j] THEN "delete" ELSE "run"
    BY DEF CheckMarker
<1>3. s \in Steps
    BY DEF Steps
<1>4. /\ step' \in [Procs -> [Jobs -> Steps]]
      /\ \A q \in Procs, k \in Jobs : step'[q][k] = IF q = p /\ k = j THEN s ELSE step[q][k]
      /\ HandsFree'
    BY <1>1, <1>2, <1>3, Moved
<1>5. TypeOK'
    BY <1>1, <1>4 DEF TypeOK
<1>6. \A k \in Jobs : k # j => JobFits(k)'
    BY <1>1, <1>4, UntouchedFits DEF Untouched
<1>7. JobFits(j)'
  <2>1. JobFits(j)
    OBVIOUS
  <2>2. QueueFits(j)'
    BY <1>1, <2>1 DEF JobFits, QueueFits
  <2>3. WorkIsDone(j)'
    BY <1>1, <1>2, <1>4, <2>1 DEF JobFits, WorkIsDone
  <2>4. CASE marker[j]
    <3>1. Running(j)' = Running(j) /\ Strays(j)' \subseteq Strays(j)
        BY <1>1, <1>2, <1>4, <2>4 DEF Running, Strays, Keeps
    <3>2. Alive(j)' <=> Alive(j)
        BY <1>1 DEF Alive
    <3>3. KeeperAt(j, "run")' => KeeperAt(j, "run")
        BY <1>1, <1>2, <1>4, <2>1, <2>4 DEF JobFits, QueueFits, KeeperAt
    <3>4. /\ Cardinality(Strays(j)') <= Cardinality(Strays(j))
          /\ Cardinality(Strays(j)') \in Nat /\ Cardinality(Strays(j)) \in Nat
        BY <3>1, Sizes, SizesNext, SetCounts
    <3>5. effects[j] \in Nat /\ slips[j] \in Nat
        BY DEF TypeOK
    <3> QED
        BY <1>1, <2>1, <2>2, <2>3, <2>4, <3>1, <3>2, <3>3, <3>4, <3>5 DEF JobFits, RunsFit, One
  <2>5. CASE ~marker[j]
    <3>1. Strays(j)' = Strays(j)
        BY <1>1, <1>2, <1>4, <2>5 DEF Strays, Keeps
    <3>2. Alive(j)' <=> Alive(j)
        BY <1>1 DEF Alive
    <3>3. KeeperAt(j, "mark")' <=> KeeperAt(j, "mark")
        BY <1>1, <1>2, <1>4, <2>1, <2>5 DEF JobFits, QueueFits, KeeperAt
    <3>4. /\ Running(j)' \subseteq Strays(j) \cup {holder[j]}
          /\ ~KeeperAt(j, "run")' => Running(j)' \subseteq Strays(j)
        BY <1>1, <3>1 DEF Running, Strays, Keeps, KeeperAt
    <3>5. /\ KeeperAt(j, "run")' => holder[j] \in Procs /\ Alive(j) /\ ~KeeperAt(j, "mark")
          /\ Strays(j) \in SUBSET Procs /\ Running(j)' \in SUBSET Procs
        BY <1>1, <3>3, <2>1, Sizes, SizesNext DEF KeeperAt, Alive, JobFits, QueueFits
    <3>6. Cardinality(Running(j)') <= Cardinality(Strays(j)) + One(Alive(j) /\ ~KeeperAt(j, "mark"))
      <4>1. Cardinality(Running(j)') \in Nat /\ Cardinality(Strays(j)) \in Nat
        BY Sizes, SizesNext
      <4>2. CASE KeeperAt(j, "run")'
        BY <3>4, <3>5, <4>1, <4>2, OneMore DEF One
      <4>3. CASE ~KeeperAt(j, "run")'
        <5>1. Cardinality(Running(j)') <= Cardinality(Strays(j))
            BY <3>4, <3>5, <4>3, SetCounts
        <5> QED
            BY <4>1, <5>1 DEF One
      <4> QED
        BY <4>2, <4>3
    <3>7. effects[j] \in Nat /\ slips[j] \in Nat /\ Cardinality(Running(j)') \in Nat
          /\ Cardinality(Strays(j)) \in Nat
        BY Sizes, SizesNext DEF TypeOK
    <3> QED
        BY <1>1, <2>1, <2>2, <2>3, <2>5, <3>1, <3>2, <3>3, <3>6, <3>7 DEF JobFits, RunsFit, One
  <2> QED
    BY <2>4, <2>5
<1> QED
    BY <1>4, <1>5, <1>6, <1>7

LEMMA RunHandlerKeeps ==
    ASSUME IInv, NEW p \in Procs, NEW j \in Jobs, RunHandler(p, j)
    PROVE  IInv'
<1> USE JobDispatchAssumption DEF IInv
<1>1. /\ step[p][j] = "run" /\ Goto(p, j, "mark")
      /\ effects' = [effects EXCEPT ![j] = @ + 1]
      /\ UNCHANGED <<queue, holder, receives, marker, loop, stopping, slips>>
    BY DEF RunHandler
<1>2. /\ step' \in [Procs -> [Jobs -> Steps]]
      /\ \A q \in Procs, k \in Jobs : step'[q][k] = IF q = p /\ k = j THEN "mark" ELSE step[q][k]
      /\ HandsFree'
  <2>1. "mark" \in Steps
    BY DEF Steps
  <2> QED
    BY <1>1, <2>1, Moved
<1>3. /\ effects' \in [Jobs -> Nat] /\ effects'[j] = effects[j] + 1 /\ effects[j] \in Nat
      /\ \A k \in Jobs : k # j => effects'[k] = effects[k]
    BY <1>1 DEF TypeOK
<1>4. TypeOK'
    BY <1>1, <1>2, <1>3 DEF TypeOK
<1>5. \A k \in Jobs : k # j => JobFits(k)'
    BY <1>1, <1>2, <1>3, UntouchedFits DEF Untouched
<1>6. JobFits(j)'
  <2>1. JobFits(j)
    OBVIOUS
  <2>2. QueueFits(j)'
    BY <1>1, <2>1 DEF JobFits, QueueFits
  <2>3. WorkIsDone(j)'
    BY <1>3 DEF WorkIsDone
  <2>4. Running(j)' \subseteq Running(j) \ {p} /\ p \in Running(j)
    BY <1>1, <1>2 DEF Running
  <2>5. Cardinality(Running(j)') + 1 <= Cardinality(Running(j))
    BY <2>4, Sizes, SizesNext, OneLess
  <2>6. /\ slips[j] \in Nat
        /\ Cardinality(Running(j)') \in Nat /\ Cardinality(Running(j)) \in Nat
        /\ Cardinality(Strays(j)') \in Nat /\ Cardinality(Strays(j)) \in Nat
    BY Sizes, SizesNext DEF TypeOK
  <2>7. Alive(j)' <=> Alive(j)
    BY <1>1 DEF Alive
  <2>8. CASE Keeps(p, j)
    <3>1. Strays(j)' = Strays(j)
        BY <1>1, <1>2, <2>8 DEF Strays, Keeps
    <3>2. /\ KeeperAt(j, "mark")' /\ ~KeeperAt(j, "run")'
          /\ ~KeeperAt(j, "mark") /\ KeeperAt(j, "run") /\ Alive(j)
        BY <1>1, <1>2, <2>8 DEF Keeps, KeeperAt, Alive
    <3> QED
        BY <1>1, <1>3, <2>1, <2>2, <2>3, <2>5, <2>6, <2>7, <3>1, <3>2 DEF JobFits, RunsFit, One
  <2>9. CASE ~Keeps(p, j)
    <3>1. Strays(j)' \subseteq Strays(j) \ {p} /\ p \in Strays(j)
        BY <1>1, <1>2, <2>9 DEF Strays, Keeps
    <3>2. Cardinality(Strays(j)') + 1 <= Cardinality(Strays(j))
        BY <3>1, Sizes, SizesNext, OneLess
    <3>3. /\ KeeperAt(j, "mark")' <=> KeeperAt(j, "mark")
          /\ KeeperAt(j, "run")' <=> KeeperAt(j, "run")
        BY <1>1, <1>2, <2>1, <2>9 DEF Keeps, KeeperAt, JobFits, QueueFits
    <3> QED
        BY <1>1, <1>3, <2>1, <2>2, <2>3, <2>5, <2>6, <2>7, <3>2, <3>3 DEF JobFits, RunsFit, One
  <2> QED
    BY <2>8, <2>9
<1> QED
    BY <1>2, <1>4, <1>5, <1>6

LEMMA MarkDoneKeeps ==
    ASSUME IInv, NEW p \in Procs, NEW j \in Jobs, MarkDone(p, j)
    PROVE  IInv'
<1> USE JobDispatchAssumption DEF IInv
<1>1. /\ step[p][j] = "mark" /\ Goto(p, j, "delete")
      /\ marker' = [marker EXCEPT ![j] = TRUE]
      /\ UNCHANGED <<queue, holder, receives, effects, loop, stopping, slips>>
    BY DEF MarkDone
<1>2. /\ step' \in [Procs -> [Jobs -> Steps]]
      /\ \A q \in Procs, k \in Jobs : step'[q][k] = IF q = p /\ k = j THEN "delete" ELSE step[q][k]
      /\ HandsFree'
  <2>1. "delete" \in Steps
    BY DEF Steps
  <2> QED
    BY <1>1, <2>1, Moved
<1>3. /\ marker' \in [Jobs -> BOOLEAN] /\ marker'[j]
      /\ \A k \in Jobs : k # j => marker'[k] = marker[k]
    BY <1>1 DEF TypeOK
<1>4. TypeOK'
    BY <1>1, <1>2, <1>3 DEF TypeOK
<1>5. \A k \in Jobs : k # j => JobFits(k)'
    BY <1>1, <1>2, <1>3, UntouchedFits DEF Untouched
<1>6. JobFits(j)'
  <2>1. JobFits(j)
    OBVIOUS
  <2>2. QueueFits(j)'
    BY <1>1, <2>1 DEF JobFits, QueueFits
  <2>3. WorkIsDone(j)'
    BY <1>1, <2>1 DEF JobFits, WorkIsDone
  <2>4. Running(j)' = Running(j) /\ Strays(j)' = Strays(j)
    BY <1>1, <1>2 DEF Running, Strays, Keeps
  <2>5. /\ slips[j] \in Nat /\ effects[j] \in Nat
        /\ Cardinality(Running(j)) \in Nat /\ Cardinality(Strays(j)) \in Nat
    BY Sizes DEF TypeOK
  <2>6. Alive(j)' <=> Alive(j)
    BY <1>1 DEF Alive
  <2>7. /\ KeeperAt(j, "run")' <=> KeeperAt(j, "run")
        /\ KeeperAt(j, "mark") => ~KeeperAt(j, "run")
    BY <1>1, <1>2, <2>1 DEF KeeperAt, JobFits, QueueFits
  <2> QED
    BY <1>1, <1>3, <2>1, <2>2, <2>3, <2>4, <2>5, <2>6, <2>7 DEF JobFits, RunsFit, One
<1> QED
    BY <1>2, <1>4, <1>5, <1>6

LEMMA DeleteMessageKeeps ==
    ASSUME IInv, NEW p \in Procs, NEW j \in Jobs, DeleteMessage(p, j)
    PROVE  IInv'
<1> USE JobDispatchAssumption DEF IInv
<1>1. /\ step[p][j] = "delete" /\ Goto(p, j, "settled")
      /\ queue' = [queue EXCEPT ![j] = "deleted"] \/ queue' = queue
      /\ UNCHANGED <<holder, receives, marker, effects, loop, stopping, slips>>
    BY DEF DeleteMessage
<1>2. /\ step' \in [Procs -> [Jobs -> Steps]]
      /\ \A q \in Procs, k \in Jobs : step'[q][k] = IF q = p /\ k = j THEN "settled" ELSE step[q][k]
      /\ HandsFree'
  <2>1. "settled" \in Steps
    BY DEF Steps
  <2> QED
    BY <1>1, <2>1, Moved
<1>3. /\ queue'[j] = "deleted" \/ queue'[j] = queue[j]
      /\ \A k \in Jobs : k # j => queue'[k] = queue[k]
    BY <1>1 DEF TypeOK
<1>4. TypeOK'
    BY <1>1, <1>2 DEF TypeOK
<1>5. \A k \in Jobs : k # j => JobFits(k)'
    BY <1>1, <1>2, <1>3, UntouchedFits DEF Untouched
<1>6. JobFits(j)'
  <2>1. JobFits(j)
    OBVIOUS
  <2>2. QueueFits(j)'
    BY <1>1, <1>3, <2>1 DEF JobFits, QueueFits
  <2>3. WorkIsDone(j)'
    BY <1>1, <2>1 DEF JobFits, WorkIsDone
  <2>4. Running(j)' = Running(j)
    BY <1>1, <1>2 DEF Running
  <2>5. /\ slips[j] \in Nat /\ effects[j] \in Nat /\ Cardinality(Running(j)) \in Nat
        /\ Cardinality(Strays(j)') \in Nat /\ Cardinality(Strays(j)) \in Nat
    BY Sizes, SizesNext DEF TypeOK
  <2>6. CASE queue'[j] = queue[j]
    <3>1. Strays(j)' = Strays(j) /\ (Alive(j)' <=> Alive(j))
        BY <1>1, <1>2, <2>6 DEF Strays, Keeps, Alive
    <3>2. /\ KeeperAt(j, "run")' <=> KeeperAt(j, "run")
          /\ KeeperAt(j, "mark")' <=> KeeperAt(j, "mark")
        BY <1>1, <1>2, <2>1, <2>6 DEF KeeperAt, JobFits, QueueFits
    <3> QED
        BY <1>1, <2>1, <2>2, <2>3, <2>4, <2>5, <3>1, <3>2 DEF JobFits, RunsFit, One
  <2>7. CASE queue'[j] = "deleted"
    <3>1. ~Alive(j)' /\ ~KeeperAt(j, "run")'
        BY <2>7 DEF Alive, KeeperAt
    <3>2. CASE queue[j] = "hidden" /\ step[holder[j]][j] \in {"exists", "run"}
      <4>1. Strays(j)' \subseteq Strays(j) \cup {holder[j]} /\ holder[j] \in Procs
        BY <1>1, <1>2, <2>1, <3>2 DEF Strays, Keeps, JobFits, QueueFits
      <4>2. Cardinality(Strays(j)') <= Cardinality(Strays(j)) + 1
        BY <4>1, Sizes, SizesNext, OneMore
      <4>3. Alive(j) /\ ~KeeperAt(j, "mark")
        BY <3>2 DEF Alive, KeeperAt
      <4> QED
        BY <1>1, <2>1, <2>2, <2>3, <2>4, <2>5, <3>1, <4>2, <4>3 DEF JobFits, RunsFit, One
    <3>3. CASE ~(queue[j] = "hidden" /\ step[holder[j]][j] \in {"exists", "run"})
      <4>1. Strays(j)' \subseteq Strays(j)
        BY <1>1, <1>2, <3>3 DEF Strays, Keeps
      <4>2. Cardinality(Strays(j)') <= Cardinality(Strays(j))
        BY <4>1, Sizes, SizesNext, SetCounts
      <4> QED
        BY <1>1, <2>1, <2>2, <2>3, <2>4, <2>5, <3>1, <4>2 DEF JobFits, RunsFit, One
    <3> QED
        BY <3>2, <3>3
  <2> QED
    BY <1>3, <2>6, <2>7
<1> QED
    BY <1>2, <1>4, <1>5, <1>6

\* A process lets go of a message, with a slip if it had run the handler and not
\* said so yet.
LetsGo(p, j) ==
    /\ queue'[j] = queue[j] /\ holder'[j] = holder[j] /\ receives'[j] = receives[j]
    /\ marker'[j] = marker[j] /\ effects'[j] = effects[j]
    /\ slips'[j] = IF step[p][j] = "mark" THEN slips[j] + 1 ELSE slips[j]
    /\ step'[p][j] \in {"none", "settled"}
    /\ \A q \in Procs : q # p => step'[q][j] = step[q][j]

LEMMA LetsGoFits ==
    ASSUME TypeOK, NEW p \in Procs, NEW j \in Jobs, JobFits(j), LetsGo(p, j)
    PROVE  JobFits(j)'
<1>1. QueueFits(j)'
    BY DEF JobFits, QueueFits, LetsGo
<1>2. WorkIsDone(j)'
  <2>1. \A q \in Procs : step'[q][j] \in {"mark", "delete"} => step[q][j] \in {"mark", "delete"}
    BY DEF LetsGo
  <2> QED
    BY <2>1 DEF JobFits, WorkIsDone, LetsGo
<1>3. Running(j)' \subseteq Running(j) /\ Strays(j)' \subseteq Strays(j)
    BY DEF Running, Strays, Keeps, LetsGo
<1>4. /\ Cardinality(Running(j)') <= Cardinality(Running(j))
      /\ Cardinality(Strays(j)') <= Cardinality(Strays(j))
      /\ Cardinality(Running(j)') \in Nat /\ Cardinality(Running(j)) \in Nat
      /\ Cardinality(Strays(j)') \in Nat /\ Cardinality(Strays(j)) \in Nat
    BY <1>3, Sizes, SizesNext, SetCounts
<1>5. slips[j] \in Nat /\ effects[j] \in Nat
    BY DEF TypeOK
<1>6. /\ Alive(j)' <=> Alive(j)
      /\ KeeperAt(j, "run")' => KeeperAt(j, "run")
      /\ step[p][j] # "mark" => (KeeperAt(j, "mark") => KeeperAt(j, "mark")')
    BY DEF LetsGo, JobFits, QueueFits, Alive, KeeperAt
<1>7. RunsFit(j)'
  <2>1. CASE step[p][j] = "mark"
    BY <1>4, <1>5, <1>6, <2>1 DEF LetsGo, JobFits, RunsFit, One
  <2>2. CASE step[p][j] # "mark"
    BY <1>4, <1>5, <1>6, <2>2 DEF LetsGo, JobFits, RunsFit, One
  <2> QED
    BY <2>1, <2>2
<1> QED
    BY <1>1, <1>2, <1>7 DEF JobFits

LEMMA StepFailsKeeps ==
    ASSUME IInv, NEW p \in Procs, NEW j \in Jobs, StepFails(p, j)
    PROVE  IInv'
<1> USE JobDispatchAssumption DEF IInv
<1>1. /\ step[p][j] # "none" /\ Goto(p, j, "settled")
      /\ slips' = [k \in Jobs |-> IF k \in (IF step[p][j] = "mark" THEN {j} ELSE {})
                                    THEN slips[k] + 1 ELSE slips[k]]
      /\ UNCHANGED <<queue, holder, receives, marker, effects, loop, stopping>>
    BY DEF StepFails, Slip
<1>2. /\ step' \in [Procs -> [Jobs -> Steps]]
      /\ \A q \in Procs, k \in Jobs : step'[q][k] = IF q = p /\ k = j THEN "settled" ELSE step[q][k]
      /\ HandsFree'
  <2>1. "settled" \in Steps
    BY DEF Steps
  <2> QED
    BY <1>1, <2>1, Moved
<1>3. /\ slips' \in [Jobs -> Nat]
      /\ slips'[j] = IF step[p][j] = "mark" THEN slips[j] + 1 ELSE slips[j]
      /\ \A k \in Jobs : k # j => slips'[k] = slips[k]
    BY <1>1 DEF TypeOK
<1>4. TypeOK'
    BY <1>1, <1>2, <1>3 DEF TypeOK
<1>5. \A k \in Jobs : k # j => JobFits(k)'
    BY <1>1, <1>2, <1>3, UntouchedFits DEF Untouched
<1>6. LetsGo(p, j)
    BY <1>1, <1>2, <1>3 DEF LetsGo
<1> QED
    BY <1>2, <1>4, <1>5, <1>6, LetsGoFits

-----------------------------------------------------------------------------
(* What a process does with all it has in hand.                            *)

\* A process forgets its batch.
LEMMA Forgotten ==
    ASSUME IInv, NEW p \in Procs, step' = [step EXCEPT ![p] = Idle],
           UNCHANGED <<queue, holder, receives, marker, effects>>,
           Slip({j \in Jobs : step[p][j] = "mark"}),
           loop' \in [Procs -> {"top", "polling", "batch", "ended", "down"}],
           stopping' \in [Procs -> {"no", "drain", "unwind", "stopped", "killed"}],
           \A q \in Procs : q # p => loop'[q] = loop[q] /\ stopping'[q] = stopping[q],
           stopping'[p] = "stopped" => loop'[p] = "ended"
    PROVE  IInv'
<1> USE DEF IInv
<1>1. /\ step' \in [Procs -> [Jobs -> Steps]]
      /\ \A q \in Procs : step'[q] = IF q = p THEN Idle ELSE step[q]
  <2>1. Idle \in [Jobs -> Steps]
    BY DEF Idle, Steps
  <2> QED
    BY <2>1 DEF TypeOK
<1>2. /\ slips' \in [Jobs -> Nat]
      /\ \A j \in Jobs : slips'[j] = IF step[p][j] = "mark" THEN slips[j] + 1 ELSE slips[j]
    BY DEF Slip, TypeOK
<1>3. TypeOK'
    BY <1>1, <1>2 DEF TypeOK
<1>4. HandsFree'
    BY <1>1 DEF HandsFree, Idle
<1>5. ASSUME NEW j \in Jobs PROVE JobFits(j)'
  <2>1. step'[p][j] = "none"
    BY <1>1 DEF Idle
  <2>2. LetsGo(p, j)
    BY <1>1, <1>2, <2>1 DEF LetsGo
  <2> QED
    BY <2>2, LetsGoFits
<1> QED
    BY <1>3, <1>4, <1>5

LEMMA FinishBatchKeeps ==
    ASSUME IInv, NEW p \in Procs, FinishBatch(p)
    PROVE  IInv'
<1> USE DEF IInv
<1>1. /\ loop[p] = "batch" /\ loop' = [loop EXCEPT ![p] = "top"] /\ step' = [step EXCEPT ![p] = Idle]
      /\ UNCHANGED <<queue, holder, receives, marker, stopping, effects, slips>>
    BY DEF FinishBatch
<1>2. \A j \in Jobs : step[p][j] # "mark"
    BY DEF FinishBatch, InFlight, Dispatching
<1>3. Slip({j \in Jobs : step[p][j] = "mark"})
  <2>1. slips = [j \in Jobs |-> slips[j]]
    BY DEF TypeOK
  <2> QED
    BY <1>1, <1>2, <2>1 DEF Slip
<1>4. /\ loop' \in [Procs -> {"top", "polling", "batch", "ended", "down"}]
      /\ \A q \in Procs : q # p => loop'[q] = loop[q]
    BY <1>1 DEF TypeOK
<1>5. stopping'[p] # "stopped"
    BY <1>1 DEF HandsFree
<1>6. stopping' \in [Procs -> {"no", "drain", "unwind", "stopped", "killed"}]
    BY <1>1 DEF TypeOK
<1> QED
    BY <1>1, <1>3, <1>4, <1>5, <1>6, Forgotten

LEMMA DieKeeps ==
    ASSUME IInv, NEW p \in Procs, Die(p), NEW s \in {"no", "killed"},
           stopping' = [stopping EXCEPT ![p] = s]
    PROVE  IInv'
<1> USE DEF IInv
<1>1. /\ loop' = [loop EXCEPT ![p] = "down"] /\ step' = [step EXCEPT ![p] = Idle]
      /\ Slip({j \in Jobs : step[p][j] = "mark"})
      /\ UNCHANGED <<queue, holder, receives, marker, effects>>
    BY DEF Die
<1>2. /\ loop' \in [Procs -> {"top", "polling", "batch", "ended", "down"}]
      /\ \A q \in Procs : q # p => loop'[q] = loop[q]
    BY <1>1 DEF TypeOK
<1>3. /\ stopping' \in [Procs -> {"no", "drain", "unwind", "stopped", "killed"}]
      /\ stopping'[p] # "stopped" /\ \A q \in Procs : q # p => stopping'[q] = stopping[q]
    BY DEF TypeOK
<1> QED
    BY <1>1, <1>2, <1>3, Forgotten

\* The loop and the shutdown, between batches.
LEMMA LoopKeeps ==
    ASSUME IInv, UNCHANGED <<queue, holder, receives, marker, step, effects, slips>>,
           loop' \in [Procs -> {"top", "polling", "batch", "ended", "down"}],
           stopping' \in [Procs -> {"no", "drain", "unwind", "stopped", "killed"}],
           \A p \in Procs : /\ loop'[p] # loop[p] => loop[p] \notin {"batch", "ended"}
                            /\ stopping'[p] = "stopped" /\ stopping'[p] # stopping[p] => loop'[p] = "ended"
    PROVE  IInv'
<1>1. TypeOK'
    BY DEF IInv, TypeOK
<1>2. HandsFree'
    BY DEF IInv, HandsFree
<1>3. \A j \in Jobs : JobFits(j)'
    BY UntouchedFits DEF IInv, Untouched
<1> QED
    BY <1>1, <1>2, <1>3 DEF IInv

LEMMA PollKeeps ==
    ASSUME IInv, NEW p \in Procs, Poll(p) \/ ReceiveNothing(p) \/ Restart(p)
    PROVE  IInv'
<1>1. PICK l \in {"top", "polling", "ended"} :
        loop' = [loop EXCEPT ![p] = l] /\ loop[p] \notin {"batch", "ended"}
    BY DEF Poll, ReceiveNothing, Restart
<1>2. UNCHANGED <<queue, holder, receives, marker, step, stopping, effects, slips>>
    BY DEF Poll, ReceiveNothing, Restart
<1>3. /\ loop' \in [Procs -> {"top", "polling", "batch", "ended", "down"}]
      /\ \A q \in Procs : loop'[q] # loop[q] => loop[q] \notin {"batch", "ended"}
    BY <1>1 DEF IInv, TypeOK
<1>4. stopping' \in [Procs -> {"no", "drain", "unwind", "stopped", "killed"}]
    BY <1>2 DEF IInv, TypeOK
<1> QED
    BY <1>2, <1>3, <1>4, LoopKeeps

LEMMA ShutdownKeeps ==
    ASSUME IInv, NEW p \in Procs, Stop(p) \/ Drained(p) \/ Unwound(p)
    PROVE  IInv'
<1>1. PICK s \in {"drain", "unwind", "stopped"} :
        stopping' = [stopping EXCEPT ![p] = s] /\ (s = "stopped" => loop[p] = "ended")
    BY DEF Stop, Drained, Unwound
<1>2. UNCHANGED <<queue, holder, receives, marker, loop, step, effects, slips>>
    BY DEF Stop, Drained, Unwound
<1>3. /\ stopping' \in [Procs -> {"no", "drain", "unwind", "stopped", "killed"}]
      /\ \A q \in Procs : stopping'[q] = "stopped" /\ stopping'[q] # stopping[q] => loop'[q] = "ended"
    BY <1>1, <1>2 DEF IInv, TypeOK
<1>4. loop' \in [Procs -> {"top", "polling", "batch", "ended", "down"}]
    BY <1>2 DEF IInv, TypeOK
<1> QED
    BY <1>2, <1>3, <1>4, LoopKeeps

-----------------------------------------------------------------------------
(* What the queue and Redis do.                                            *)

LEMMA SendKeeps ==
    ASSUME IInv, NEW j \in Jobs, Send(j)
    PROVE  IInv'
<1> USE DEF IInv
<1>1. /\ queue[j] = "unsent" /\ queue' = [queue EXCEPT ![j] = "visible"]
      /\ UNCHANGED <<holder, receives, marker, loop, step, stopping, effects, slips>>
    BY DEF Send
<1>2. queue'[j] = "visible" /\ \A k \in Jobs : k # j => queue'[k] = queue[k]
    BY <1>1 DEF TypeOK
<1>3. TypeOK' /\ HandsFree'
    BY <1>1 DEF TypeOK, HandsFree
<1>4. \A k \in Jobs : k # j => JobFits(k)'
    BY <1>1, <1>2, UntouchedFits DEF Untouched
<1>5. JobFits(j)'
  <2>1. QueueFits(j)' /\ WorkIsDone(j)'
    BY <1>1, <1>2 DEF JobFits, QueueFits, WorkIsDone
  <2>2. Running(j)' = Running(j) /\ Strays(j)' = Strays(j)
    BY <1>1, <1>2 DEF Running, Strays, Keeps
  <2>3. /\ Alive(j)' /\ Alive(j) /\ ~KeeperAt(j, "mark") /\ ~KeeperAt(j, "mark")'
        /\ ~KeeperAt(j, "run") /\ ~KeeperAt(j, "run")'
    BY <1>1, <1>2 DEF Alive, KeeperAt
  <2>4. RunsFit(j)'
    BY <1>1, <2>2, <2>3 DEF JobFits, RunsFit, One
  <2> QED
    BY <2>1, <2>4 DEF JobFits
<1> QED
    BY <1>3, <1>4, <1>5

LEMMA VisibilityEndsKeeps ==
    ASSUME IInv, NEW j \in Jobs, VisibilityEnds(j)
    PROVE  IInv'
<1> USE DEF IInv
<1>1. /\ queue[j] = "hidden" /\ step[holder[j]][j] \notin {"exists", "run", "mark"}
      /\ queue' = [queue EXCEPT ![j] = Reappear(j)]
      /\ UNCHANGED <<holder, receives, marker, loop, step, stopping, effects, slips>>
    BY DEF VisibilityEnds, Dispatching
<1>2. /\ queue'[j] \in {"visible", "dead"} /\ queue'[j] = Reappear(j)
      /\ \A k \in Jobs : k # j => queue'[k] = queue[k]
    BY <1>1 DEF TypeOK, Reappear
<1>3. TypeOK' /\ HandsFree'
  <2>1. queue' \in [Jobs -> {"unsent", "visible", "hidden", "deleted", "dead"}]
    BY <1>1 DEF TypeOK, Reappear
  <2> QED
    BY <1>1, <2>1 DEF TypeOK, HandsFree
<1>4. \A k \in Jobs : k # j => JobFits(k)'
    BY <1>1, <1>2, UntouchedFits DEF Untouched
<1>5. JobFits(j)'
  <2>1. QueueFits(j)' /\ WorkIsDone(j)'
    BY <1>1, <1>2 DEF JobFits, QueueFits, WorkIsDone, Reappear
  <2>2. Running(j)' = Running(j) /\ Strays(j)' = Strays(j)
    BY <1>1, <1>2 DEF Running, Strays, Keeps
  <2>3. /\ Alive(j) /\ ~KeeperAt(j, "mark") /\ ~KeeperAt(j, "mark")'
        /\ ~KeeperAt(j, "run") /\ ~KeeperAt(j, "run")'
    BY <1>1, <1>2 DEF Alive, KeeperAt
  <2>4. /\ slips[j] \in Nat /\ effects[j] \in Nat /\ Cardinality(Strays(j)) \in Nat
    BY Sizes DEF TypeOK
  <2>5. RunsFit(j)'
    BY <1>1, <2>2, <2>3, <2>4 DEF JobFits, RunsFit, One
  <2> QED
    BY <2>1, <2>5 DEF JobFits
<1> QED
    BY <1>3, <1>4, <1>5

LEMMA HeartbeatFailsKeeps ==
    ASSUME IInv, NEW j \in Jobs, HeartbeatFails(j)
    PROVE  IInv'
<1> USE DEF IInv
<1>1. /\ queue[j] = "hidden" /\ step[holder[j]][j] \in {"exists", "run", "mark"}
      /\ queue' = [queue EXCEPT ![j] = Reappear(j)]
      /\ slips' = [k \in Jobs |-> IF k \in {j} THEN slips[k] + 1 ELSE slips[k]]
      /\ UNCHANGED <<holder, receives, marker, loop, step, stopping, effects>>
    BY DEF HeartbeatFails, Dispatching, Slip
<1>2. /\ queue'[j] \in {"visible", "dead"} /\ queue'[j] = Reappear(j)
      /\ \A k \in Jobs : k # j => queue'[k] = queue[k]
    BY <1>1 DEF TypeOK, Reappear
<1>3. /\ slips' \in [Jobs -> Nat] /\ slips'[j] = slips[j] + 1
      /\ \A k \in Jobs : k # j => slips'[k] = slips[k]
    BY <1>1 DEF TypeOK
<1>4. TypeOK' /\ HandsFree'
  <2>1. queue' \in [Jobs -> {"unsent", "visible", "hidden", "deleted", "dead"}]
    BY <1>1 DEF TypeOK, Reappear
  <2> QED
    BY <1>1, <1>3, <2>1 DEF TypeOK, HandsFree
<1>5. \A k \in Jobs : k # j => JobFits(k)'
    BY <1>1, <1>2, <1>3, UntouchedFits DEF Untouched
<1>6. JobFits(j)'
  <2>1. QueueFits(j)' /\ WorkIsDone(j)'
    BY <1>1, <1>2 DEF JobFits, QueueFits, WorkIsDone, Reappear
  <2>2. Running(j)' = Running(j)
    BY <1>1 DEF Running
  <2>3. Strays(j)' \subseteq Strays(j) \cup {holder[j]} /\ holder[j] \in Procs
    BY <1>1, <1>2 DEF Strays, Keeps, JobFits, QueueFits
  <2>4. /\ Alive(j) /\ ~KeeperAt(j, "mark")' /\ ~KeeperAt(j, "run")'
    BY <1>1, <1>2 DEF Alive, KeeperAt
  <2>5. /\ slips[j] \in Nat /\ effects[j] \in Nat /\ Cardinality(Running(j)) \in Nat
        /\ Cardinality(Strays(j)) \in Nat /\ Cardinality(Strays(j)') \in Nat
    BY Sizes, SizesNext DEF TypeOK
  <2>6. CASE step[holder[j]][j] = "mark"
    <3>1. Strays(j)' \subseteq Strays(j)
        BY <1>1, <1>2, <2>6 DEF Strays, Keeps
    <3>2. Cardinality(Strays(j)') <= Cardinality(Strays(j))
        BY <3>1, Sizes, SizesNext, SetCounts
    <3>3. KeeperAt(j, "mark") /\ ~KeeperAt(j, "run")
        BY <1>1, <2>6 DEF KeeperAt
    <3>4. RunsFit(j)'
        BY <1>1, <1>3, <2>2, <2>4, <2>5, <3>2, <3>3 DEF JobFits, RunsFit, One
    <3> QED
        BY <2>1, <3>4 DEF JobFits
  <2>7. CASE step[holder[j]][j] # "mark"
    <3>1. Cardinality(Strays(j)') <= Cardinality(Strays(j)) + 1
        BY <2>3, Sizes, SizesNext, OneMore
    <3>2. ~KeeperAt(j, "mark")
        BY <2>7 DEF KeeperAt
    <3>3. RunsFit(j)'
        BY <1>1, <1>3, <2>2, <2>4, <2>5, <3>1, <3>2 DEF JobFits, RunsFit, One
    <3> QED
        BY <2>1, <3>3 DEF JobFits
  <2> QED
    BY <2>6, <2>7
<1> QED
    BY <1>4, <1>5, <1>6

LEMMA MarkerLostKeeps ==
    ASSUME IInv, NEW j \in Jobs, MarkerLost(j)
    PROVE  IInv'
<1> USE DEF IInv
<1>1. /\ marker[j] /\ marker' = [marker EXCEPT ![j] = FALSE]
      /\ slips' = [k \in Jobs |-> IF k \in {j} THEN slips[k] + 1 ELSE slips[k]]
      /\ UNCHANGED <<queue, holder, receives, loop, step, stopping, effects>>
    BY DEF MarkerLost, Slip
<1>2. /\ marker' \in [Jobs -> BOOLEAN] /\ ~marker'[j]
      /\ \A k \in Jobs : k # j => marker'[k] = marker[k]
    BY <1>1 DEF TypeOK
<1>3. /\ slips' \in [Jobs -> Nat] /\ slips'[j] = slips[j] + 1
      /\ \A k \in Jobs : k # j => slips'[k] = slips[k]
    BY <1>1 DEF TypeOK
<1>4. TypeOK' /\ HandsFree'
    BY <1>1, <1>2, <1>3 DEF TypeOK, HandsFree
<1>5. \A k \in Jobs : k # j => JobFits(k)'
    BY <1>1, <1>2, <1>3, UntouchedFits DEF Untouched
<1>6. JobFits(j)'
  <2>1. QueueFits(j)' /\ WorkIsDone(j)'
    BY <1>1, <1>2 DEF JobFits, QueueFits, WorkIsDone
  <2>2. Running(j)' = Running(j) /\ Strays(j)' = Strays(j)
    BY <1>1 DEF Running, Strays, Keeps
  <2>3. /\ Alive(j)' <=> Alive(j)
    BY <1>1 DEF Alive
  <2>4. /\ slips[j] \in Nat /\ effects[j] \in Nat /\ Cardinality(Running(j)) \in Nat
        /\ Cardinality(Strays(j)) \in Nat
    BY Sizes DEF TypeOK
  <2>5. RunsFit(j)'
    BY <1>1, <1>2, <1>3, <2>2, <2>3, <2>4 DEF JobFits, RunsFit, One
  <2> QED
    BY <2>1, <2>5 DEF JobFits
<1> QED
    BY <1>4, <1>5, <1>6

LEMMA ReceiveKeeps ==
    ASSUME IInv, NEW p \in Procs, NEW B \in SUBSET Jobs, Receive(p, B)
    PROVE  IInv'
<1> USE JobDispatchAssumption DEF IInv
<1>1. /\ loop[p] = "polling" /\ loop' = [loop EXCEPT ![p] = "batch"]
      /\ \A j \in B : queue[j] = "visible"
      /\ UNCHANGED <<marker, stopping, effects, slips>>
    BY DEF Receive
<1>2. /\ queue' = [j \in Jobs |-> IF j \in B THEN "hidden" ELSE queue[j]]
      /\ holder' = [j \in Jobs |-> IF j \in B THEN p ELSE holder[j]]
      /\ receives' = [j \in Jobs |-> IF j \in B THEN receives[j] + 1 ELSE receives[j]]
      /\ step' = [step EXCEPT ![p] = [j \in Jobs |-> IF j \in B THEN "exists" ELSE "none"]]
    BY DEF Receive
<1>3. /\ step' \in [Procs -> [Jobs -> Steps]]
      /\ \A q \in Procs, j \in Jobs :
            step'[q][j] = IF q = p THEN IF j \in B THEN "exists" ELSE "none" ELSE step[q][j]
      /\ \A q \in Procs : q # p => step'[q] = step[q]
  <2> DEFINE row == [j \in Jobs |-> IF j \in B THEN "exists" ELSE "none"]
  <2>1. row \in [Jobs -> Steps] /\ \A j \in Jobs : row[j] = IF j \in B THEN "exists" ELSE "none"
    BY DEF Steps
  <2>2. step' = [step EXCEPT ![p] = row]
    BY <1>2
  <2> HIDE DEF row
  <2> QED
    BY <2>1, <2>2 DEF TypeOK
<1>4. \A j \in Jobs : step[p][j] = "none"
    BY <1>1 DEF HandsFree, Idle
<1>5. TypeOK'
  <2>1. \A j \in Jobs : j \in B => receives[j] + 1 \in 0..MaxReceives
    BY <1>1 DEF JobFits, QueueFits, TypeOK
  <2>2. receives' \in [Jobs -> 0..MaxReceives]
    BY <1>2, <2>1 DEF TypeOK
  <2> QED
    BY <1>1, <1>2, <1>3, <2>2 DEF TypeOK
<1>6. HandsFree'
    BY <1>1, <1>3 DEF HandsFree, TypeOK
<1>7. \A j \in Jobs : j \notin B => JobFits(j)'
    BY <1>1, <1>2, <1>3, <1>4, UntouchedFits DEF Untouched
<1>8. ASSUME NEW j \in B PROVE JobFits(j)'
  <2>1. queue[j] = "visible" /\ queue'[j] = "hidden" /\ holder'[j] = p
    BY <1>1, <1>2
  <2>2. QueueFits(j)'
    BY <2>1 DEF QueueFits
  <2>3. WorkIsDone(j)'
    BY <1>1, <1>3, <2>1 DEF JobFits, WorkIsDone
  <2>4. Running(j)' = Running(j) /\ Strays(j)' = Strays(j)
    BY <1>3, <1>4, <2>1 DEF Running, Strays, Keeps
  <2>5. /\ Alive(j) /\ Alive(j)' /\ ~KeeperAt(j, "mark") /\ ~KeeperAt(j, "run")
        /\ ~KeeperAt(j, "mark")' /\ ~KeeperAt(j, "run")'
    BY <1>3, <2>1 DEF Alive, KeeperAt
  <2>6. RunsFit(j)'
    BY <1>1, <2>4, <2>5 DEF JobFits, RunsFit, One
  <2> QED
    BY <2>2, <2>3, <2>6 DEF JobFits
<1> QED
    BY <1>5, <1>6, <1>7, <1>8

-----------------------------------------------------------------------------
(* The theorems.                                                           *)

LEMMA StepKeepsIInv == IInv /\ [Next]_vars => IInv'
<1> SUFFICES ASSUME IInv, [Next]_vars PROVE IInv'
    OBVIOUS
<1>1. CASE \E j \in Jobs : Send(j) \/ VisibilityEnds(j) \/ HeartbeatFails(j) \/ MarkerLost(j)
    BY <1>1, SendKeeps, VisibilityEndsKeeps, HeartbeatFailsKeeps, MarkerLostKeeps
<1>2. ASSUME NEW p \in Procs, Turn(p)
      PROVE  IInv'
    BY <1>2, PollKeeps, ShutdownKeeps, FinishBatchKeeps, CheckMarkerKeeps, MarkDoneKeeps,
       DeleteMessageKeeps DEF Turn
<1>3. ASSUME NEW p \in Procs, ReceiveSome(p) \/ ReceiveNothing(p) \/ Stop(p)
      PROVE  IInv'
    BY <1>3, ReceiveKeeps, PollKeeps, ShutdownKeeps DEF ReceiveSome
<1>4. ASSUME NEW p \in Procs, NEW j \in Jobs, RunHandler(p, j) \/ StepFails(p, j)
      PROVE  IInv'
    BY <1>4, RunHandlerKeeps, StepFailsKeeps
<1>5. ASSUME NEW p \in Procs, ForceExit(p) \/ Crash(p)
      PROVE  IInv'
  <2>1. Die(p) /\ \E s \in {"no", "killed"} : stopping' = [stopping EXCEPT ![p] = s]
    BY <1>5 DEF ForceExit, Crash
  <2> QED
    BY <2>1, DieKeeps
<1>6. CASE UNCHANGED vars
  <2>1. TypeOK' /\ HandsFree'
    BY <1>6 DEF vars, IInv, TypeOK, HandsFree
  <2>2. \A j \in Jobs : JobFits(j)'
    BY <1>6, UntouchedFits DEF vars, IInv, Untouched
  <2> QED
    BY <2>1, <2>2 DEF IInv
<1> QED
    BY <1>1, <1>2, <1>3, <1>4, <1>5, <1>6 DEF Next

LEMMA Invariant == Spec => []IInv
BY InitIInv, StepKeepsIInv, PTL DEF Spec

\* Receptions stay within the limit of the queue, and every process and message is
\* at a stage the code has.
THEOREM TypeCorrect == Spec => []TypeOK
<1>1. IInv => TypeOK
    BY DEF IInv
<1> QED
    BY <1>1, Invariant, PTL

\* A message is deleted only once its handler has succeeded (dispatch.ts:50-63,
\* sqsPoller.ts:96-99).
THEOREM NoJobIsDropped == Spec => []NeverDropped
<1>1. IInv => NeverDropped
    BY DEF IInv, JobFits, WorkIsDone, NeverDropped
<1> QED
    BY <1>1, Invariant, PTL

\* A handler runs once, and once more for each slip at most (dispatch.ts:41-63).
THEOREM DuplicatesAreExplained == Spec => []DuplicatesExplained
<1>1. IInv => DuplicatesExplained
  <2> SUFFICES ASSUME IInv, NEW j \in Jobs PROVE effects[j] <= 1 + slips[j]
    BY DEF DuplicatesExplained
  <2>1. effects[j] \in Nat /\ slips[j] \in Nat /\ Cardinality(Running(j)) \in Nat
    BY Sizes DEF IInv, TypeOK
  <2> QED
    BY <2>1 DEF IInv, JobFits, RunsFit
<1> QED
    BY <1>1, Invariant, PTL

\* A process that stopped cleanly has left no message half done (sqsPoller.ts:124-131).
THEOREM CleanStopsAbandonNothing == Spec => []CleanStopAbandonsNothing
<1>1. IInv => CleanStopAbandonsNothing
    BY DEF IInv, HandsFree, Idle, CleanStopAbandonsNothing
<1> QED
    BY <1>1, Invariant, PTL
=============================================================================
