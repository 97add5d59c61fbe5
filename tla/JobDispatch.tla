---------------------------- MODULE JobDispatch ----------------------------
(***************************************************************************)
(* Background jobs on SQS: the poller of worker/sqsPoller.ts in several    *)
(* worker processes, the dispatch of jobs/dispatch.ts with its completion  *)
(* marker in Redis, and the shutdown of worker.ts.  A process receives a   *)
(* batch, works on its messages concurrently, one action per await, and    *)
(* polls again when all of them have settled.  SQS hides a received        *)
(* message for the visibility timeout, which a heartbeat extends as long   *)
(* as the dispatch lasts; a message that was not deleted shows again, and  *)
(* goes to the dead-letter queue after MaxReceives receptions.             *)
(***************************************************************************)
EXTENDS Naturals, FiniteSets

CONSTANTS Jobs, Procs,
          None,         \* no process
          MaxBatch,     \* aws.sqs.maxMessages
          MaxReceives   \* maxReceiveCount of the queue's redrive policy

ASSUME JobDispatchAssumption ==
    /\ MaxBatch \in Nat \ {0} /\ MaxReceives \in Nat \ {0}
    /\ None \notin Procs /\ IsFiniteSet(Procs)

VARIABLES
    \* SQS
    queue,     \* where each message is
    holder,    \* whose receipt handle is the latest
    receives,  \* how often it was received
    \* Redis
    marker,    \* whether jobDone:<messageId> is set
    \* the poller of each process
    loop,      \* where the loop stands
    step,      \* what it awaits for each message of its batch
    stopping,  \* how far its shutdown is
    \* history
    effects,   \* how often the job's handler ran to its end
    slips      \* failures that a duplicate run may be due to

vars == <<queue, holder, receives, marker, loop, step, stopping, effects, slips>>

\* The awaits of processMessage and dispatchJob.
Steps == {"none", "exists", "run", "mark", "delete", "settled"}

TypeOK ==
    /\ queue \in [Jobs -> {"unsent", "visible", "hidden", "deleted", "dead"}]
    /\ holder \in [Jobs -> Procs \cup {None}]
    /\ receives \in [Jobs -> 0..MaxReceives]
    /\ marker \in [Jobs -> BOOLEAN]
    /\ loop \in [Procs -> {"top", "polling", "batch", "ended", "down"}]
    /\ step \in [Procs -> [Jobs -> Steps]]
    /\ stopping \in [Procs -> {"no", "drain", "unwind", "stopped", "killed"}]
    /\ effects \in [Jobs -> Nat] /\ slips \in [Jobs -> Nat]

Idle == [j \in Jobs |-> "none"]

Init ==
    /\ queue = [j \in Jobs |-> "unsent"]
    /\ holder = [j \in Jobs |-> None]
    /\ receives = [j \in Jobs |-> 0]
    /\ marker = [j \in Jobs |-> FALSE]
    /\ loop = [p \in Procs |-> "top"]
    /\ step = [p \in Procs |-> Idle]
    /\ stopping = [p \in Procs |-> "no"]
    /\ effects = [j \in Jobs |-> 0] /\ slips = [j \in Jobs |-> 0]

-----------------------------------------------------------------------------
\* The dispatch is under way: the message's heartbeat is running.
Dispatching(p, j) == step[p][j] \in {"exists", "run", "mark"}

\* inFlight is not 0.
InFlight(p) == \E j \in Jobs : Dispatching(p, j) \/ step[p][j] = "delete"

Goto(p, j, s) == step' = [step EXCEPT ![p][j] = s]

\* A slip: the queue has no redrive policy.
AlwaysVisible(j) == "visible"

\* SQS shows a message again, or gives up on it.
Reappear(j) == IF receives[j] < MaxReceives THEN "visible" ELSE "dead"

\* A side effect and its marker have come apart.
Slip(J) == slips' = [j \in Jobs |-> IF j \in J THEN slips[j] + 1 ELSE slips[j]]

-----------------------------------------------------------------------------
(* The poller.                                                             *)

Send(j) ==
    /\ queue[j] = "unsent"
    /\ queue' = [queue EXCEPT ![j] = "visible"]
    /\ UNCHANGED <<holder, receives, marker, loop, step, stopping, effects, slips>>

\* The head of the loop: another long poll, unless stop() was called.
Poll(p) ==
    /\ loop[p] = "top"
    /\ loop' = [loop EXCEPT ![p] = IF stopping[p] = "no" THEN "polling" ELSE "ended"]
    /\ UNCHANGED <<queue, holder, receives, marker, step, stopping, effects, slips>>

\* The long poll returns messages, even when stop() was called meanwhile.
Receive(p, B) ==
    /\ loop[p] = "polling"
    /\ B # {} /\ Cardinality(B) <= MaxBatch
    /\ \A j \in B : queue[j] = "visible"
    /\ queue' = [j \in Jobs |-> IF j \in B THEN "hidden" ELSE queue[j]]
    /\ holder' = [j \in Jobs |-> IF j \in B THEN p ELSE holder[j]]
    /\ receives' = [j \in Jobs |-> IF j \in B THEN receives[j] + 1 ELSE receives[j]]
    /\ loop' = [loop EXCEPT ![p] = "batch"]
    /\ step' = [step EXCEPT ![p] = [j \in Jobs |-> IF j \in B THEN "exists" ELSE "none"]]
    /\ UNCHANGED <<marker, stopping, effects, slips>>

\* The long poll returns nothing, or fails and the loop sleeps.
ReceiveNothing(p) ==
    /\ loop[p] = "polling"
    /\ loop' = [loop EXCEPT ![p] = "top"]
    /\ UNCHANGED <<queue, holder, receives, marker, step, stopping, effects, slips>>

\* Promise.all: the batch is over when every message has settled.
FinishBatch(p) ==
    /\ loop[p] = "batch" /\ ~InFlight(p)
    /\ loop' = [loop EXCEPT ![p] = "top"]
    /\ step' = [step EXCEPT ![p] = Idle]
    /\ UNCHANGED <<queue, holder, receives, marker, stopping, effects, slips>>

-----------------------------------------------------------------------------
(* processMessage and dispatchJob.                                         *)

\* A slip: nobody looks for a marker.
NoDedup(p, j) ==
    /\ step[p][j] = "exists"
    /\ Goto(p, j, "run")
    /\ UNCHANGED <<queue, holder, receives, marker, loop, stopping, effects, slips>>

\* EXISTS jobDone:<id>: a job that is done is skipped, and its message deleted.
CheckMarker(p, j) ==
    /\ step[p][j] = "exists"
    /\ Goto(p, j, IF marker[j] THEN "delete" ELSE "run")
    /\ UNCHANGED <<queue, holder, receives, marker, loop, stopping, effects, slips>>

\* The handler succeeds.
RunHandler(p, j) ==
    /\ step[p][j] = "run"
    /\ effects' = [effects EXCEPT ![j] = @ + 1]
    /\ Goto(p, j, "mark")
    /\ UNCHANGED <<queue, holder, receives, marker, loop, stopping, slips>>

\* SET jobDone:<id>, only after the handler succeeded.
MarkDone(p, j) ==
    /\ step[p][j] = "mark"
    /\ marker' = [marker EXCEPT ![j] = TRUE]
    /\ Goto(p, j, "delete")
    /\ UNCHANGED <<queue, holder, receives, loop, stopping, effects, slips>>

\* DeleteMessage: with a receipt handle that is not the latest, SQS may ignore it.
DeleteMessage(p, j) ==
    /\ step[p][j] = "delete"
    /\ \/ queue' = [queue EXCEPT ![j] = "deleted"]
       \/ holder[j] # p /\ UNCHANGED queue
    /\ Goto(p, j, "settled")
    /\ UNCHANGED <<holder, receives, marker, loop, stopping, effects, slips>>

\* A slip: the message is deleted in a finally clause.
SettleAndDelete(p, j) ==
    /\ step[p][j] \in {"exists", "run", "mark", "delete"}
    /\ queue' = [queue EXCEPT ![j] = "deleted"]
    /\ Slip(IF step[p][j] = "mark" THEN {j} ELSE {})
    /\ Goto(p, j, "settled")
    /\ UNCHANGED <<holder, receives, marker, loop, stopping, effects>>

\* Something throws: the body, the type, the handler, Redis or SQS.  The loop
\* logs it and leaves the message to the visibility timeout.
StepFails(p, j) ==
    /\ step[p][j] \in {"exists", "run", "mark", "delete"}
    /\ Slip(IF step[p][j] = "mark" THEN {j} ELSE {})
    /\ Goto(p, j, "settled")
    /\ UNCHANGED <<queue, holder, receives, marker, loop, stopping, effects>>

-----------------------------------------------------------------------------
(* Shutdown and failures.                                                  *)

\* SIGTERM: stop() sets running to false and waits for inFlight.
Stop(p) ==
    /\ stopping[p] = "no" /\ loop[p] # "down"
    /\ stopping' = [stopping EXCEPT ![p] = "drain"]
    /\ UNCHANGED <<queue, holder, receives, marker, loop, step, effects, slips>>

\* inFlight is 0, or 20 s have passed.
Drained(p) ==
    /\ stopping[p] = "drain"
    /\ stopping' = [stopping EXCEPT ![p] = "unwind"]
    /\ UNCHANGED <<queue, holder, receives, marker, loop, step, effects, slips>>

\* A slip: stop() returns without waiting for the loop.
ReturnAtOnce(p) ==
    /\ stopping[p] = "unwind"
    /\ stopping' = [stopping EXCEPT ![p] = "stopped"]
    /\ UNCHANGED <<queue, holder, receives, marker, loop, step, effects, slips>>

\* await loopPromise: then the process tears down and exits.
Unwound(p) ==
    /\ stopping[p] = "unwind" /\ loop[p] = "ended"
    /\ stopping' = [stopping EXCEPT ![p] = "stopped"]
    /\ UNCHANGED <<queue, holder, receives, marker, loop, step, effects, slips>>

\* What a process had in hand is forgotten with it.
Die(p) ==
    /\ loop' = [loop EXCEPT ![p] = "down"]
    /\ step' = [step EXCEPT ![p] = Idle]
    /\ Slip({j \in Jobs : step[p][j] = "mark"})
    /\ UNCHANGED <<queue, holder, receives, marker, effects>>

\* A slip: nothing backs the draining up.
NoTimer(p) == FALSE /\ UNCHANGED vars

\* The 25 s timer of shutdown() exits the process: by then the draining has
\* given up (20 s) and only a message in hand can have kept the loop.
ForceExit(p) ==
    /\ stopping[p] = "unwind" /\ InFlight(p)
    /\ stopping' = [stopping EXCEPT ![p] = "killed"]
    /\ Die(p)

\* An unexpected error or the kernel ends the process, stopping or not.
Crash(p) ==
    /\ stopping[p] \notin {"stopped", "killed"} /\ loop[p] # "down"
    /\ stopping' = [stopping EXCEPT ![p] = IF @ = "no" THEN "no" ELSE "killed"]
    /\ Die(p)

\* The orchestrator replaces a process that crashed.
Restart(p) ==
    /\ loop[p] = "down" /\ stopping[p] = "no"
    /\ loop' = [loop EXCEPT ![p] = "top"]
    /\ UNCHANGED <<queue, holder, receives, marker, step, stopping, effects, slips>>

\* A slip: the heartbeat is not cleared, and extends for as long as its process lives.
HeartbeatLeaks(j) ==
    /\ queue[j] = "hidden" /\ loop[holder[j]] = "down"
    /\ queue' = [queue EXCEPT ![j] = Reappear(j)]
    /\ UNCHANGED <<holder, receives, marker, loop, step, stopping, effects, slips>>

\* The visibility timeout passes, with no heartbeat to extend it.
VisibilityEnds(j) ==
    /\ queue[j] = "hidden" /\ ~Dispatching(holder[j], j)
    /\ queue' = [queue EXCEPT ![j] = Reappear(j)]
    /\ UNCHANGED <<holder, receives, marker, loop, step, stopping, effects, slips>>

\* It passes under a dispatch that is still going on: every extension failed.
HeartbeatFails(j) ==
    /\ queue[j] = "hidden" /\ Dispatching(holder[j], j)
    /\ queue' = [queue EXCEPT ![j] = Reappear(j)]
    /\ Slip({j})
    /\ UNCHANGED <<holder, receives, marker, loop, step, stopping, effects>>

\* JOB_DONE_TTL_SEC passes, or Redis evicts the marker.
MarkerLost(j) ==
    /\ marker[j]
    /\ marker' = [marker EXCEPT ![j] = FALSE]
    /\ Slip({j})
    /\ UNCHANGED <<queue, holder, receives, loop, step, stopping, effects>>

-----------------------------------------------------------------------------
ReceiveSome(p) == \E B \in SUBSET Jobs : Receive(p, B)

\* What a process does on its own, the handler apart.
Turn(p) ==
    \/ Poll(p) \/ FinishBatch(p) \/ Drained(p) \/ Unwound(p) \/ Restart(p)
    \/ \E j \in Jobs : CheckMarker(p, j) \/ MarkDone(p, j) \/ DeleteMessage(p, j)

Next ==
    \/ \E j \in Jobs : Send(j) \/ VisibilityEnds(j) \/ HeartbeatFails(j) \/ MarkerLost(j)
    \/ \E p \in Procs :
        \/ Turn(p) \/ ReceiveSome(p) \/ ReceiveNothing(p)
        \/ \E j \in Jobs : RunHandler(p, j) \/ StepFails(p, j)
        \/ Stop(p) \/ ForceExit(p) \/ Crash(p)

Spec == Init /\ [][Next]_vars

\* Awaits settle, timers fire, the orchestrator restarts processes.  A process
\* that crashes again and again lives long enough to poll now and then, and a
\* message that stays in the queue is received by one that keeps polling.  A
\* handler may hang, and its heartbeat keep the message for ever.
FairSpec ==
    /\ Spec
    /\ \A p \in Procs :
        /\ WF_vars(Turn(p)) /\ SF_vars(Poll(p)) /\ SF_vars(ReceiveSome(p))
        /\ WF_vars(ReceiveNothing(p)) /\ WF_vars(ForceExit(p))
    /\ \A j \in Jobs : WF_vars(VisibilityEnds(j))

\* Every handler that is called succeeds or throws.
HandlersEnd == \A p \in Procs, j \in Jobs : WF_vars(RunHandler(p, j) \/ StepFails(p, j))
-----------------------------------------------------------------------------
(* Properties.                                                             *)

\* "A job is never dropped": a message leaves the queue for good only once its
\* handler has succeeded, whatever crashed, failed or was delivered twice.
NeverDropped == \A j \in Jobs : queue[j] = "deleted" => effects[j] > 0

\* A handler runs a second time only over a slip: a failure between the side
\* effect and its marker, a visibility timeout that ran out under a dispatch
\* that was still going on, or a lost marker.
DuplicatesExplained == \A j \in Jobs : effects[j] <= 1 + slips[j]

\* A process that stopped cleanly has nothing in hand, and no poll under way
\* that could bring it something.
CleanStopAbandonsNothing ==
    \A p \in Procs :
        stopping[p] = "stopped" =>
            loop[p] = "ended" /\ \A j \in Jobs : holder[j] = p => step[p][j] = "none"

\* If handlers come to an end, every message that was sent is handled and deleted
\* or goes to the dead-letter queue, as long as a process has not been stopped.
JobsSettle ==
    HandlersEnd =>
        \A j \in Jobs :
            (queue[j] = "visible") ~> \/ queue[j] \in {"deleted", "dead"}
                                     \/ \A p \in Procs : stopping[p] # "no"

\* A process that was told to stop does, even if a handler hangs.
StopEnds ==
    \A p \in Procs : (stopping[p] = "drain") ~> (stopping[p] \in {"stopped", "killed"})

\* What sqsPoller.ts:24 says, and the code does not do when a handler hangs: the
\* draining of stop() is capped, so stop() returns and the teardown is reached.
DrainIsCapped == \A p \in Procs : (stopping[p] = "drain") ~> (stopping[p] = "stopped")

-----------------------------------------------------------------------------
(* The inductive invariant behind the safety properties.                   *)

\* A process has messages in hand only while it works on a batch, and one that
\* stopped has left its loop.
HandsFree ==
    \A p \in Procs :
        /\ loop[p] # "batch" => step[p] = Idle
        /\ stopping[p] = "stopped" => loop[p] = "ended"

\* A message that can be received has receptions left, a hidden one a holder.
QueueFits(j) ==
    /\ queue[j] \in {"unsent", "visible"} => receives[j] < MaxReceives
    /\ queue[j] = "hidden" => holder[j] \in Procs

\* A marker, a deleted message and a message about to be have a run behind them.
WorkIsDone(j) ==
    \/ marker[j] \/ queue[j] = "deleted"
    \/ \E p \in Procs : step[p][j] \in {"mark", "delete"}
    => effects[j] > 0

\* The process whose dispatch keeps the message hidden.
Keeps(p, j) == queue[j] = "hidden" /\ holder[j] = p

Alive(j) == queue[j] \in {"unsent", "visible", "hidden"}

\* Dispatches that will run the handler, and those that may run it besides the
\* one that keeps the message hidden.
Running(j) == {p \in Procs : step[p][j] = "run"}
Strays(j) == {p \in Procs : step[p][j] \in {"exists", "run"} /\ ~Keeps(p, j)}

KeeperAt(j, s) == queue[j] = "hidden" /\ step[holder[j]][j] = s

One(b) == IF b THEN 1 ELSE 0

\* Runs that have happened and runs that may still: a message that is alive is
\* good for one unless its keeper has run it and is about to say so; the marker
\* stops those that have not looked for it.
RunsFit(j) ==
    /\ effects[j] + Cardinality(Running(j)) <= 1 + slips[j]
    /\ ~marker[j] =>
        effects[j] + Cardinality(Strays(j)) + One(Alive(j) /\ ~KeeperAt(j, "mark")) <= 1 + slips[j]
    /\ marker[j] =>
        effects[j] + Cardinality(Strays(j)) + One(Alive(j)) + One(KeeperAt(j, "run")) <= 2 + slips[j]

JobFits(j) == QueueFits(j) /\ WorkIsDone(j) /\ RunsFit(j)

IInv == TypeOK /\ HandsFree /\ \A j \in Jobs : JobFits(j)
=============================================================================
