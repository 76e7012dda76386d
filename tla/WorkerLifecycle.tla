--------------------------- MODULE WorkerLifecycle ---------------------------
(***************************************************************************)
(* The life of one RuntimeWorker: Start, its loops and its shutdown, Stop, *)
(* and Drain, which fences admission, asks OpenLinker to drain the Session *)
(* and stops the worker once nothing is left.  A run is followed from the  *)
(* claim through its journal record and its handler to the acknowledged    *)
(* result; RuntimeWorker has the detail of each of these steps.            *)
(***************************************************************************)
EXTENDS Naturals, FiniteSets

CONSTANTS Runs, Drainers, Stoppers, Capacity

ASSUME LifecycleAssumption == Capacity \in Nat

VARIABLES
  node,      \* lifecycleMu and stateMu: flags of the worker
  start,     \* where the goroutine of Start is
  store,     \* node.store: none, open, nil
  loops,     \* running loops
  claim,     \* the claim loop: idle, calling, handling
  run,       \* of every run: at OpenLinker, in the claim loop, in the journal, in memory
  session,   \* at OpenLinker: none, attached, drained, closed
  drain,     \* of every call of Drain: where it is and what it has read
  drainDone, drainErr,
  stop,      \* of every call of Stop: idle, waiting
  panicked   \* a step has used the store after it was closed

vars == <<node, start, store, loops, claim, run, session, drain, drainDone, drainErr, stop, panicked>>
drainVars == <<drain, drainDone, drainErr>>
workVars == <<claim, run, session>>

NewRun == [core |-> "none", pc |-> "none", spool |-> "none", op |-> FALSE, reserved |-> FALSE,
           active |-> FALSE, exec |-> "none", canceled |-> FALSE]
NewDrain == [pc |-> "idle", inflight |-> 0, quiet |-> FALSE, store |-> "none"]

Init ==
  /\ node = [started |-> FALSE, completed |-> FALSE, stopRequested |-> FALSE, drainOwnsStop |-> FALSE,
             draining |-> FALSE, stopping |-> FALSE, done |-> FALSE, runtimeStopped |-> FALSE]
  /\ start = "idle" /\ store = "none" /\ loops = {} /\ claim = "idle"
  /\ run = [r \in Runs |-> NewRun] /\ session = "none"
  /\ drain = [d \in Drainers |-> NewDrain] /\ drainDone = "none" /\ drainErr = "none"
  /\ stop = [x \in Stoppers |-> "idle"] /\ panicked = FALSE

Active == {r \in Runs : run[r].active}
Reserved == {r \in Runs : run[r].reserved}
Executing == {r \in Runs : run[r].exec \in {"running", "persisting"}}
-----------------------------------------------------------------------------
(* Stopping.                                                               *)

setStopping(n) == [n EXCEPT !.draining = TRUE, !.stopping = TRUE]

requestStop(n) ==
  IF n.started /\ ~n.stopRequested
  THEN [setStopping(n) EXCEPT !.stopRequested = TRUE, !.drainOwnsStop = FALSE]
  ELSE setStopping(n)

stopIgnored(n) == n.started /\ ~n.completed
\* A drain that has proved itself stops the worker, unless a stop came first.
CanDrainStop(n) == n.started /\ ~n.completed /\ ~n.stopRequested
requestDrainStop(n) == [setStopping(n) EXCEPT !.stopRequested = TRUE, !.drainOwnsStop = TRUE]

Stop(x) ==
  /\ stop[x] = "idle" /\ node.started
  /\ node' = requestStop(node) /\ stop' = [stop EXCEPT ![x] = "waiting"]
  /\ UNCHANGED <<start, store, loops, workVars, drainVars, panicked>>

\* The worker is done, or ctx ends.
StopReturns(x) ==
  /\ stop[x] = "waiting" /\ stop' = [stop EXCEPT ![x] = "idle"]
  /\ UNCHANGED <<node, start, store, loops, workVars, drainVars, panicked>>

cancelNothing == run

cancelAllActive == [r \in Runs |-> [run[r] EXCEPT !.canceled = @ \/ run[r].active]]
-----------------------------------------------------------------------------
(* Start.                                                                  *)

beginLifecycle ==
  /\ start = "idle" /\ ~node.started /\ ~node.completed
  /\ node' = [node EXCEPT !.started = TRUE] /\ start' = "starting"
  /\ UNCHANGED <<store, loops, workVars, drainVars, stop, panicked>>

\* The configuration is valid, the connection is resolved and the store opens.
startOpensStore ==
  /\ start = "starting" /\ start' = "attaching" /\ store' = "open"
  /\ UNCHANGED <<node, loops, workVars, drainVars, stop, panicked>>

\* The Session is attached, the journal resumed and the loops run.
startRuntimeLoops ==
  /\ start = "attaching" /\ start' = "running"
  /\ session' = "attached" /\ loops' = {"claim", "command", "spool"}
  /\ UNCHANGED <<node, store, claim, run, drainVars, stop, panicked>>

StartFails ==
  /\ start \in {"starting", "attaching"} /\ start' = "shutdown"
  /\ UNCHANGED <<node, store, loops, workVars, drainVars, stop, panicked>>

\* A stop ends the start-up context.
startCanceled == node.stopRequested /\ StartFails

\* The parent context ends or a loop reports a fatal error.
StartEnds ==
  /\ start = "running" /\ start' = "shutdown"
  /\ UNCHANGED <<node, store, loops, workVars, drainVars, stop, panicked>>
startStops == node.stopRequested /\ StartEnds

shutdownRequestsStop ==
  /\ start = "shutdown" /\ start' = "executions" /\ node' = requestStop(node)
  /\ UNCHANGED <<store, loops, workVars, drainVars, stop, panicked>>

shutdownQuiet ==
  /\ start \in {"executions", "forced"} /\ Executing = {} /\ start' = "closing"
  /\ UNCHANGED <<node, store, loops, workVars, drainVars, stop, panicked>>

neverForces == FALSE /\ UNCHANGED vars
\* The shutdown context ends first: every active attempt is canceled.
shutdownForces ==
  /\ start = "executions" /\ Executing # {} /\ start' = "forced"
  /\ run' = cancelAllActive
  /\ UNCHANGED <<node, store, loops, claim, session, drainVars, stop, panicked>>

\* The two seconds pass; writing one result to the store does not take that long.
shutdownGivesUp ==
  /\ start = "forced" /\ \A r \in Runs : run[r].exec # "persisting"
  /\ start' = "closing"
  /\ UNCHANGED <<node, store, loops, workVars, drainVars, stop, panicked>>

shutdownCloses ==
  /\ start = "closing" /\ start' = "loops"
  /\ session' = IF session = "none" THEN "none" ELSE "closed"
  /\ run' = cancelAllActive /\ node' = [node EXCEPT !.runtimeStopped = TRUE]
  /\ UNCHANGED <<store, loops, claim, drainVars, stop, panicked>>

shutdownClosesStore ==
  /\ start = "loops" /\ loops = {} /\ start' = "finishing"
  /\ store' = IF store = "open" THEN "nil" ELSE store
  /\ UNCHANGED <<node, loops, workVars, drainVars, stop, panicked>>

shutdownDone ==
  /\ start = "finishing" /\ start' = "returned"
  /\ node' = [node EXCEPT !.started = FALSE, !.completed = TRUE, !.done = TRUE]
  /\ UNCHANGED <<store, loops, workVars, drainVars, stop, panicked>>

Shutdown ==
  \/ shutdownRequestsStop \/ shutdownQuiet \/ shutdownForces \/ shutdownGivesUp
  \/ shutdownCloses \/ shutdownClosesStore \/ shutdownDone

\* A loop ends with the runtime context, after what it is handling.
LoopExits(l) ==
  /\ l \in loops /\ node.runtimeStopped
  /\ l = "claim" => claim # "handling"
  /\ l = "spool" => \A r \in Runs : run[r].spool # "acknowledged"
  /\ loops' = loops \ {l} /\ claim' = IF l = "claim" THEN "idle" ELSE claim
  /\ UNCHANGED <<node, start, store, run, session, drainVars, stop, panicked>>

\* The command loop receives a drain command.
markDraining ==
  /\ "command" \in loops /\ ~node.draining /\ node' = [node EXCEPT !.draining = TRUE]
  /\ UNCHANGED <<start, store, loops, workVars, drainVars, stop, panicked>>
-----------------------------------------------------------------------------
(* A run through the claim loop.                                           *)

workFrame == UNCHANGED <<node, start, store, loops, session, drainVars, stop, panicked>>
Handle(r, new) == run' = [run EXCEPT ![r] = new]

capacitySnapshot == ~node.draining /\ Cardinality(Active \cup Reserved) < Capacity

claimLoopCalls ==
  /\ "claim" \in loops /\ claim = "idle" /\ ~node.runtimeStopped /\ capacitySnapshot
  /\ claim' = "calling" /\ UNCHANGED run /\ workFrame

\* OpenLinker offers a run to a Session that is not drained.
CoreOffers(r) ==
  /\ claim = "calling" /\ session = "attached" /\ run[r].core = "none"
  /\ claim' = "handling" /\ Handle(r, [run[r] EXCEPT !.core = "offered", !.pc = "claimed"]) /\ workFrame

ClaimReturnsNothing ==
  /\ claim = "calling" /\ claim' = "idle" /\ UNCHANGED run /\ workFrame

CoreExpires(r) ==
  /\ run[r].core \in {"offered", "leased"}
  /\ Handle(r, [run[r] EXCEPT !.core = "expired"]) /\ UNCHANGED claim /\ workFrame

beginWithoutFence(r) ==
  /\ run[r].pc = "claimed"
  /\ Handle(r, [run[r] EXCEPT !.pc = "begun", !.op = TRUE, !.reserved = Cardinality(Active \cup Reserved) < Capacity])
  /\ UNCHANGED claim /\ workFrame
beginAssignment(r) ==
  /\ run[r].pc = "claimed"
  /\ Handle(r, [run[r] EXCEPT !.pc = "begun", !.op = TRUE,
                  !.reserved = ~node.draining /\ Cardinality(Active \cup Reserved) < Capacity])
  /\ UNCHANGED claim /\ workFrame

CreateAssignment(r) ==
  /\ run[r].pc = "begun"
  /\ Handle(r, [run[r] EXCEPT !.pc = "created", !.spool = "received"])
  /\ UNCHANGED claim /\ workFrame

\* assignmentAdmitted is read once, after the record is written.
assignmentAdmitted(r) ==
  /\ run[r].pc = "created"
  /\ IF node.draining \/ ~run[r].reserved
     THEN Handle(r, [run[r] EXCEPT !.pc = "rejecting", !.spool = "reject_sent"])
     ELSE Handle(r, [run[r] EXCEPT !.pc = "acking", !.spool = "ack_sent"])
  /\ UNCHANGED claim /\ workFrame

\* A reply, a refusal of a lease that is gone, or the end of the runtime context.
rejectAssignment(r) ==
  /\ run[r].pc = "rejecting"
  /\ \/ /\ ~node.runtimeStopped /\ run[r].core = "offered"
        /\ Handle(r, [run[r] EXCEPT !.pc = "ending", !.spool = "none", !.core = "done"])
     \/ /\ ~node.runtimeStopped /\ run[r].core = "expired"
        /\ Handle(r, [run[r] EXCEPT !.pc = "ending", !.spool = "revoked"])
     \/ node.runtimeStopped /\ Handle(r, [run[r] EXCEPT !.pc = "ending"])
  /\ UNCHANGED claim /\ workFrame

ackAssignmentWithRetry(r) ==
  /\ run[r].pc = "acking"
  /\ \/ /\ ~node.runtimeStopped /\ run[r].core = "offered"
        /\ Handle(r, [run[r] EXCEPT !.pc = "confirmed", !.spool = "confirmed", !.core = "leased"])
     \/ /\ ~node.runtimeStopped /\ run[r].core = "expired"
        /\ Handle(r, [run[r] EXCEPT !.pc = "ending", !.spool = "revoked"])
     \/ node.runtimeStopped /\ Handle(r, [run[r] EXCEPT !.pc = "ending"])
  /\ UNCHANGED claim /\ workFrame

startConfirmedAttempt(r) ==
  /\ run[r].pc = "confirmed"
  /\ IF node.stopping
     THEN Handle(r, [run[r] EXCEPT !.pc = "ending"])
     ELSE Handle(r, [run[r] EXCEPT !.pc = "ending", !.spool = "started", !.active = TRUE, !.exec = "running"])
  /\ UNCHANGED claim /\ workFrame

endAssignment(r) ==
  /\ run[r].pc = "ending" /\ claim' = "idle"
  /\ Handle(r, [run[r] EXCEPT !.pc = "ended", !.op = FALSE, !.reserved = FALSE]) /\ workFrame

Claim(r) ==
  \/ beginAssignment(r) \/ CreateAssignment(r) \/ assignmentAdmitted(r) \/ rejectAssignment(r)
  \/ ackAssignmentWithRetry(r) \/ startConfirmedAttempt(r) \/ endAssignment(r)
-----------------------------------------------------------------------------
(* The handler and the spool loop.                                         *)

\* The handler returns; a canceled attempt writes nothing.
executeAttempt(r) ==
  /\ run[r].exec = "running"
  /\ Handle(r, [run[r] EXCEPT !.exec = IF run[r].canceled THEN "done" ELSE "persisting"])
  /\ UNCHANGED claim /\ workFrame

\* StoreResult, on whatever node.store holds by then.
persistRunResult(r) ==
  /\ run[r].exec = "persisting"
  /\ Handle(r, [run[r] EXCEPT !.exec = "done", !.spool = "finished"])
  /\ panicked' = (panicked \/ store # "open")
  /\ UNCHANGED <<node, start, store, loops, claim, session, drainVars, stop>>

\* The result is acknowledged: the attempt is retired before its record goes.
flushRecord(r) ==
  /\ "spool" \in loops /\ run[r].spool = "finished" /\ ~node.runtimeStopped
  /\ CASE run[r].core = "leased" ->
            Handle(r, [run[r] EXCEPT !.core = "done", !.active = FALSE, !.spool = "acknowledged"])
       [] run[r].core = "expired" ->
            Handle(r, [run[r] EXCEPT !.active = FALSE, !.canceled = TRUE, !.spool = "revoked"])
       [] OTHER -> FALSE
  /\ UNCHANGED claim /\ workFrame

DeleteAssignment(r) ==
  /\ "spool" \in loops /\ run[r].spool = "acknowledged"
  /\ Handle(r, [run[r] EXCEPT !.spool = "none"]) /\ UNCHANGED claim /\ workFrame
-----------------------------------------------------------------------------
(* Drain.                                                                  *)

drainFrame == UNCHANGED <<start, store, loops, claim, run, stop, panicked>>
Move(d, pc) == drain' = [drain EXCEPT ![d].pc = pc]

\* The first call fences admission before it is observable; later calls wait for it.
Drain(d) ==
  /\ drain[d].pc = "idle"
  /\ IF drainDone # "none"
     THEN Move(d, "following") /\ UNCHANGED <<node, drainDone>>
     ELSE /\ node.started /\ ~node.completed
          /\ node' = [node EXCEPT !.draining = TRUE] /\ drainDone' = "open" /\ Move(d, "requesting")
  /\ UNCHANGED <<drainErr, session>> /\ drainFrame

\* The followed drain is over, or ctx ends.
DrainFollows(d) ==
  /\ drain[d].pc = "following" /\ Move(d, "idle")
  /\ UNCHANGED <<node, session, drainDone, drainErr>> /\ drainFrame

\* An unproven drain stops the worker and reports its error.
DrainFailsWith(d, err) ==
  /\ node' = requestStop(node)
  /\ drainErr' = err /\ drainDone' = "closed"
  /\ drain' = [drain EXCEPT ![d] = NewDrain]
  /\ UNCHANGED session /\ drainFrame

Stopped == node.stopRequested \/ node.completed
runtimeDrainAttachment == ~Stopped /\ session # "none" /\ store = "open"
CoreInflight == Cardinality({r \in Runs : run[r].core \in {"offered", "leased"}})

\* requestRuntimeDrain: OpenLinker stops offering and reports what it has inflight.
requestRuntimeDrain(d) ==
  /\ drain[d].pc \in {"requesting", "confirming"} /\ runtimeDrainAttachment
  /\ session' = IF session = "attached" THEN "drained" ELSE session
  /\ drain' = [drain EXCEPT ![d].inflight = CoreInflight,
                 ![d].pc = IF drain[d].pc = "requesting" THEN "status"
                           ELSE IF CoreInflight > 0 THEN "waiting" ELSE "stopping"]
  /\ UNCHANGED <<node, drainDone, drainErr>> /\ drainFrame

requestStopped(d) ==
  /\ drain[d].pc \in {"requesting", "confirming"} /\ Stopped
  /\ DrainFailsWith(d, "stopped")

\* OpenLinker refuses the drain for good.
requestRefused(d) ==
  /\ drain[d].pc \in {"requesting", "confirming"} /\ runtimeDrainAttachment
  /\ DrainFailsWith(d, "refused")

\* runtimeDrainStatus reads what is in memory under the lock, then the spool.
runtimeDrainStatus(d) ==
  /\ drain[d].pc = "status"
  /\ drain' = [drain EXCEPT ![d].pc = "spool", ![d].store = store,
                 ![d].quiet = \A r \in Runs : ~run[r].active /\ ~run[r].reserved /\ ~run[r].op]
  /\ UNCHANGED <<node, session, drainDone, drainErr>> /\ drainFrame

\* SpoolStatus of the store it has read; a missing store counts as empty.
runtimeStoreSpoolStatus(d) == drain[d].store # "open" \/ \A r \in Runs : run[r].spool = "none"

performRuntimeDrain(d) ==
  /\ drain[d].pc = "spool"
  /\ IF drain[d].store = "open" /\ store # "open"
     THEN DrainFailsWith(d, "closed")
     ELSE /\ Move(d, IF ~(runtimeStoreSpoolStatus(d) /\ drain[d].quiet) THEN "waiting"
                     ELSE IF drain[d].inflight > 0 THEN "confirming" ELSE "stopping")
          /\ UNCHANGED <<node, session, drainDone, drainErr>> /\ drainFrame

drainStops(d) ==
  /\ drain[d].pc = "stopping"
  /\ IF CanDrainStop(node)
     THEN node' = requestDrainStop(node) /\ Move(d, "stopped") /\ UNCHANGED <<session, drainDone, drainErr>> /\ drainFrame
     ELSE DrainFailsWith(d, "stopped")

drainSucceeds(d) ==
  /\ drain[d].pc = "stopped" /\ node.done
  /\ drainErr' = "proven" /\ drainDone' = "closed" /\ drain' = [drain EXCEPT ![d] = NewDrain]
  /\ UNCHANGED <<node, session>> /\ drainFrame

waitRuntimeDrain(d) ==
  /\ drain[d].pc = "waiting"
  /\ IF node.stopRequested
     THEN DrainFailsWith(d, "stopped")
     ELSE Move(d, "status") /\ UNCHANGED <<node, session, drainDone, drainErr>> /\ drainFrame

\* The deadline passes, or the caller's context ends, in a call or a wait.
drainExpires(d) ==
  /\ drain[d].pc \in {"requesting", "confirming", "waiting", "stopped"}
  /\ DrainFailsWith(d, "timeout")

DrainStep(d) ==
  \/ DrainFollows(d) \/ requestRuntimeDrain(d) \/ requestStopped(d) \/ runtimeDrainStatus(d)
  \/ performRuntimeDrain(d) \/ drainStops(d) \/ drainSucceeds(d) \/ waitRuntimeDrain(d)
-----------------------------------------------------------------------------
Next ==
  \/ beginLifecycle \/ startOpensStore \/ startRuntimeLoops \/ StartFails \/ StartEnds
  \/ Shutdown \/ \E l \in loops : LoopExits(l)
  \/ markDraining \/ claimLoopCalls \/ ClaimReturnsNothing
  \/ \E r \in Runs : \/ CoreOffers(r) \/ CoreExpires(r) \/ Claim(r) \/ executeAttempt(r)
                     \/ persistRunResult(r) \/ flushRecord(r) \/ DeleteAssignment(r)
  \/ \E x \in Stoppers : Stop(x) \/ StopReturns(x)
  \/ \E d \in Drainers : Drain(d) \/ DrainStep(d) \/ requestRefused(d) \/ drainExpires(d)

Spec == Init /\ [][Next]_vars

\* Goroutines run, and a deadline that has passed stays passed; a handler may
\* never return, an attach may be retried for ever and nobody has to call anything.
FairSpec ==
  /\ Spec
  /\ WF_vars(startOpensStore) /\ WF_vars(startCanceled) /\ WF_vars(startStops) /\ WF_vars(Shutdown)
  /\ \A l \in {"claim", "command", "spool"} : WF_vars(LoopExits(l))
  /\ \A r \in Runs : WF_vars(Claim(r)) /\ WF_vars(persistRunResult(r)) /\ WF_vars(DeleteAssignment(r))
  /\ \A d \in Drainers : WF_vars(DrainStep(d)) /\ SF_vars(drainExpires(d))
-----------------------------------------------------------------------------
\* Types, and the flags that go together.
TypeOK ==
  /\ start \in {"idle", "starting", "attaching", "running", "shutdown", "executions", "forced", "closing",
                "loops", "finishing", "returned"}
  /\ store \in {"none", "open", "nil"} /\ loops \subseteq {"claim", "command", "spool"}
  /\ drainDone \in {"none", "open", "closed"}
  /\ ~(node.started /\ node.completed) /\ node.done = node.completed
  /\ node.stopRequested => node.stopping
  /\ node.drainOwnsStop => node.stopRequested
  /\ Cardinality(Active \cup Reserved) <= Capacity

\* A drain that reports success owned the stop, OpenLinker had nothing inflight
\* when last asked, and no run that the worker accepted is left in memory or in
\* the journal: no order of Stop, claims, results and timeouts fakes a drain.
ProvenDrainIsComplete ==
  drainErr = "proven" =>
    /\ node.drainOwnsStop /\ node.done
    /\ \A r \in Runs : ~run[r].active /\ run[r].exec \notin {"running", "persisting"}
                       /\ run[r].spool \in {"none", "received", "reject_sent", "revoked"}

\* Once a drain owns the stop no handler starts and no run is accepted any more:
\* the fence is up before the check of what is left.
NothingStartsAfterDrain ==
  [][node.drainOwnsStop => Executing' \subseteq Executing /\ Reserved' \subseteq Reserved]_vars

\* No execution is added after the shutdown has begun to wait for them, the
\* guarantee that startConfirmedAttempt gives to the wait group.
NoExecutionAfterWait ==
  [][(start \in {"executions", "forced", "closing", "loops", "finishing", "returned"}) =>
       Executing' \subseteq Executing]_vars

\* A handler that outlives the shutdown does not touch the closed store.
NoUseAfterClose == ~panicked

\* A stop, whoever asks for it, ends the worker, even if a handler never returns.
StopEnds == node.stopRequested ~> node.done
=============================================================================
