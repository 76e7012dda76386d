------------------------ MODULE WorkerLifecycleProofs ------------------------
(***************************************************************************)
(* What Drain and the shutdown guarantee, for any number of runs, drain    *)
(* calls and stop calls and any capacity.                                  *)
(***************************************************************************)
EXTENDS WorkerLifecycle, FiniteSetTheorems, TLAPS

Starts == {"idle", "starting", "attaching", "running", "shutdown", "executions", "forced", "closing",
           "loops", "finishing", "returned"}
\* The shutdown waits for executions, and no longer waits.
Waited == {"executions", "forced", "closing", "loops", "finishing", "returned"}
Closing == {"closing", "loops", "finishing", "returned"}
\* The claim loop is at work on the run, and on a run it has accepted.
Begun == {"begun", "created", "rejecting", "acking", "confirmed", "ending"}
Accepted == {"acking", "confirmed"}
\* A drain has seen the attachment, and has found nothing left.
Asking == {"status", "spool", "waiting", "confirming", "stopping", "stopped"}
Proving == {"confirming", "stopping", "stopped"}

NodeType == [started : BOOLEAN, completed : BOOLEAN, stopRequested : BOOLEAN, drainOwnsStop : BOOLEAN,
             draining : BOOLEAN, stopping : BOOLEAN, done : BOOLEAN, runtimeStopped : BOOLEAN]
RunType == [core : {"none", "offered", "leased", "expired", "done"},
            pc : {"none", "claimed", "ended"} \cup Begun,
            spool : {"none", "received", "reject_sent", "ack_sent", "confirmed", "started", "finished",
                     "acknowledged", "revoked"},
            op : BOOLEAN, reserved : BOOLEAN, active : BOOLEAN,
            exec : {"none", "running", "persisting", "done"}, canceled : BOOLEAN]
Counts == {Cardinality(S) : S \in SUBSET Runs} \cup {0}
DrainType == [pc : {"idle", "following", "requesting"} \cup Asking, inflight : Counts, quiet : BOOLEAN,
              store : {"none", "open", "nil"}]

TypesOK ==
  /\ node \in NodeType /\ start \in Starts /\ store \in {"none", "open", "nil"}
  /\ loops \subseteq {"claim", "command", "spool"}
  /\ session \in {"none", "attached", "drained", "closed"}
  /\ run \in [Runs -> RunType] /\ drain \in [Drainers -> DrainType]
  /\ drainDone \in {"none", "open", "closed"}

\* The flags of the worker follow the goroutine of Start; a stop is never taken back.
FlowOK ==
  /\ node.started <=> start \notin {"idle", "returned"}
  /\ node.completed <=> start = "returned"
  /\ node.done <=> start = "returned"
  /\ node.stopRequested => node.stopping
  /\ node.stopping => node.draining
  /\ node.drainOwnsStop => node.stopRequested
  /\ start \in Waited => node.stopRequested
  /\ store = "nil" => start \in {"finishing", "returned"}
  /\ start \in {"attaching", "running"} => store = "open"
  /\ session # "none" => store # "none"

\* What the state x of a run may be, whoever moves it next.
RunOK(x) ==
  /\ x.pc # "none" => store # "none" /\ x.core # "none"
  /\ x.exec # "none" => x.pc \in {"ending", "ended"}
  /\ x.pc \in Begun => x.op
  /\ x.pc \in Accepted => x.reserved
  /\ x.exec \in {"running", "persisting"} => x.active
  /\ x.spool = "finished" => x.exec = "done"
  /\ start \in Closing => x.exec # "persisting"
  /\ start \in {"forced"} \cup Closing => (x.exec = "running" => x.canceled)

\* Nothing of the run is in memory; nor, unless it is being refused, in the journal.
Calm(x) ==
  /\ ~x.active /\ ~x.reserved
  /\ x.exec \notin {"running", "persisting"} /\ x.pc \notin Accepted
Clear(x) == Calm(x) /\ x.spool \in {"none", "received", "reject_sent", "revoked"}

\* What a call of Drain may rely on when its state is x.
DrainOK(x) ==
  /\ x.pc \notin {"idle", "following"} => node.draining
  /\ x.pc \in Asking => store # "none"
  /\ x.pc = "spool" =>
       /\ x.store # "none" /\ (x.store = "nil" => store = "nil")
       /\ x.quiet => \A r \in Runs : Calm(run[r])
  /\ x.pc \in Proving => store = "nil" \/ \A r \in Runs : Clear(run[r])
  /\ x.pc = "stopped" => node.drainOwnsStop

\* A drain that owns the stop has proved that nothing is left.
ProofOK ==
  /\ node.drainOwnsStop => \A r \in Runs : Clear(run[r])
  /\ drainErr = "proven" => node.drainOwnsStop /\ node.done

CapacityOK == IsFiniteSet(Active \cup Reserved) /\ Cardinality(Active \cup Reserved) <= Capacity

\* The inductive invariant.
LInv ==
  /\ TypesOK /\ FlowOK
  /\ \A r \in Runs : RunOK(run[r])
  /\ \A d \in Drainers : DrainOK(drain[d])
  /\ ProofOK /\ CapacityOK /\ ~panicked

-----------------------------------------------------------------------------
(* The flags of the worker.                                                *)

\* requestStop never takes a stop back, nor gives it to the drain.
LEMMA RequestStopOK ==
  ASSUME node \in NodeType, node' = requestStop(node)
  PROVE  /\ node' \in NodeType
         /\ node'.started <=> node.started
         /\ node'.completed <=> node.completed
         /\ node'.done <=> node.done
         /\ node'.stopping /\ node'.draining
         /\ node.stopRequested \/ node.started => node'.stopRequested
         /\ node'.stopRequested => node.stopRequested \/ node.started
         /\ node'.drainOwnsStop => node.drainOwnsStop
         /\ node.drainOwnsStop /\ node.stopRequested => node'.drainOwnsStop
  BY Zenon DEF NodeType, requestStop, setStopping

\* A stopped worker that drains is left alone by a stop.
LEMMA StopKeepsFlow ==
  ASSUME node \in NodeType, FlowOK, node' = requestStop(node), UNCHANGED <<start, store, session>>
  PROVE  FlowOK' /\ (node.drainOwnsStop => node'.drainOwnsStop)
  BY Zenon, RequestStopOK DEF FlowOK

-----------------------------------------------------------------------------
(* The kinds of steps.                                                     *)

\* No run is added to the work in hand beyond the capacity.
LEMMA CapacityKept ==
  ASSUME CapacityOK, NEW r, (Active \cup Reserved)' \subseteq (Active \cup Reserved) \cup {r},
         \/ (Active \cup Reserved)' \subseteq Active \cup Reserved
         \/ Cardinality(Active \cup Reserved) < Capacity
  PROVE  CapacityOK'
<1> DEFINE W == Active \cup Reserved
<1>1. IsFiniteSet(W) /\ Cardinality(W) <= Capacity /\ Cardinality(W) \in Nat /\ Capacity \in Nat
  BY Zenon, FS_CardinalityType, LifecycleAssumption DEF CapacityOK
<1>2. CASE W' \subseteq W
  <2>1. IsFiniteSet(W') /\ Cardinality(W') <= Cardinality(W)
    BY Zenon, <1>1, <1>2, FS_Subset
  <2>2. Cardinality(W') \in Nat
    BY Zenon, <2>1, FS_CardinalityType
  <2> QED
    BY <1>1, <2>1, <2>2 DEF CapacityOK
<1>3. CASE Cardinality(W) < Capacity
  <2>1. IsFiniteSet(W \cup {r}) /\ Cardinality(W \cup {r}) <= Cardinality(W) + 1
    BY <1>1, FS_AddElement
  <2>2. IsFiniteSet(W') /\ Cardinality(W') <= Cardinality(W \cup {r})
    BY Zenon, <2>1, FS_Subset
  <2>3. Cardinality(W') \in Nat /\ Cardinality(W \cup {r}) \in Nat
    BY Zenon, <2>1, <2>2, FS_CardinalityType
  <2> QED
    BY <1>1, <1>3, <2>1, <2>2, <2>3 DEF CapacityOK
<1> QED
  BY Zenon, <1>2, <1>3

\* A step that leaves the runs and the drains alone.
LEMMA NodeStepOK ==
  ASSUME LInv, TypesOK', FlowOK', UNCHANGED <<run, drain, drainErr, panicked>>,
         start' \in Closing => start \in Closing,
         start' \in {"forced"} \cup Closing => start \in {"forced"} \cup Closing,
         node.draining => node'.draining, node.drainOwnsStop <=> node'.drainOwnsStop,
         node.done => node'.done, store # "none" => store' # "none", store = "nil" => store' = "nil"
  PROVE  LInv'
<1>1. ASSUME NEW r \in Runs PROVE RunOK(run[r])'
  BY Zenon DEF LInv, RunOK
<1>2. ASSUME NEW d \in Drainers PROVE DrainOK(drain[d])'
  BY Zenon DEF LInv, DrainOK, Calm, Clear
<1>3. ProofOK' /\ ~panicked'
  BY Zenon DEF LInv, ProofOK, Calm, Clear
<1>4. CapacityOK'
  BY Zenon DEF LInv, CapacityOK, Active, Reserved
<1> QED
  BY Zenon, <1>1, <1>2, <1>3, <1>4 DEF LInv

\* A step of one run.
LEMMA RunStepOK ==
  ASSUME LInv, NEW r \in Runs, NEW new \in RunType, run' = [run EXCEPT ![r] = new], RunOK(new),
         node.draining /\ Calm(run[r]) => Calm(new),
         node.draining /\ Clear(run[r]) => Clear(new),
         new.active \/ new.reserved =>
           run[r].active \/ run[r].reserved \/ Cardinality(Active \cup Reserved) < Capacity,
         UNCHANGED <<node, start, store, loops, session, drainVars>>, ~panicked'
  PROVE  LInv'
<1>1. run'[r] = new /\ \A q \in Runs \ {r} : run'[q] = run[q]
  BY Zenon DEF LInv, TypesOK
<1>2. TypesOK' /\ FlowOK' /\ drain' = drain /\ drainErr' = drainErr
  BY DEF LInv, TypesOK, FlowOK, drainVars
<1>3. ASSUME NEW q \in Runs PROVE RunOK(run[q])'
  BY <1>1 DEF LInv, RunOK
<1>4. /\ node.draining /\ (\A q \in Runs : Calm(run[q])) => \A q \in Runs : Calm(run'[q])
      /\ node.draining /\ (\A q \in Runs : Clear(run[q])) => \A q \in Runs : Clear(run'[q])
  BY Zenon, <1>1
<1>5. ASSUME NEW d \in Drainers PROVE DrainOK(drain[d])'
  <2>1. DrainOK(drain[d]) /\ drain'[d] = drain[d] /\ node' = node /\ store' = store
    BY Zenon, <1>2 DEF LInv
  <2>2. drain[d].pc \in Asking => drain[d].pc \notin {"idle", "following"}
    BY Zenon DEF Asking
  <2>3. drain[d].pc = "spool" /\ drain[d].quiet => \A q \in Runs : Calm(run'[q])
    BY Zenon, <1>4, <2>1, <2>2 DEF DrainOK, Asking
  <2>4. drain[d].pc \in Proving => store = "nil" \/ \A q \in Runs : Clear(run'[q])
    BY Zenon, <1>4, <2>1 DEF DrainOK, Proving
  <2> QED
    BY Zenon, <2>1, <2>3, <2>4 DEF DrainOK
<1>6. ProofOK'
  BY Zenon, <1>2, <1>4 DEF LInv, ProofOK, FlowOK, Calm, Clear
<1>7. CapacityOK'
  <2>1. (Active \cup Reserved)' \subseteq (Active \cup Reserved) \cup {r}
    BY Zenon, <1>1 DEF Active, Reserved
  <2>2. \/ (Active \cup Reserved)' \subseteq Active \cup Reserved
        \/ Cardinality(Active \cup Reserved) < Capacity
    BY Zenon, <1>1 DEF Active, Reserved
  <2> QED
    BY Zenon, <2>1, <2>2, CapacityKept DEF LInv
<1> QED
  BY Zenon, <1>2, <1>3, <1>5, <1>6, <1>7 DEF LInv

\* A step of one call of Drain.
LEMMA DrainStepOK ==
  ASSUME LInv, NEW d \in Drainers, NEW new \in DrainType, drain' = [drain EXCEPT ![d] = new],
         UNCHANGED <<start, store, loops, run, panicked>>,
         node' \in NodeType, FlowOK', session' \in {"none", "attached", "drained", "closed"},
         drainDone' \in {"none", "open", "closed"},
         node.draining => node'.draining, node.drainOwnsStop => node'.drainOwnsStop,
         DrainOK(new)', ProofOK'
  PROVE  LInv'
<1>1. drain'[d] = new /\ \A e \in Drainers \ {d} : drain'[e] = drain[e]
  BY Zenon DEF LInv, TypesOK
<1>2. TypesOK'
  BY Zenon DEF LInv, TypesOK
<1>3. ASSUME NEW r \in Runs PROVE RunOK(run[r])'
  BY Zenon DEF LInv, RunOK
<1>4. ASSUME NEW e \in Drainers PROVE DrainOK(drain[e])'
  <2>1. run' = run /\ store' = store
    BY Zenon
  <2>2. CASE e = d
    BY Zenon, <1>1, <2>2
  <2>3. CASE e # d
    <3>1. drain'[e] = drain[e] /\ DrainOK(drain[e])
      BY Zenon, <1>1, <2>3 DEF LInv
    <3> QED
      BY Zenon, <2>1, <3>1 DEF DrainOK
  <2> QED
    BY Zenon, <2>2, <2>3
<1>5. CapacityOK'
  BY Zenon DEF LInv, CapacityOK, Active, Reserved
<1> QED
  BY Zenon, <1>2, <1>3, <1>4, <1>5 DEF LInv

\* The typing half of canceling.
LEMMA CancelTyped == ASSUME TypesOK, run' = cancelAllActive PROVE run' \in [Runs -> RunType]
<1>1. ASSUME NEW x \in RunType
      PROVE  [x EXCEPT !.canceled = @ \/ x.active] \in RunType
  BY DEF RunType
<1>2. \A r \in Runs : run[r] \in RunType
  BY Zenon DEF TypesOK
<1>3. \A r \in Runs : [run[r] EXCEPT !.canceled = @ \/ run[r].active] \in RunType
  BY Zenon, <1>1, <1>2
<1> QED
  BY Zenon, <1>3 DEF cancelAllActive

\* Canceling the active attempts accepts, starts and ends none of them.
LEMMA CancelOK ==
  ASSUME LInv, run' = cancelAllActive, UNCHANGED <<drain, drainErr, panicked>>, TypesOK', FlowOK',
         start' \in Closing => start \in Closing,
         node.draining => node'.draining, node.drainOwnsStop <=> node'.drainOwnsStop,
         node.done => node'.done, UNCHANGED store
  PROVE  LInv'
<1>1. ASSUME NEW r \in Runs
      PROVE  /\ run'[r].core = run[r].core /\ run'[r].pc = run[r].pc /\ run'[r].spool = run[r].spool
             /\ run'[r].op = run[r].op /\ run'[r].reserved = run[r].reserved
             /\ run'[r].active = run[r].active /\ run'[r].exec = run[r].exec
             /\ run[r].canceled \/ run[r].active => run'[r].canceled
  BY DEF cancelAllActive, LInv, TypesOK, RunType
<1>2. ASSUME NEW r \in Runs PROVE RunOK(run[r])'
  BY <1>1 DEF LInv, RunOK
<1>3. \A r \in Runs : (Calm(run[r]) => Calm(run'[r])) /\ (Clear(run[r]) => Clear(run'[r]))
  BY Zenon, <1>1 DEF Calm, Clear
<1>4. ASSUME NEW d \in Drainers PROVE DrainOK(drain[d])'
  BY Zenon, <1>3 DEF LInv, DrainOK, Calm, Clear
<1>5. ProofOK'
  BY Zenon, <1>3 DEF LInv, ProofOK, Calm, Clear
<1>6. Active' = Active /\ Reserved' = Reserved
  BY Zenon, <1>1 DEF Active, Reserved
<1> QED
  BY Zenon, <1>2, <1>4, <1>5, <1>6 DEF LInv, CapacityOK

-----------------------------------------------------------------------------
(* The steps of Start, of its shutdown, of Stop and of the loops.          *)

\* A new worker satisfies the invariant.
LEMMA LInit == Init => LInv
<1> SUFFICES ASSUME Init PROVE LInv
  BY Zenon
<1>1. TypesOK
  BY Zenon DEF Init, TypesOK, NodeType, RunType, DrainType, Counts, NewRun, NewDrain, Starts, Begun, Asking
<1>2. FlowOK /\ ProofOK /\ ~panicked
  BY Zenon DEF Init, FlowOK, ProofOK, Waited
<1>3. \A r \in Runs : RunOK(run[r])
  BY Zenon DEF Init, RunOK, NewRun, Begun, Accepted, Closing
<1>4. \A d \in Drainers : DrainOK(drain[d])
  BY Zenon DEF Init, DrainOK, NewDrain, Asking, Proving
<1>5. Active \cup Reserved = {}
  BY Zenon DEF Init, Active, Reserved, NewRun
<1>6. CapacityOK
  BY <1>5, FS_EmptySet, LifecycleAssumption DEF CapacityOK
<1> QED
  BY Zenon, <1>1, <1>2, <1>3, <1>4, <1>6 DEF LInv

\* The steps of Start keep the invariant.
LEMMA StartOK ==
  ASSUME LInv, beginLifecycle \/ startOpensStore \/ startRuntimeLoops \/ StartFails \/ StartEnds
  PROVE  LInv'
<1> USE DEF Starts, Waited, Closing
<1>1. ASSUME beginLifecycle PROVE LInv'
  <2>1. TypesOK'
    BY Zenon, <1>1 DEF LInv, TypesOK, NodeType, beginLifecycle, workVars, drainVars
  <2>2. /\ FlowOK' /\ (node.draining => node'.draining) /\ (node.drainOwnsStop <=> node'.drainOwnsStop)
        /\ (node.done => node'.done)
    BY Zenon, <1>1 DEF LInv, TypesOK, NodeType, FlowOK, beginLifecycle, workVars
  <2> QED
    BY Zenon, <1>1, <2>1, <2>2, NodeStepOK DEF beginLifecycle, workVars, drainVars
<1>2. ASSUME startOpensStore PROVE LInv'
  <2>1. TypesOK'
    BY Zenon, <1>2 DEF LInv, TypesOK, startOpensStore, workVars, drainVars
  <2>2. FlowOK'
    BY Zenon, <1>2 DEF LInv, FlowOK, startOpensStore, workVars
  <2>3. store # "nil"
    BY Zenon, <1>2 DEF LInv, FlowOK, startOpensStore
  <2> QED
    BY Zenon, <1>2, <2>1, <2>2, <2>3, NodeStepOK DEF startOpensStore, workVars, drainVars
<1>3. ASSUME startRuntimeLoops PROVE LInv'
  <2>1. TypesOK'
    BY Zenon, <1>3 DEF LInv, TypesOK, startRuntimeLoops, drainVars
  <2>2. FlowOK'
    BY Zenon, <1>3 DEF LInv, FlowOK, startRuntimeLoops
  <2> QED
    BY Zenon, <1>3, <2>1, <2>2, NodeStepOK DEF startRuntimeLoops, drainVars
<1>4. ASSUME StartFails \/ StartEnds PROVE LInv'
  <2>1. TypesOK'
    BY Zenon, <1>4 DEF LInv, TypesOK, StartFails, StartEnds, workVars, drainVars
  <2>2. FlowOK'
    BY Zenon, <1>4 DEF LInv, FlowOK, StartFails, StartEnds, workVars
  <2> QED
    BY Zenon, <1>4, <2>1, <2>2, NodeStepOK DEF StartFails, StartEnds, workVars, drainVars
<1> QED
  BY Zenon, <1>1, <1>2, <1>3, <1>4

\* The wait for the executions ends: none runs, or those that do are canceled.
LEMMA WaitEndsOK == ASSUME LInv, shutdownQuiet \/ shutdownGivesUp PROVE LInv'
<1> USE DEF Starts, Waited, Closing
<1>1. /\ start \in {"executions", "forced"} /\ start' = "closing"
      /\ UNCHANGED <<node, store, loops, run, session, drain, drainDone, drainErr, panicked>>
  BY Zenon DEF shutdownQuiet, shutdownGivesUp, workVars, drainVars
<1>2. TypesOK' /\ FlowOK'
  BY Zenon, <1>1 DEF LInv, TypesOK, FlowOK
<1>3. ASSUME NEW r \in Runs PROVE RunOK(run[r])'
  <2>1. run[r].exec # "persisting" /\ (run[r].exec = "running" => run[r].canceled)
    BY Zenon DEF LInv, RunOK, shutdownQuiet, shutdownGivesUp, Executing
  <2> QED
    BY Zenon, <1>1, <2>1 DEF LInv, RunOK
<1>4. ASSUME NEW d \in Drainers PROVE DrainOK(drain[d])'
  BY Zenon, <1>1 DEF LInv, DrainOK, Calm, Clear
<1>5. ProofOK' /\ CapacityOK' /\ ~panicked'
  BY Zenon, <1>1 DEF LInv, ProofOK, CapacityOK, Active, Reserved, Calm, Clear
<1> QED
  BY Zenon, <1>2, <1>3, <1>4, <1>5 DEF LInv

\* The steps of shutdown keep the invariant.
LEMMA ShutdownOK == ASSUME LInv, Shutdown PROVE LInv'
<1> USE DEF Starts, Waited, Closing
<1>1. ASSUME shutdownRequestsStop PROVE LInv'
  <2>1. /\ start = "shutdown" /\ start' = "executions" /\ node' = requestStop(node)
        /\ UNCHANGED <<store, loops, run, session, drain, drainDone, drainErr, panicked>>
    BY Zenon, <1>1 DEF shutdownRequestsStop, workVars, drainVars
  <2>2. /\ node' \in NodeType /\ (node'.started <=> node.started) /\ (node'.completed <=> node.completed)
        /\ (node'.done <=> node.done) /\ node'.stopping /\ node'.draining
        /\ (node.stopRequested \/ node.started => node'.stopRequested)
        /\ (node'.drainOwnsStop => node.drainOwnsStop)
        /\ (node.drainOwnsStop /\ node.stopRequested => node'.drainOwnsStop)
    BY Zenon, <2>1, RequestStopOK DEF LInv, TypesOK
  <2>3. TypesOK'
    BY Zenon, <2>1, <2>2 DEF LInv, TypesOK
  <2>4. FlowOK' /\ (node.drainOwnsStop <=> node'.drainOwnsStop)
    BY Zenon, <2>1, <2>2 DEF LInv, FlowOK
  <2> QED
    BY Zenon, <2>1, <2>2, <2>3, <2>4, NodeStepOK
<1>2. ASSUME shutdownForces PROVE LInv'
  <2>1. /\ start = "executions" /\ start' = "forced" /\ run' = cancelAllActive
        /\ UNCHANGED <<node, store, loops, session, drain, drainDone, drainErr, panicked>>
    BY Zenon, <1>2 DEF shutdownForces, drainVars
  <2>2. TypesOK' /\ FlowOK'
    BY Zenon, <2>1, CancelTyped DEF LInv, TypesOK, FlowOK
  <2> QED
    BY Zenon, <2>1, <2>2, CancelOK
<1>3. ASSUME shutdownCloses PROVE LInv'
  <2>1. /\ start = "closing" /\ start' = "loops" /\ run' = cancelAllActive
        /\ session' = (IF session = "none" THEN "none" ELSE "closed")
        /\ node' = [node EXCEPT !.runtimeStopped = TRUE]
        /\ UNCHANGED <<store, loops, drain, drainDone, drainErr, panicked>>
    BY Zenon, <1>3 DEF shutdownCloses, drainVars
  <2>2. TypesOK'
    BY Zenon, <2>1, CancelTyped DEF LInv, TypesOK, NodeType
  <2>3. /\ FlowOK' /\ (node.draining => node'.draining) /\ (node.drainOwnsStop <=> node'.drainOwnsStop)
        /\ (node.done => node'.done)
    BY Zenon, <2>1 DEF LInv, TypesOK, NodeType, FlowOK
  <2> QED
    BY Zenon, <2>1, <2>2, <2>3, CancelOK
<1>4. ASSUME shutdownClosesStore PROVE LInv'
  <2>1. TypesOK'
    BY Zenon, <1>4 DEF LInv, TypesOK, shutdownClosesStore, workVars, drainVars
  <2>2. FlowOK'
    BY Zenon, <1>4 DEF LInv, FlowOK, shutdownClosesStore, workVars
  <2> QED
    BY Zenon, <1>4, <2>1, <2>2, NodeStepOK DEF shutdownClosesStore, workVars, drainVars
<1>5. ASSUME shutdownDone PROVE LInv'
  <2>1. TypesOK'
    BY Zenon, <1>5 DEF LInv, TypesOK, NodeType, shutdownDone, workVars, drainVars
  <2>2. /\ FlowOK' /\ (node.draining => node'.draining) /\ (node.drainOwnsStop <=> node'.drainOwnsStop)
        /\ (node.done => node'.done)
    BY Zenon, <1>5 DEF LInv, TypesOK, NodeType, FlowOK, shutdownDone, workVars
  <2> QED
    BY Zenon, <1>5, <2>1, <2>2, NodeStepOK DEF shutdownDone, workVars, drainVars
<1> QED
  BY Zenon, <1>1, <1>2, <1>3, <1>4, <1>5, WaitEndsOK DEF Shutdown

\* Steps outside the drains and the handlers keep the invariant.
LEMMA OtherStepsOK ==
  ASSUME LInv, \/ \E l \in loops : LoopExits(l)
               \/ markDraining \/ claimLoopCalls \/ ClaimReturnsNothing
               \/ \E x \in Stoppers : Stop(x) \/ StopReturns(x)
               \/ UNCHANGED vars
  PROVE  LInv'
<1>1. ASSUME NEW l \in loops, LoopExits(l) PROVE LInv'
  <2>1. TypesOK'
    BY Zenon, <1>1 DEF LInv, TypesOK, LoopExits, drainVars
  <2>2. FlowOK'
    BY Zenon, <1>1 DEF LInv, FlowOK, LoopExits, drainVars
  <2> QED
    BY Zenon, <1>1, <2>1, <2>2, NodeStepOK DEF LoopExits, drainVars
<1>2. ASSUME markDraining PROVE LInv'
  <2>1. TypesOK'
    BY Zenon, <1>2 DEF LInv, TypesOK, NodeType, markDraining, workVars, drainVars
  <2>2. /\ FlowOK' /\ (node.draining => node'.draining) /\ (node.drainOwnsStop <=> node'.drainOwnsStop)
        /\ (node.done => node'.done)
    BY Zenon, <1>2 DEF LInv, TypesOK, NodeType, FlowOK, markDraining, workVars
  <2> QED
    BY Zenon, <1>2, <2>1, <2>2, NodeStepOK DEF markDraining, workVars, drainVars
<1>3. ASSUME NEW x \in Stoppers, Stop(x) PROVE LInv'
  <2>1. /\ node' = requestStop(node)
        /\ UNCHANGED <<start, store, loops, run, session, drain, drainDone, drainErr, panicked>>
    BY Zenon, <1>3 DEF Stop, workVars, drainVars
  <2>2. node' \in NodeType /\ (node'.done <=> node.done) /\ node'.draining
        /\ (node'.drainOwnsStop => node.drainOwnsStop)
    BY Zenon, <2>1, RequestStopOK DEF LInv, TypesOK
  <2>3. FlowOK' /\ (node.drainOwnsStop => node'.drainOwnsStop)
    BY Zenon, <2>1, StopKeepsFlow DEF LInv, TypesOK
  <2>4. TypesOK'
    BY Zenon, <2>1, <2>2 DEF LInv, TypesOK
  <2> QED
    BY Zenon, <2>1, <2>2, <2>3, <2>4, NodeStepOK
<1>4. ASSUME UNCHANGED <<node, start, store, loops, run, session, drain, drainDone, drainErr, panicked>>
      PROVE  LInv'
  <2>1. TypesOK' /\ FlowOK'
    BY Zenon, <1>4 DEF LInv, TypesOK, FlowOK
  <2> QED
    BY Zenon, <1>4, <2>1, NodeStepOK
<1> QED
  BY Zenon, <1>1, <1>2, <1>3, <1>4
  DEF claimLoopCalls, ClaimReturnsNothing, workFrame, StopReturns, vars, workVars, drainVars

-----------------------------------------------------------------------------
(* The steps of a run.                                                     *)

\* The run is offered, and may expire at OpenLinker at any time.
LEMMA OfferOK == ASSUME LInv, NEW r \in Runs, CoreOffers(r) \/ CoreExpires(r) PROVE LInv'
<1>1. run[r] \in RunType /\ RunOK(run[r])
  BY Zenon DEF LInv, TypesOK
<1>2. ASSUME CoreOffers(r) PROVE LInv'
  <2> DEFINE new == [run[r] EXCEPT !.core = "offered", !.pc = "claimed"]
  <2>1. new \in RunType
    BY Zenon, <1>1 DEF RunType
  <2>2. RunOK(new) /\ (Calm(run[r]) => Calm(new)) /\ (Clear(run[r]) => Clear(new))
    <3>1. /\ new.core = "offered" /\ new.pc = "claimed" /\ new.spool = run[r].spool /\ new.op = run[r].op
          /\ new.reserved = run[r].reserved /\ new.active = run[r].active
          /\ new.exec = run[r].exec /\ new.canceled = run[r].canceled
      BY Zenon, <1>1 DEF RunType
    <3> HIDE DEF new
    <3> QED
      BY Zenon, <1>1, <1>2, <3>1 DEF RunOK, Calm, Clear, CoreOffers, LInv, FlowOK, Begun, Accepted
  <2>3. new.active = run[r].active /\ new.reserved = run[r].reserved
    BY Zenon, <1>1 DEF RunType
  <2> QED
    BY Zenon, <1>2, <2>1, <2>2, <2>3, RunStepOK DEF CoreOffers, Handle, workFrame, LInv
<1>3. ASSUME CoreExpires(r) PROVE LInv'
  <2> DEFINE new == [run[r] EXCEPT !.core = "expired"]
  <2>1. new \in RunType
    BY Zenon, <1>1 DEF RunType
  <2>2. RunOK(new) /\ (Calm(run[r]) => Calm(new)) /\ (Clear(run[r]) => Clear(new))
    <3>1. /\ new.core = "expired" /\ new.pc = run[r].pc /\ new.spool = run[r].spool /\ new.op = run[r].op
          /\ new.reserved = run[r].reserved /\ new.active = run[r].active
          /\ new.exec = run[r].exec /\ new.canceled = run[r].canceled
      BY Zenon, <1>1 DEF RunType
    <3> HIDE DEF new
    <3> QED
      BY Zenon, <1>1, <3>1 DEF RunOK, Calm, Clear
  <2>3. new.active = run[r].active /\ new.reserved = run[r].reserved
    BY Zenon, <1>1 DEF RunType
  <2> QED
    BY Zenon, <1>3, <2>1, <2>2, <2>3, RunStepOK DEF CoreExpires, Handle, workFrame, LInv
<1> QED
  BY Zenon, <1>2, <1>3

\* beginAssignment: a place is reserved within the capacity, and only before the fence.
LEMMA BeginOK == ASSUME LInv, NEW r \in Runs, beginAssignment(r) PROVE LInv'
<1> DEFINE free == ~node.draining /\ Cardinality(Active \cup Reserved) < Capacity
           new == [run[r] EXCEPT !.pc = "begun", !.op = TRUE, !.reserved = free]
<1>1. run[r] \in RunType /\ RunOK(run[r]) /\ run[r].pc = "claimed"
  BY Zenon DEF LInv, TypesOK, beginAssignment
<1>2. free \in BOOLEAN
  BY Zenon
<1> HIDE DEF free
<1>3. new \in RunType
  BY Zenon, <1>1, <1>2 DEF RunType, Begun
<1>4. /\ new.pc = "begun" /\ new.op = TRUE /\ new.reserved = free /\ new.active = run[r].active
      /\ new.core = run[r].core
      /\ new.exec = run[r].exec /\ new.spool = run[r].spool /\ new.canceled = run[r].canceled
  BY Zenon, <1>1 DEF RunType
<1>5. free => ~node.draining /\ Cardinality(Active \cup Reserved) < Capacity
  BY Zenon DEF free
<1> HIDE DEF new
<1>6. RunOK(new)
  BY Zenon, <1>1, <1>4 DEF RunOK, Begun, Accepted
<1>7. node.draining => (Calm(run[r]) => Calm(new)) /\ (Clear(run[r]) => Clear(new))
  BY Zenon, <1>1, <1>4, <1>5 DEF Calm, Clear, Accepted
<1>8. new.active \/ new.reserved => run[r].active \/ Cardinality(Active \cup Reserved) < Capacity
  BY Zenon, <1>4, <1>5
<1>9. run' = [run EXCEPT ![r] = new]
  BY Zenon DEF beginAssignment, Handle, new, free
<1> QED
  BY Zenon, <1>3, <1>6, <1>7, <1>8, <1>9, RunStepOK DEF beginAssignment, workFrame, LInv

\* The record is written, then admission is decided: a run that is accepted has its place.
LEMMA AdmitOK == ASSUME LInv, NEW r \in Runs, CreateAssignment(r) \/ assignmentAdmitted(r) PROVE LInv'
<1>1. run[r] \in RunType /\ RunOK(run[r])
  BY Zenon DEF LInv, TypesOK
<1>2. ASSUME CreateAssignment(r) PROVE LInv'
  <2> DEFINE new == [run[r] EXCEPT !.pc = "created", !.spool = "received"]
  <2>1. new \in RunType
    BY Zenon, <1>1 DEF RunType, Begun
  <2>2. RunOK(new) /\ (Calm(run[r]) => Calm(new)) /\ (Clear(run[r]) => Clear(new))
    <3>1. /\ new.core = run[r].core /\ new.pc = "created" /\ new.spool = "received" /\ new.op = run[r].op
          /\ new.reserved = run[r].reserved /\ new.active = run[r].active
          /\ new.exec = run[r].exec /\ new.canceled = run[r].canceled
      BY Zenon, <1>1 DEF RunType
    <3> HIDE DEF new
    <3> QED
      BY Zenon, <1>1, <1>2, <3>1 DEF RunOK, Calm, Clear, CreateAssignment, Begun, Accepted
  <2>3. new.active = run[r].active /\ new.reserved = run[r].reserved
    BY Zenon, <1>1 DEF RunType
  <2> QED
    BY Zenon, <1>2, <2>1, <2>2, <2>3, RunStepOK DEF CreateAssignment, Handle, workFrame, LInv
<1>3. ASSUME assignmentAdmitted(r), node.draining \/ ~run[r].reserved PROVE LInv'
  <2> DEFINE new == [run[r] EXCEPT !.pc = "rejecting", !.spool = "reject_sent"]
  <2>1. new \in RunType
    BY Zenon, <1>1 DEF RunType, Begun
  <2>2. RunOK(new) /\ (Calm(run[r]) => Calm(new)) /\ (Clear(run[r]) => Clear(new))
    <3>1. /\ new.core = run[r].core /\ new.pc = "rejecting" /\ new.spool = "reject_sent" /\ new.op = run[r].op
          /\ new.reserved = run[r].reserved /\ new.active = run[r].active
          /\ new.exec = run[r].exec /\ new.canceled = run[r].canceled
      BY Zenon, <1>1 DEF RunType
    <3> HIDE DEF new
    <3> QED
      BY Zenon, <1>1, <1>3, <3>1 DEF RunOK, Calm, Clear, assignmentAdmitted, Begun, Accepted
  <2>3. new.active = run[r].active /\ new.reserved = run[r].reserved
    BY Zenon, <1>1 DEF RunType
  <2> QED
    BY Zenon, <1>3, <2>1, <2>2, <2>3, RunStepOK DEF assignmentAdmitted, Handle, workFrame, LInv
<1>4. ASSUME assignmentAdmitted(r), ~(node.draining \/ ~run[r].reserved) PROVE LInv'
  <2> DEFINE new == [run[r] EXCEPT !.pc = "acking", !.spool = "ack_sent"]
  <2>0. "acking" \in Begun /\ "ack_sent" \in {"none", "received", "reject_sent", "ack_sent", "confirmed",
                     "started", "finished", "acknowledged", "revoked"}
    BY Zenon DEF Begun
  <2>1. new \in RunType
    BY Zenon, <1>1, <2>0 DEF RunType
  <2>2. run[r].pc = "created" /\ run[r].reserved /\ ~node.draining /\ run' = [run EXCEPT ![r] = new]
    BY Zenon, <1>4 DEF assignmentAdmitted, Handle
  <2>3. /\ new.pc = "acking" /\ new.spool = "ack_sent" /\ new.exec = run[r].exec
        /\ new.active = run[r].active /\ new.reserved = run[r].reserved
        /\ new.op = run[r].op /\ new.core = run[r].core
    BY Zenon, <1>1 DEF RunType
  <2> HIDE DEF new
  <2>4. run[r].exec \notin {"running", "persisting"} /\ run[r].op /\ run[r].exec = "none"
    BY Zenon, <1>1, <2>2 DEF RunOK, Begun
  <2>5. RunOK(new)
    BY Zenon, <1>1, <2>2, <2>3, <2>4 DEF RunOK, Begun, Accepted
  <2> QED
    BY Zenon, <1>4, <2>1, <2>2, <2>3, <2>5, RunStepOK DEF assignmentAdmitted, workFrame, LInv
<1> QED
  BY Zenon, <1>2, <1>3, <1>4 DEF assignmentAdmitted

\* A reply to a refusal or to an acknowledgement starts nothing.
LEMMA ReplyOK == ASSUME LInv, NEW r \in Runs, rejectAssignment(r) \/ ackAssignmentWithRetry(r) PROVE LInv'
<1>1. run[r] \in RunType /\ RunOK(run[r])
  BY Zenon DEF LInv, TypesOK
<1>2. ASSUME NEW new \in RunType, run' = [run EXCEPT ![r] = new], new.pc \in {"ending", "confirmed"},
             run[r].pc \in {"rejecting", "acking"}, new.pc = "confirmed" => run[r].pc = "acking",
             new.core \in {run[r].core, "done", "leased"},
             new.spool \in {run[r].spool, "none", "revoked"} \/ run[r].pc = "acking",
             new.spool # "finished" \/ new.spool = run[r].spool,
             new.op = run[r].op, new.reserved = run[r].reserved, new.active = run[r].active,
             new.exec = run[r].exec, new.canceled = run[r].canceled, workFrame
      PROVE  LInv'
  <2>1. RunOK(new)
    BY Zenon, <1>1, <1>2 DEF RunOK, Begun, Accepted
  <2>2. (Calm(run[r]) => Calm(new)) /\ (Clear(run[r]) => Clear(new))
    BY Zenon, <1>2 DEF Calm, Clear, Accepted
  <2> QED
    BY Zenon, <1>2, <2>1, <2>2, RunStepOK DEF workFrame, LInv
<1>3. ASSUME rejectAssignment(r) PROVE LInv'
  <2>1. ASSUME NEW new \in RunType, run' = [run EXCEPT ![r] = new], new.pc = "ending",
               new.spool \in {run[r].spool, "none", "revoked"}, new.core \in {run[r].core, "done"},
               new.op = run[r].op, new.reserved = run[r].reserved, new.active = run[r].active,
               new.exec = run[r].exec, new.canceled = run[r].canceled
        PROVE  LInv'
    BY Zenon, <1>2, <1>3, <2>1 DEF rejectAssignment
  <2>2. ASSUME Handle(r, [run[r] EXCEPT !.pc = "ending", !.spool = "none", !.core = "done"]) PROVE LInv'
    <3>1. PICK new : new = [run[r] EXCEPT !.pc = "ending", !.spool = "none", !.core = "done"]
      BY Zenon
    <3>2. new \in RunType
      BY Zenon, <1>1, <3>1 DEF RunType, Begun
    <3>3. /\ new.pc = "ending" /\ new.spool = "none" /\ new.core = "done"
          /\ new.op = run[r].op /\ new.reserved = run[r].reserved /\ new.active = run[r].active
          /\ new.exec = run[r].exec /\ new.canceled = run[r].canceled
      BY Zenon, <1>1, <3>1 DEF RunType
    <3> QED
      BY Zenon, <2>1, <2>2, <3>1, <3>2, <3>3 DEF Handle
  <2>3. ASSUME Handle(r, [run[r] EXCEPT !.pc = "ending", !.spool = "revoked"]) PROVE LInv'
    <3>1. PICK new : new = [run[r] EXCEPT !.pc = "ending", !.spool = "revoked"]
      BY Zenon
    <3>2. new \in RunType
      BY Zenon, <1>1, <3>1 DEF RunType, Begun
    <3>3. /\ new.pc = "ending" /\ new.spool = "revoked" /\ new.core = run[r].core
          /\ new.op = run[r].op /\ new.reserved = run[r].reserved /\ new.active = run[r].active
          /\ new.exec = run[r].exec /\ new.canceled = run[r].canceled
      BY Zenon, <1>1, <3>1 DEF RunType
    <3> QED
      BY Zenon, <2>1, <2>3, <3>1, <3>2, <3>3 DEF Handle
  <2>4. ASSUME Handle(r, [run[r] EXCEPT !.pc = "ending"]) PROVE LInv'
    <3>1. PICK new : new = [run[r] EXCEPT !.pc = "ending"]
      BY Zenon
    <3>2. new \in RunType
      BY Zenon, <1>1, <3>1 DEF RunType, Begun
    <3>3. /\ new.pc = "ending" /\ new.spool = run[r].spool /\ new.core = run[r].core
          /\ new.op = run[r].op /\ new.reserved = run[r].reserved /\ new.active = run[r].active
          /\ new.exec = run[r].exec /\ new.canceled = run[r].canceled
      BY Zenon, <1>1, <3>1 DEF RunType
    <3> QED
      BY Zenon, <2>1, <2>4, <3>1, <3>2, <3>3 DEF Handle
  <2> QED
    BY Zenon, <1>3, <2>2, <2>3, <2>4 DEF rejectAssignment
<1>4. ASSUME ackAssignmentWithRetry(r) PROVE LInv'
  <2>1. ASSUME NEW new \in RunType, run' = [run EXCEPT ![r] = new], new.pc \in {"ending", "confirmed"},
               new.spool # "finished" \/ new.spool = run[r].spool, new.core \in {run[r].core, "leased"},
               new.op = run[r].op, new.reserved = run[r].reserved, new.active = run[r].active,
               new.exec = run[r].exec, new.canceled = run[r].canceled
        PROVE  LInv'
    BY Zenon, <1>2, <1>4, <2>1 DEF ackAssignmentWithRetry
  <2>2. ASSUME Handle(r, [run[r] EXCEPT !.pc = "confirmed", !.spool = "confirmed", !.core = "leased"]) PROVE LInv'
    <3>1. PICK new : new = [run[r] EXCEPT !.pc = "confirmed", !.spool = "confirmed", !.core = "leased"]
      BY Zenon
    <3>2. new \in RunType
      BY Zenon, <1>1, <3>1 DEF RunType, Begun
    <3>3. /\ new.pc = "confirmed" /\ new.spool = "confirmed" /\ new.core = "leased"
          /\ new.op = run[r].op /\ new.reserved = run[r].reserved /\ new.active = run[r].active
          /\ new.exec = run[r].exec /\ new.canceled = run[r].canceled
      BY Zenon, <1>1, <3>1 DEF RunType
    <3> QED
      BY Zenon, <2>1, <2>2, <3>1, <3>2, <3>3 DEF Handle
  <2>3. ASSUME Handle(r, [run[r] EXCEPT !.pc = "ending", !.spool = "revoked"]) PROVE LInv'
    <3>1. PICK new : new = [run[r] EXCEPT !.pc = "ending", !.spool = "revoked"]
      BY Zenon
    <3>2. new \in RunType
      BY Zenon, <1>1, <3>1 DEF RunType, Begun
    <3>3. /\ new.pc = "ending" /\ new.spool = "revoked" /\ new.core = run[r].core
          /\ new.op = run[r].op /\ new.reserved = run[r].reserved /\ new.active = run[r].active
          /\ new.exec = run[r].exec /\ new.canceled = run[r].canceled
      BY Zenon, <1>1, <3>1 DEF RunType
    <3> QED
      BY Zenon, <2>1, <2>3, <3>1, <3>2, <3>3 DEF Handle
  <2>4. ASSUME Handle(r, [run[r] EXCEPT !.pc = "ending"]) PROVE LInv'
    <3>1. PICK new : new = [run[r] EXCEPT !.pc = "ending"]
      BY Zenon
    <3>2. new \in RunType
      BY Zenon, <1>1, <3>1 DEF RunType, Begun
    <3>3. /\ new.pc = "ending" /\ new.spool = run[r].spool /\ new.core = run[r].core
          /\ new.op = run[r].op /\ new.reserved = run[r].reserved /\ new.active = run[r].active
          /\ new.exec = run[r].exec /\ new.canceled = run[r].canceled
      BY Zenon, <1>1, <3>1 DEF RunType
    <3> QED
      BY Zenon, <2>1, <2>4, <3>1, <3>2, <3>3 DEF Handle
  <2> QED
    BY Zenon, <1>4, <2>2, <2>3, <2>4 DEF ackAssignmentWithRetry
<1> QED
  BY Zenon, <1>3, <1>4

\* startConfirmedAttempt: only a run with a place starts, and none once the worker stops.
LEMMA StartConfirmedOK == ASSUME LInv, NEW r \in Runs, startConfirmedAttempt(r) PROVE LInv'
<1>1. run[r] \in RunType /\ RunOK(run[r]) /\ run[r].pc = "confirmed"
  BY Zenon DEF LInv, TypesOK, startConfirmedAttempt
<1>2. ~Calm(run[r]) /\ ~Clear(run[r])
  BY Zenon, <1>1 DEF Calm, Clear, Accepted
<1>3. ASSUME node.stopping PROVE LInv'
  <2> DEFINE new == [run[r] EXCEPT !.pc = "ending"]
  <2>1. new \in RunType
    BY Zenon, <1>1 DEF RunType, Begun
  <2>2. RunOK(new)
    <3>1. /\ new.core = run[r].core /\ new.pc = "ending" /\ new.spool = run[r].spool /\ new.op = run[r].op
          /\ new.reserved = run[r].reserved /\ new.active = run[r].active
          /\ new.exec = run[r].exec /\ new.canceled = run[r].canceled
      BY Zenon, <1>1 DEF RunType
    <3> HIDE DEF new
    <3> QED
      BY Zenon, <1>1, <3>1 DEF RunOK, Begun, Accepted
  <2>3. new.active = run[r].active /\ new.reserved = run[r].reserved
    BY Zenon, <1>1 DEF RunType
  <2> QED
    BY Zenon, <1>2, <1>3, <2>1, <2>2, <2>3, RunStepOK DEF startConfirmedAttempt, Handle, workFrame, LInv
<1>4. ASSUME ~node.stopping PROVE LInv'
  <2> DEFINE new == [run[r] EXCEPT !.pc = "ending", !.spool = "started", !.active = TRUE, !.exec = "running"]
  <2>1. new \in RunType
    BY Zenon, <1>1 DEF RunType, Begun
  <2>2. start \notin Waited
    BY Zenon, <1>4 DEF LInv, FlowOK
  <2>3. RunOK(new)
    <3>1. /\ new.core = run[r].core /\ new.pc = "ending" /\ new.spool = "started" /\ new.op = run[r].op
          /\ new.reserved = run[r].reserved /\ new.active = TRUE
          /\ new.exec = "running" /\ new.canceled = run[r].canceled
      BY Zenon, <1>1 DEF RunType
    <3> HIDE DEF new
    <3> QED
      BY Zenon, <1>1, <2>2, <3>1 DEF RunOK, Begun, Accepted, Waited, Closing
  <2>4. run[r].reserved
    BY Zenon, <1>1 DEF RunOK, Accepted
  <2> QED
    BY Zenon, <1>2, <1>4, <2>1, <2>3, <2>4, RunStepOK DEF startConfirmedAttempt, Handle, workFrame, LInv
<1> QED
  BY Zenon, <1>3, <1>4

\* endAssignment gives the place back, the handler keeps its own.
LEMMA EndOK == ASSUME LInv, NEW r \in Runs, endAssignment(r) PROVE LInv'
<1> DEFINE new == [run[r] EXCEPT !.pc = "ended", !.op = FALSE, !.reserved = FALSE]
<1>1. run[r] \in RunType /\ RunOK(run[r]) /\ run[r].pc = "ending"
  BY Zenon DEF LInv, TypesOK, endAssignment
<1>2. new \in RunType
  BY Zenon, <1>1 DEF RunType
<1>3. RunOK(new) /\ (Calm(run[r]) => Calm(new)) /\ (Clear(run[r]) => Clear(new))
  <2>1. /\ new.core = run[r].core /\ new.pc = "ended" /\ new.spool = run[r].spool /\ new.op = FALSE
        /\ new.reserved = FALSE /\ new.active = run[r].active
        /\ new.exec = run[r].exec /\ new.canceled = run[r].canceled
    BY Zenon, <1>1 DEF RunType
  <2> HIDE DEF new
  <2> QED
    BY Zenon, <1>1, <2>1 DEF RunOK, Calm, Clear, Begun, Accepted
<1>4. new.active = run[r].active /\ new.reserved = FALSE
  BY Zenon, <1>1 DEF RunType
<1> QED
  BY Zenon, <1>2, <1>3, <1>4, RunStepOK DEF endAssignment, Handle, workFrame, LInv

\* The handler returns and its result is written: the store is open whenever a
\* result is still to be written.
LEMMA ExecuteOK == ASSUME LInv, NEW r \in Runs, executeAttempt(r) \/ persistRunResult(r) PROVE LInv'
<1>1. run[r] \in RunType /\ RunOK(run[r])
  BY Zenon DEF LInv, TypesOK
<1>2. ASSUME executeAttempt(r) PROVE LInv'
  <2> DEFINE e == IF run[r].canceled THEN "done" ELSE "persisting"
             new == [run[r] EXCEPT !.exec = e]
  <2>1. e \in {"done", "persisting"} /\ (run[r].canceled => e = "done")
    BY Zenon
  <2> HIDE DEF e
  <2>2. new \in RunType
    BY Zenon, <1>1, <2>1 DEF RunType
  <2>3. RunOK(new) /\ ~Calm(run[r])
    <3>1. /\ new.core = run[r].core /\ new.pc = run[r].pc /\ new.spool = run[r].spool /\ new.op = run[r].op
          /\ new.reserved = run[r].reserved /\ new.active = run[r].active
          /\ new.exec = e /\ new.canceled = run[r].canceled
      BY Zenon, <1>1 DEF RunType
    <3> HIDE DEF new
    <3> QED
      BY Zenon, <1>1, <1>2, <2>1, <3>1 DEF RunOK, Calm, executeAttempt, Begun, Accepted
  <2>4. new.active = run[r].active /\ new.reserved = run[r].reserved
    BY Zenon, <1>1 DEF RunType
  <2>5. run' = [run EXCEPT ![r] = new]
    BY Zenon, <1>2 DEF executeAttempt, Handle, e
  <2> QED
    BY Zenon, <1>2, <2>2, <2>3, <2>4, <2>5, RunStepOK DEF executeAttempt, workFrame, LInv, Clear
<1>3. ASSUME persistRunResult(r) PROVE LInv'
  <2> DEFINE new == [run[r] EXCEPT !.exec = "done", !.spool = "finished"]
  <2>1. new \in RunType
    BY Zenon, <1>1 DEF RunType
  <2>2. RunOK(new) /\ ~Calm(run[r])
    <3>1. /\ new.core = run[r].core /\ new.pc = run[r].pc /\ new.spool = "finished" /\ new.op = run[r].op
          /\ new.reserved = run[r].reserved /\ new.active = run[r].active
          /\ new.exec = "done" /\ new.canceled = run[r].canceled
      BY Zenon, <1>1 DEF RunType
    <3> HIDE DEF new
    <3> QED
      BY Zenon, <1>1, <1>3, <3>1 DEF RunOK, Calm, persistRunResult, Begun, Accepted
  <2>3. new.active = run[r].active /\ new.reserved = run[r].reserved
    BY Zenon, <1>1 DEF RunType
  <2>4. store = "open"
    BY Zenon, <1>1, <1>3 DEF RunOK, RunType, persistRunResult, LInv, TypesOK, FlowOK, Closing
  <2>5. ~panicked'
    BY Zenon, <1>3, <2>4 DEF persistRunResult, LInv
  <2> QED
    BY Zenon, <1>3, <2>1, <2>2, <2>3, <2>5, RunStepOK DEF persistRunResult, Handle, LInv, Clear
<1> QED
  BY Zenon, <1>2, <1>3

\* The spool loop retires the attempt and deletes its record.
LEMMA FlushOK == ASSUME LInv, NEW r \in Runs, flushRecord(r) \/ DeleteAssignment(r) PROVE LInv'
<1>1. run[r] \in RunType /\ RunOK(run[r])
  BY Zenon DEF LInv, TypesOK
<1>2. ASSUME flushRecord(r), run[r].core = "leased" PROVE LInv'
  <2> DEFINE new == [run[r] EXCEPT !.core = "done", !.active = FALSE, !.spool = "acknowledged"]
  <2>1. new \in RunType
    BY Zenon, <1>1 DEF RunType
  <2>2. RunOK(new) /\ ~Clear(run[r]) /\ (Calm(run[r]) => Calm(new))
    <3>1. /\ new.core = "done" /\ new.pc = run[r].pc /\ new.spool = "acknowledged" /\ new.op = run[r].op
          /\ new.reserved = run[r].reserved /\ new.active = FALSE
          /\ new.exec = run[r].exec /\ new.canceled = run[r].canceled
      BY Zenon, <1>1 DEF RunType
    <3> HIDE DEF new
    <3> QED
      BY Zenon, <1>1, <1>2, <3>1 DEF RunOK, Calm, Clear, flushRecord, Begun, Accepted
  <2>3. new.active = FALSE /\ new.reserved = run[r].reserved
    BY Zenon, <1>1 DEF RunType
  <2> QED
    BY Zenon, <1>2, <2>1, <2>2, <2>3, RunStepOK DEF flushRecord, Handle, workFrame, LInv
<1>3. ASSUME flushRecord(r), run[r].core = "expired" PROVE LInv'
  <2> DEFINE new == [run[r] EXCEPT !.active = FALSE, !.canceled = TRUE, !.spool = "revoked"]
  <2>1. new \in RunType
    BY Zenon, <1>1 DEF RunType
  <2>2. RunOK(new) /\ ~Clear(run[r]) /\ (Calm(run[r]) => Calm(new))
    <3>1. /\ new.core = run[r].core /\ new.pc = run[r].pc /\ new.spool = "revoked" /\ new.op = run[r].op
          /\ new.reserved = run[r].reserved /\ new.active = FALSE
          /\ new.exec = run[r].exec /\ new.canceled = TRUE
      BY Zenon, <1>1 DEF RunType
    <3> HIDE DEF new
    <3> QED
      BY Zenon, <1>1, <1>3, <3>1 DEF RunOK, Calm, Clear, flushRecord, Begun, Accepted
  <2>3. new.active = FALSE /\ new.reserved = run[r].reserved
    BY Zenon, <1>1 DEF RunType
  <2> QED
    BY Zenon, <1>3, <2>1, <2>2, <2>3, RunStepOK DEF flushRecord, Handle, workFrame, LInv
<1>4. ASSUME DeleteAssignment(r) PROVE LInv'
  <2> DEFINE new == [run[r] EXCEPT !.spool = "none"]
  <2>1. new \in RunType
    BY Zenon, <1>1 DEF RunType
  <2>2. RunOK(new) /\ ~Clear(run[r]) /\ (Calm(run[r]) => Calm(new))
    <3>1. /\ new.core = run[r].core /\ new.pc = run[r].pc /\ new.spool = "none" /\ new.op = run[r].op
          /\ new.reserved = run[r].reserved /\ new.active = run[r].active
          /\ new.exec = run[r].exec /\ new.canceled = run[r].canceled
      BY Zenon, <1>1 DEF RunType
    <3> HIDE DEF new
    <3> QED
      BY Zenon, <1>1, <1>4, <3>1 DEF RunOK, Calm, Clear, DeleteAssignment, Begun, Accepted
  <2>3. new.active = run[r].active /\ new.reserved = run[r].reserved
    BY Zenon, <1>1 DEF RunType
  <2> QED
    BY Zenon, <1>4, <2>1, <2>2, <2>3, RunStepOK DEF DeleteAssignment, Handle, workFrame, LInv
<1>5. flushRecord(r) => run[r].core \in {"leased", "expired"}
  BY Zenon DEF flushRecord
<1> QED
  BY Zenon, <1>2, <1>3, <1>4, <1>5

\* Every step of a run keeps the invariant.
LEMMA RunsOK ==
  ASSUME LInv, NEW r \in Runs,
         \/ CoreOffers(r) \/ CoreExpires(r) \/ Claim(r) \/ executeAttempt(r)
         \/ persistRunResult(r) \/ flushRecord(r) \/ DeleteAssignment(r)
  PROVE  LInv'
  BY Zenon, OfferOK, BeginOK, AdmitOK, ReplyOK, StartConfirmedOK, EndOK, ExecuteOK, FlushOK DEF Claim

-----------------------------------------------------------------------------
(* The steps of Drain.                                                     *)

\* A drain begins without proof.
LEMMA NewDrainOK == NewDrain \in DrainType /\ DrainOK(NewDrain)
  BY Zenon DEF NewDrain, DrainType, DrainOK, Counts, Asking, Proving

\* A drain that fails stops the worker and proves nothing.
LEMMA DrainFailsOK ==
  ASSUME LInv, NEW d \in Drainers, NEW err, DrainFailsWith(d, err), err # "proven"
  PROVE  LInv'
<1>1. /\ node' = requestStop(node) /\ drainErr' = err /\ drainDone' = "closed"
      /\ drain' = [drain EXCEPT ![d] = NewDrain]
      /\ UNCHANGED <<start, store, loops, run, session, panicked>>
  BY Zenon DEF DrainFailsWith, drainFrame
<1>2. node' \in NodeType /\ node'.draining /\ (node'.drainOwnsStop => node.drainOwnsStop)
  BY Zenon, <1>1, RequestStopOK DEF LInv, TypesOK
<1>3. FlowOK' /\ (node.drainOwnsStop => node'.drainOwnsStop)
  BY Zenon, <1>1, StopKeepsFlow DEF LInv, TypesOK
<1>4. ProofOK'
  BY Zenon, <1>1, <1>2 DEF LInv, ProofOK, Calm, Clear
<1>5. DrainOK(NewDrain)'
  BY Zenon DEF NewDrain, DrainOK, Asking, Proving
<1>6. session' \in {"none", "attached", "drained", "closed"}
  BY Zenon, <1>1 DEF LInv, TypesOK
<1> QED
  BY Zenon, <1>1, <1>2, <1>3, <1>4, <1>5, <1>6, NewDrainOK, DrainStepOK

\* A drain that only moves on.
LEMMA DrainMovesOK ==
  ASSUME LInv, NEW d \in Drainers, NEW new \in DrainType, drain' = [drain EXCEPT ![d] = new],
         DrainOK(new), UNCHANGED <<node, drainDone, drainErr>>, drainFrame,
         session = "none" => session' = "none", session' \in {"none", "attached", "drained", "closed"}
  PROVE  LInv'
<1>1. UNCHANGED <<start, store, loops, run, panicked>>
  BY Zenon DEF drainFrame
<1>2. FlowOK' /\ node' \in NodeType /\ drainDone' \in {"none", "open", "closed"}
  BY Zenon, <1>1 DEF LInv, TypesOK, FlowOK
<1>3. ProofOK'
  BY Zenon, <1>1 DEF LInv, ProofOK, Calm, Clear
<1>4. DrainOK(new)'
  BY Zenon, <1>1 DEF DrainOK, Calm, Clear
<1> QED
  BY Zenon, <1>1, <1>2, <1>3, <1>4, DrainStepOK

\* The first call raises the fence; the others follow it.
LEMMA DrainBeginsOK == ASSUME LInv, NEW d \in Drainers, Drain(d) \/ DrainFollows(d) PROVE LInv'
<1>1. drain[d] \in DrainType /\ DrainOK(drain[d]) /\ session \in {"none", "attached", "drained", "closed"}
  BY Zenon DEF LInv, TypesOK
<1>2. ASSUME NEW pc \in {"following", "idle"}, drain' = [drain EXCEPT ![d].pc = pc],
             UNCHANGED <<node, drainDone, drainErr, session>>, drainFrame
      PROVE  LInv'
  <2> DEFINE new == [drain[d] EXCEPT !.pc = pc]
  <2>1. new \in DrainType
    BY Zenon, <1>1 DEF DrainType
  <2>2. DrainOK(new)
    BY Zenon, <1>1 DEF DrainOK, DrainType, Asking, Proving
  <2> QED
    BY Zenon, <1>1, <1>2, <2>1, <2>2, DrainMovesOK
<1>3. ASSUME node' = [node EXCEPT !.draining = TRUE], drainDone' = "open", Move(d, "requesting"),
             UNCHANGED <<drainErr, session>>, drainFrame
      PROVE  LInv'
  <2>0. PICK new : new = [drain[d] EXCEPT !.pc = "requesting"]
    BY Zenon
  <2>1. new \in DrainType /\ drain' = [drain EXCEPT ![d] = new] /\ new.pc = "requesting"
    BY Zenon, <1>1, <1>3, <2>0 DEF DrainType, Move
  <2>2. node \in NodeType
    BY Zenon DEF LInv, TypesOK
  <2>3. /\ node' \in NodeType /\ node'.draining
        /\ (node'.started <=> node.started) /\ (node'.completed <=> node.completed)
        /\ (node'.done <=> node.done) /\ (node'.stopRequested <=> node.stopRequested)
        /\ (node'.drainOwnsStop <=> node.drainOwnsStop) /\ (node'.stopping <=> node.stopping)
    BY Zenon, <1>3, <2>2 DEF NodeType
  <2>4. FlowOK' /\ ProofOK'
    BY Zenon, <1>3, <2>3 DEF LInv, FlowOK, ProofOK, drainFrame, Calm, Clear
  <2>5. DrainOK(new)'
    BY Zenon, <2>1, <2>3 DEF DrainOK, Asking, Proving
  <2> QED
    BY Zenon, <1>1, <1>3, <2>1, <2>3, <2>4, <2>5, DrainStepOK DEF drainFrame
<1> QED
  BY Zenon, <1>2, <1>3 DEF Drain, DrainFollows, Move

\* requestRuntimeDrain: the attachment exists; what was proved before stays proved.
LEMMA RequestOK == ASSUME LInv, NEW d \in Drainers, requestRuntimeDrain(d) PROVE LInv'
<1> DEFINE pc == IF drain[d].pc = "requesting" THEN "status"
                 ELSE IF CoreInflight > 0 THEN "waiting" ELSE "stopping"
           new == [drain[d] EXCEPT !.inflight = CoreInflight, !.pc = pc]
<1>1. drain[d] \in DrainType /\ DrainOK(drain[d]) /\ drain[d].pc \in {"requesting", "confirming"}
  BY Zenon DEF LInv, TypesOK, requestRuntimeDrain
<1>2. CoreInflight \in Counts
  BY Zenon DEF CoreInflight, Counts
<1>3. pc \in {"status", "waiting", "stopping"} /\ (pc = "stopping" => drain[d].pc = "confirming")
  BY Zenon, <1>1
<1>4. drain' = [drain EXCEPT ![d] = new]
  BY Zenon DEF requestRuntimeDrain, LInv, TypesOK
<1> HIDE DEF pc
<1>5. new \in DrainType
  BY Zenon, <1>1, <1>2, <1>3 DEF DrainType, Asking
<1>6. new.pc = pc /\ new.store = drain[d].store /\ new.quiet = drain[d].quiet
  BY Zenon, <1>1 DEF DrainType
<1> HIDE DEF new
<1>7. store = "open"
  BY Zenon DEF requestRuntimeDrain, runtimeDrainAttachment
<1>8. DrainOK(new)
  BY Zenon, <1>1, <1>3, <1>6, <1>7 DEF DrainOK, Asking, Proving
<1>9. session = "none" => session' = "none"
  BY Zenon DEF requestRuntimeDrain
<1>10. session' \in {"none", "attached", "drained", "closed"}
  BY Zenon DEF requestRuntimeDrain, LInv, TypesOK
<1> QED
  BY Zenon, <1>4, <1>5, <1>8, <1>9, <1>10, DrainMovesOK DEF requestRuntimeDrain

\* runtimeDrainStatus: what it reads under the lock stays true behind the fence.
LEMMA StatusOK == ASSUME LInv, NEW d \in Drainers, runtimeDrainStatus(d) PROVE LInv'
<1> DEFINE quiet == \A r \in Runs : ~run[r].active /\ ~run[r].reserved /\ ~run[r].op
           new == [drain[d] EXCEPT !.pc = "spool", !.store = store, !.quiet = quiet]
<1>1. drain[d] \in DrainType /\ DrainOK(drain[d]) /\ drain[d].pc = "status"
  BY Zenon DEF LInv, TypesOK, runtimeDrainStatus
<1>2. ASSUME quiet, NEW r \in Runs PROVE Calm(run[r])
  <2>1. RunOK(run[r]) /\ ~run[r].active /\ ~run[r].reserved /\ ~run[r].op
    BY Zenon, <1>2 DEF LInv
  <2> QED
    BY Zenon, <2>1 DEF RunOK, Calm, Begun, Accepted
<1>3. quiet \in BOOLEAN /\ store \in {"none", "open", "nil"}
  BY Zenon DEF LInv, TypesOK
<1>4. drain' = [drain EXCEPT ![d] = new]
  BY Zenon DEF runtimeDrainStatus, LInv, TypesOK
<1> HIDE DEF quiet
<1>5. new \in DrainType
  BY Zenon, <1>1, <1>3 DEF DrainType, Asking
<1>6. new.pc = "spool" /\ new.store = store /\ new.quiet = quiet
  BY Zenon, <1>1 DEF DrainType
<1> HIDE DEF new
<1>7. DrainOK(new)
  BY Zenon, <1>1, <1>2, <1>6 DEF DrainOK, Asking, Proving
<1>8. UNCHANGED session /\ session \in {"none", "attached", "drained", "closed"}
  BY Zenon DEF runtimeDrainStatus, LInv, TypesOK
<1> QED
  BY Zenon, <1>4, <1>5, <1>7, <1>8, DrainMovesOK DEF runtimeDrainStatus

\* performRuntimeDrain: with memory quiet and the journal empty nothing is left, or
\* the store is gone and the stop that follows fails.
LEMMA PerformOK == ASSUME LInv, NEW d \in Drainers, performRuntimeDrain(d) \/ waitRuntimeDrain(d) PROVE LInv'
<1>1. drain[d] \in DrainType /\ DrainOK(drain[d]) /\ session \in {"none", "attached", "drained", "closed"}
  BY Zenon DEF LInv, TypesOK
<1>2. ASSUME NEW pc \in {"waiting", "confirming", "stopping", "status"}, Move(d, pc),
             drain[d].pc \in {"spool", "waiting"},
             pc \in Proving => store = "nil" \/ \A r \in Runs : Clear(run[r]),
             UNCHANGED <<node, session, drainDone, drainErr>>, drainFrame
      PROVE  LInv'
  <2> DEFINE new == [drain[d] EXCEPT !.pc = pc]
  <2>1. new \in DrainType
    BY Zenon, <1>1 DEF DrainType, Asking
  <2>2. new.pc = pc
    BY Zenon, <1>1 DEF DrainType
  <2>3. drain' = [drain EXCEPT ![d] = new]
    BY Zenon, <1>2 DEF Move
  <2> HIDE DEF new
  <2>4. DrainOK(new)
    BY Zenon, <1>1, <1>2, <2>2 DEF DrainOK, Asking, Proving
  <2> QED
    BY Zenon, <1>1, <1>2, <2>1, <2>3, <2>4, DrainMovesOK
<1>3. ASSUME performRuntimeDrain(d), ~(drain[d].store = "open" /\ store # "open") PROVE LInv'
  <2> DEFINE pc == IF ~(runtimeStoreSpoolStatus(d) /\ drain[d].quiet) THEN "waiting"
                   ELSE IF drain[d].inflight > 0 THEN "confirming" ELSE "stopping"
  <2>1. pc \in {"waiting", "confirming", "stopping"}
    BY Zenon
  <2>2. pc # "waiting" => runtimeStoreSpoolStatus(d) /\ drain[d].quiet
    BY Zenon
  <2>3. Move(d, pc) /\ drain[d].pc = "spool" /\ UNCHANGED <<node, session, drainDone, drainErr>> /\ drainFrame
    BY Zenon, <1>3 DEF performRuntimeDrain
  <2> HIDE DEF pc
  <2>4. ASSUME pc # "waiting", store # "nil", NEW r \in Runs PROVE Clear(run[r])
    BY Zenon, <1>1, <2>2, <2>3, <2>4 DEF DrainOK, DrainType, Clear, runtimeStoreSpoolStatus
  <2> QED
    BY Zenon, <1>2, <2>1, <2>3, <2>4 DEF Proving
<1>4. ASSUME waitRuntimeDrain(d), ~node.stopRequested PROVE LInv'
  BY Zenon, <1>2, <1>4 DEF waitRuntimeDrain, Proving
<1> QED
  BY Zenon, <1>3, <1>4, DrainFailsOK DEF performRuntimeDrain, waitRuntimeDrain

\* A drain stops the worker only while the store is there, so its proof is about the store.
LEMMA DrainStopsOK == ASSUME LInv, NEW d \in Drainers, drainStops(d) \/ drainSucceeds(d) PROVE LInv'
<1>1. /\ drain[d] \in DrainType /\ DrainOK(drain[d]) /\ node \in NodeType
      /\ session \in {"none", "attached", "drained", "closed"}
  BY Zenon DEF LInv, TypesOK
<1>2. ASSUME drainStops(d), CanDrainStop(node) PROVE LInv'
  <2>0. PICK new : new = [drain[d] EXCEPT !.pc = "stopped"]
    BY Zenon
  <2>1. /\ node' = requestDrainStop(node) /\ drain' = [drain EXCEPT ![d] = new] /\ drain[d].pc = "stopping"
        /\ UNCHANGED <<session, drainDone, drainErr, start, store, loops, run, panicked>>
    BY Zenon, <1>2, <2>0 DEF drainStops, Move, drainFrame
  <2>2. new \in DrainType /\ new.pc = "stopped"
    BY Zenon, <1>1, <2>0 DEF DrainType, Asking
  <2>3. /\ node' \in NodeType /\ node'.stopRequested /\ node'.drainOwnsStop /\ node'.draining
        /\ node'.stopping /\ (node'.started <=> node.started) /\ (node'.completed <=> node.completed)
        /\ (node'.done <=> node.done)
    BY Zenon, <1>1, <2>1 DEF NodeType, requestDrainStop, setStopping
  <2>4. store # "nil" /\ \A r \in Runs : Clear(run[r])
    BY Zenon, <1>1, <1>2, <2>1 DEF CanDrainStop, LInv, FlowOK, DrainOK, Proving, Waited
  <2>5. FlowOK'
    BY Zenon, <2>1, <2>3 DEF LInv, FlowOK
  <2>6. ProofOK'
    BY Zenon, <2>1, <2>3, <2>4 DEF LInv, ProofOK, Calm, Clear
  <2>7. DrainOK(new)'
    <3>1. store' # "none"
      BY Zenon, <1>1, <2>1 DEF DrainOK, Asking
    <3>2. \A r \in Runs : Clear(run'[r])
      BY Zenon, <2>1, <2>4
    <3> QED
      BY Zenon, <2>2, <2>3, <3>1, <3>2 DEF DrainOK, Asking, Proving
  <2>8. drainDone' \in {"none", "open", "closed"} /\ session' \in {"none", "attached", "drained", "closed"}
    BY Zenon, <1>1, <2>1 DEF LInv, TypesOK
  <2> QED
    BY Zenon, <2>1, <2>2, <2>3, <2>5, <2>6, <2>7, <2>8, DrainStepOK
<1>3. ASSUME drainSucceeds(d) PROVE LInv'
  <2>1. /\ drain[d].pc = "stopped" /\ node.done /\ drainErr' = "proven" /\ drainDone' = "closed"
        /\ drain' = [drain EXCEPT ![d] = NewDrain]
        /\ UNCHANGED <<node, session, start, store, loops, run, panicked>>
    BY Zenon, <1>3 DEF drainSucceeds, drainFrame
  <2>2. FlowOK'
    BY Zenon, <2>1 DEF LInv, FlowOK
  <2>3. ProofOK'
    BY Zenon, <1>1, <2>1 DEF LInv, ProofOK, DrainOK, Calm, Clear
  <2>4. DrainOK(NewDrain)'
    BY Zenon DEF NewDrain, DrainOK, Asking, Proving
  <2> QED
    BY Zenon, <1>1, <2>1, <2>2, <2>3, <2>4, NewDrainOK, DrainStepOK
<1> QED
  BY Zenon, <1>2, <1>3, DrainFailsOK DEF drainStops

\* Every step of a drain keeps the invariant.
LEMMA DrainsOK ==
  ASSUME LInv, NEW d \in Drainers, Drain(d) \/ DrainStep(d) \/ requestRefused(d) \/ drainExpires(d)
  PROVE  LInv'
  BY Zenon, DrainBeginsOK, RequestOK, StatusOK, PerformOK, DrainStopsOK, DrainFailsOK
  DEF DrainStep, requestStopped, requestRefused, drainExpires

-----------------------------------------------------------------------------
(* The theorems.                                                           *)

\* Every step keeps the invariant.
LEMMA LStep == LInv /\ [Next]_vars => LInv'
<1> SUFFICES ASSUME LInv, [Next]_vars PROVE LInv'
  BY Zenon
<1> QED
  BY Zenon, StartOK, ShutdownOK, OtherStepsOK, RunsOK, DrainsOK DEF Next

\* The inductive invariant of the worker's lifecycle.
THEOREM LifecycleInvariant == Spec => []LInv
  BY LInit, LStep, PTL DEF Spec

\* The flags of the worker agree with each other, and the runs it has accepted or
\* is executing never exceed its capacity.
THEOREM FlagsAndCapacity == Spec => []TypeOK
<1>1. LInv => TypeOK
  BY Zenon DEF LInv, TypesOK, NodeType, FlowOK, CapacityOK, TypeOK, Starts
<1> QED
  BY <1>1, LifecycleInvariant, PTL

\* A drain that reports success left nothing behind (performRuntimeDrain), whatever
\* Stop, claims, handlers and timeouts did meanwhile.
THEOREM DrainIsProof == Spec => []ProvenDrainIsComplete
<1>1. LInv => ProvenDrainIsComplete
  BY Zenon DEF LInv, ProofOK, ProvenDrainIsComplete, Calm, Clear
<1> QED
  BY <1>1, LifecycleInvariant, PTL

\* No result is written to a store that the shutdown has closed.
THEOREM StoreOutlivesResults == Spec => []NoUseAfterClose
<1>1. LInv => NoUseAfterClose
  BY Zenon DEF LInv, NoUseAfterClose
<1> QED
  BY <1>1, LifecycleInvariant, PTL

\* The drain never loses the stop it owns.
LEMMA OwnsStays == LInv /\ [Next]_vars /\ node.drainOwnsStop => node'.drainOwnsStop
<1> SUFFICES ASSUME LInv, [Next]_vars, node.drainOwnsStop PROVE node'.drainOwnsStop
  BY Zenon
<1>1. node \in NodeType /\ node.stopRequested
  BY Zenon DEF LInv, TypesOK, FlowOK
<1>2. node' = requestStop(node) => node'.drainOwnsStop
  BY Zenon, <1>1, RequestStopOK
<1>3. node' = node => node'.drainOwnsStop
  BY Zenon
<1>4. ASSUME NEW d \in Drainers, Drain(d) \/ DrainStep(d) \/ requestRefused(d) \/ drainExpires(d)
      PROVE  node'.drainOwnsStop
  BY Zenon, <1>1, <1>2, <1>3, <1>4
  DEF NodeType, Drain, DrainStep, DrainFollows, requestRuntimeDrain, requestStopped, runtimeDrainStatus,
      performRuntimeDrain, drainStops, drainSucceeds, waitRuntimeDrain, requestRefused, drainExpires,
      DrainFailsWith, CanDrainStop
<1>5. ASSUME Shutdown PROVE node'.drainOwnsStop
  BY Zenon, <1>1, <1>2, <1>3, <1>5
  DEF NodeType, Shutdown, shutdownRequestsStop, shutdownQuiet, shutdownForces, shutdownGivesUp,
      shutdownCloses, shutdownClosesStore, shutdownDone
<1>6. ASSUME NEW r \in Runs,
             \/ CoreOffers(r) \/ CoreExpires(r) \/ Claim(r) \/ executeAttempt(r)
             \/ persistRunResult(r) \/ flushRecord(r) \/ DeleteAssignment(r)
      PROVE  node' = node
  BY Zenon, <1>6 DEF CoreOffers, CoreExpires, Claim, executeAttempt, persistRunResult, flushRecord,
              DeleteAssignment, beginAssignment, CreateAssignment, assignmentAdmitted, rejectAssignment,
              ackAssignmentWithRetry, startConfirmedAttempt, endAssignment, workFrame
<1>7. ASSUME \/ beginLifecycle \/ startOpensStore \/ startRuntimeLoops \/ StartFails \/ StartEnds
             \/ \E l \in loops : LoopExits(l)
             \/ markDraining \/ claimLoopCalls \/ ClaimReturnsNothing
             \/ \E x \in Stoppers : Stop(x) \/ StopReturns(x)
      PROVE  node'.drainOwnsStop
  BY Zenon, <1>1, <1>2, <1>3, <1>7
  DEF NodeType, beginLifecycle, startOpensStore, startRuntimeLoops, StartFails, StartEnds, LoopExits,
      markDraining, claimLoopCalls, ClaimReturnsNothing, Stop, StopReturns, workFrame
<1> QED
  BY Zenon, <1>3, <1>4, <1>5, <1>6, <1>7 DEF Next, vars

\* Once the drain owns the stop, no handler starts and no run is accepted.
THEOREM FenceHolds == Spec => NothingStartsAfterDrain
<1>1. ASSUME LInv, LInv', [Next]_vars, node.drainOwnsStop
      PROVE  Executing' \subseteq Executing /\ Reserved' \subseteq Reserved
  <2>1. node'.drainOwnsStop
    BY Zenon, <1>1, OwnsStays
  <2>2. \A r \in Runs : Clear(run'[r])
    BY Zenon, <1>1, <2>1 DEF LInv, ProofOK, Clear, Calm
  <2> QED
    BY Zenon, <2>2 DEF Executing, Reserved, Clear, Calm
<1>2. LInv /\ LInv' /\ [Next]_vars =>
        [node.drainOwnsStop => Executing' \subseteq Executing /\ Reserved' \subseteq Reserved]_vars
  BY Zenon, <1>1
<1> QED
  BY <1>2, LifecycleInvariant, PTL DEF Spec, NothingStartsAfterDrain

\* Replacing one run leaves the others.
LEMMA OneHandled ==
  ASSUME run \in [Runs -> RunType], NEW r \in Runs, NEW new, Handle(r, new)
  PROVE  run'[r] = new /\ \A q \in Runs \ {r} : run'[q] = run[q]
  BY Zenon DEF Handle

\* A step of the claim loop, the handler or the spool loop starts an execution
\* only in startConfirmedAttempt, which refuses once the worker stops.
LEMMA NoneStarted ==
  ASSUME LInv, node.stopping, NEW r \in Runs,
         \/ CoreOffers(r) \/ CoreExpires(r) \/ Claim(r) \/ executeAttempt(r)
         \/ persistRunResult(r) \/ flushRecord(r) \/ DeleteAssignment(r)
  PROVE  \A q \in Runs : run'[q].exec \in {"running", "persisting"} =>
                            run[q].exec \in {"running", "persisting"}
<1>1. run \in [Runs -> RunType] /\ run[r] \in RunType
  BY Zenon DEF LInv, TypesOK
<1>2. ASSUME NEW new, Handle(r, new), new.exec \in {run[r].exec, "done"} \/ run[r].exec = "running"
      PROVE  \A q \in Runs : run'[q].exec \in {"running", "persisting"} =>
                                run[q].exec \in {"running", "persisting"}
  <2>1. run'[r] = new /\ \A q \in Runs \ {r} : run'[q] = run[q]
    BY Zenon, <1>1, <1>2, OneHandled
  <2> QED
    BY Zenon, <1>2, <2>1
<1>3. ASSUME CoreOffers(r) \/ CoreExpires(r) \/ flushRecord(r) \/ DeleteAssignment(r)
      PROVE  \E new : Handle(r, new) /\ new.exec = run[r].exec
  <2>1. CASE CoreOffers(r)
    <3>1. [run[r] EXCEPT !.core = "offered", !.pc = "claimed"].exec = run[r].exec
      BY <1>1 DEF RunType
    <3> QED
      BY Zenon, <2>1, <3>1 DEF CoreOffers
  <2>2. CASE CoreExpires(r)
    <3>1. [run[r] EXCEPT !.core = "expired"].exec = run[r].exec
      BY <1>1 DEF RunType
    <3> QED
      BY Zenon, <2>2, <3>1 DEF CoreExpires
  <2>3. CASE flushRecord(r)
    <3>1. /\ [run[r] EXCEPT !.core = "done", !.active = FALSE, !.spool = "acknowledged"].exec = run[r].exec
          /\ [run[r] EXCEPT !.active = FALSE, !.canceled = TRUE, !.spool = "revoked"].exec = run[r].exec
      BY <1>1 DEF RunType
    <3> QED
      BY Zenon, <2>3, <3>1 DEF flushRecord
  <2>4. CASE DeleteAssignment(r)
    <3>1. [run[r] EXCEPT !.spool = "none"].exec = run[r].exec
      BY <1>1 DEF RunType
    <3> QED
      BY Zenon, <2>4, <3>1 DEF DeleteAssignment
  <2> QED
    BY Zenon, <1>3, <2>1, <2>2, <2>3, <2>4
<1>4. ASSUME Claim(r)
      PROVE  \E new : Handle(r, new) /\ new.exec = run[r].exec
  <2>1. CASE beginAssignment(r)
    <3>1. [run[r] EXCEPT !.pc = "begun", !.op = TRUE,
               !.reserved = ~node.draining /\ Cardinality(Active \cup Reserved) < Capacity].exec = run[r].exec
      BY <1>1 DEF RunType
    <3> QED
      BY Zenon, <2>1, <3>1 DEF beginAssignment
  <2>2. CASE CreateAssignment(r)
    <3>1. [run[r] EXCEPT !.pc = "created", !.spool = "received"].exec = run[r].exec
      BY <1>1 DEF RunType
    <3> QED
      BY Zenon, <2>2, <3>1 DEF CreateAssignment
  <2>3. CASE assignmentAdmitted(r)
    <3>1. /\ [run[r] EXCEPT !.pc = "rejecting", !.spool = "reject_sent"].exec = run[r].exec
          /\ [run[r] EXCEPT !.pc = "acking", !.spool = "ack_sent"].exec = run[r].exec
      BY <1>1 DEF RunType
    <3> QED
      BY Zenon, <2>3, <3>1 DEF assignmentAdmitted
  <2>4. CASE rejectAssignment(r)
    <3>1. /\ [run[r] EXCEPT !.pc = "ending", !.spool = "none", !.core = "done"].exec = run[r].exec
          /\ [run[r] EXCEPT !.pc = "ending", !.spool = "revoked"].exec = run[r].exec
          /\ [run[r] EXCEPT !.pc = "ending"].exec = run[r].exec
      BY <1>1 DEF RunType
    <3> QED
      BY Zenon, <2>4, <3>1 DEF rejectAssignment
  <2>5. CASE ackAssignmentWithRetry(r)
    <3>1. /\ [run[r] EXCEPT !.pc = "confirmed", !.spool = "confirmed", !.core = "leased"].exec = run[r].exec
          /\ [run[r] EXCEPT !.pc = "ending", !.spool = "revoked"].exec = run[r].exec
          /\ [run[r] EXCEPT !.pc = "ending"].exec = run[r].exec
      BY <1>1 DEF RunType
    <3> QED
      BY Zenon, <2>5, <3>1 DEF ackAssignmentWithRetry
  <2>6. CASE startConfirmedAttempt(r)
    <3>1. [run[r] EXCEPT !.pc = "ending"].exec = run[r].exec
      BY <1>1 DEF RunType
    <3> QED
      BY Zenon, <2>6, <3>1 DEF startConfirmedAttempt
  <2>7. CASE endAssignment(r)
    <3>1. [run[r] EXCEPT !.pc = "ended", !.op = FALSE, !.reserved = FALSE].exec = run[r].exec
      BY <1>1 DEF RunType
    <3> QED
      BY Zenon, <2>7, <3>1 DEF endAssignment
  <2> QED
    BY Zenon, <1>4, <2>1, <2>2, <2>3, <2>4, <2>5, <2>6, <2>7 DEF Claim
<1>5. ASSUME executeAttempt(r)
      PROVE  run[r].exec = "running" /\ \E new : Handle(r, new)
  BY Zenon, <1>5 DEF executeAttempt
<1>6. ASSUME persistRunResult(r)
      PROVE  \E new : Handle(r, new) /\ new.exec = "done"
  <2>1. [run[r] EXCEPT !.exec = "done", !.spool = "finished"].exec = "done"
    BY <1>1 DEF RunType
  <2> QED
    BY Zenon, <1>6, <2>1 DEF persistRunResult
<1> QED
  BY Zenon, <1>2, <1>3, <1>4, <1>5, <1>6

\* Once the shutdown waits for the executions, none is added to them.
THEOREM WaitIsComplete == Spec => NoExecutionAfterWait
<1> DEFINE A == start \in Waited => Executing' \subseteq Executing
<1>1. ASSUME LInv, [Next]_vars, start \in Waited
      PROVE  Executing' \subseteq Executing
  <2>1. node.stopping /\ run \in [Runs -> RunType]
    BY Zenon, <1>1 DEF LInv, TypesOK, FlowOK
  <2>2. ASSUME run' = run PROVE Executing' \subseteq Executing
    BY Zenon, <2>2 DEF Executing
  <2>3. ASSUME run' = cancelAllActive PROVE Executing' \subseteq Executing
    <3>1. \A r \in Runs : run'[r].exec = run[r].exec
      BY <2>1, <2>3 DEF cancelAllActive, RunType
    <3> QED
      BY Zenon, <3>1 DEF Executing
  <2>4. ASSUME NEW r \in Runs,
               \/ CoreOffers(r) \/ CoreExpires(r) \/ Claim(r) \/ executeAttempt(r)
               \/ persistRunResult(r) \/ flushRecord(r) \/ DeleteAssignment(r)
        PROVE  Executing' \subseteq Executing
    BY Zenon, <1>1, <2>1, <2>4, NoneStarted DEF Executing
  <2>5. ASSUME NEW d \in Drainers, Drain(d) \/ DrainStep(d) \/ requestRefused(d) \/ drainExpires(d)
        PROVE  run' = run
    BY Zenon, <2>5
    DEF Drain, DrainStep, DrainFollows, requestRuntimeDrain, requestStopped, runtimeDrainStatus,
        performRuntimeDrain, drainStops, drainSucceeds, waitRuntimeDrain, requestRefused, drainExpires,
        DrainFailsWith, drainFrame
  <2>6. ASSUME Shutdown PROVE run' = run \/ run' = cancelAllActive
    BY Zenon, <2>6
    DEF Shutdown, shutdownRequestsStop, shutdownQuiet, shutdownForces, shutdownGivesUp,
        shutdownCloses, shutdownClosesStore, shutdownDone, workVars
  <2>7. ASSUME \/ beginLifecycle \/ startOpensStore \/ startRuntimeLoops \/ StartFails \/ StartEnds
               \/ \E l \in loops : LoopExits(l)
               \/ markDraining \/ claimLoopCalls \/ ClaimReturnsNothing
               \/ \E x \in Stoppers : Stop(x) \/ StopReturns(x)
        PROVE  run' = run
    BY Zenon, <2>7
    DEF beginLifecycle, startOpensStore, startRuntimeLoops, StartFails, StartEnds, LoopExits,
        markDraining, claimLoopCalls, ClaimReturnsNothing, Stop, StopReturns, workVars
  <2>8. ASSUME UNCHANGED vars PROVE run' = run
    BY Zenon, <2>8 DEF vars
  <2> QED
    BY Zenon, <1>1, <2>2, <2>3, <2>4, <2>5, <2>6, <2>7, <2>8 DEF Next
<1>2. LInv /\ [Next]_vars => [A]_vars
  BY Zenon, <1>1
<1> QED
  BY <1>2, LifecycleInvariant, PTL DEF Spec, NoExecutionAfterWait, Waited

=============================================================================
