-------------------------- MODULE RuntimeTransport --------------------------
(***************************************************************************)
(* The worker's transport: Start, the supervisor, policy recovery, the     *)
(* callers behind policyRecoveringRuntimeClient, capacity reattach and     *)
(* shutdown, around the gate of TransportGate.                             *)
(*                                                                         *)
(* A process holds at most one transition; policyRecoveryMu and            *)
(* transportTransitionMu are variables.  OpenLinker is the environment: it *)
(* loses connections, changes its transport policy and answers a stale     *)
(* policy with the recovery signal.                                        *)
(***************************************************************************)
EXTENDS TransportGate, Sequences, FiniteSets

CONSTANTS
  Loops,        \* the runtime loops, called with runtimeCtx
  Timed,        \* the loops whose calls have a timeout (heartbeatLoop)
  Handlers,     \* the handlers of attempts, which call through the gate
  Main, Sup,    \* the goroutine of Start, and the transport supervisor
  NoProc,
  Pull,         \* the HTTP client
  Conns,        \* the WebSocket connections
  Mode,         \* RuntimeWorkerConfig.Transport
  Policies,     \* the transport orders that OpenLinker publishes, one after another
  HasRecords,   \* the journal holds assignments, so that resume calls OpenLinker
  MaxFaults     \* lost connections, failed calls and probes

Procs == Callers \cup {Sup}

\* The goroutines are distinct; a manifest lists each policy's transports, and the
\* first one allows the configured mode (Start refuses it otherwise).
ASSUME TransportAssumption ==
  /\ Callers = Loops \cup Handlers \cup {Main} /\ Movers = Procs
  /\ Sup \notin Callers /\ Main \notin Loops \cup Handlers /\ NoProc \notin Procs
  /\ Clients = Conns \cup {Pull} /\ Pull \notin Conns /\ Timed \subseteq Loops
  /\ Mode \in {"auto", "ws", "pull"}
  /\ Policies \in Seq(Seq({"ws", "pull"})) /\ Policies # << >>
  /\ IF Mode = "auto" THEN Policies[1] # << >>
                      ELSE \E k \in DOMAIN Policies[1] : Policies[1][k] = Mode

VARIABLES
  conn,         \* of every WebSocket: open, lost, policy (closed with the signal) or closed
  core,         \* the policy that OpenLinker enforces: an index into Policies
  order,        \* transportOrder: the policy that the worker has applied
  read,         \* the policy a rediscovery has read, to be applied
  rediscovered, \* how often policy has been rediscovered
  policyRevision, policyTerminal,
  policyMu, transMu,
  pc,           \* where each process is
  seen,         \* the policy revision each process has observed
  job,          \* the transition each process runs
  watched,      \* the client the supervisor found active
  phase,        \* how far Start and shutdown have come
  resumed,      \* initialResumeComplete
  stopRequested, supStop, runStop, fatal,
  canceled,     \* the handlers whose attempt has been canceled
  accepting,    \* AcceptsNewRuns: admission is open
  attached,     \* webSocketCapacity: the hello of the last WebSocket attach
  faults

vars == <<gateVars, conn, core, order, read, rediscovered, policyRevision, policyTerminal,
          policyMu, transMu, pc, seen, job, watched, phase, resumed, stopRequested, supStop, runStop,
          fatal, canceled, accepting, attached, faults>>

policyVars == <<order, read, rediscovered, policyRevision, policyTerminal>>
capacityVars == <<accepting, attached>>
lifeVars == <<phase, resumed, stopRequested, supStop, runStop, fatal, canceled>>
envVars == <<conn, core, faults>>

NoJob == [goal |-> "none", reconnect |-> FALSE, target |-> "pull", stage |-> "begin",
          client |-> NoClient, waits |-> NoProc, deferred |-> FALSE]

-----------------------------------------------------------------------------
(* The policy.                                                             *)

\* The transports of a policy in the order of preference; an empty one refuses
\* the configured mode (runtimeTransportOrder).
runtimeTransportOrder(i) ==
  CASE Mode = "auto" -> Policies[i]
    [] \E k \in DOMAIN Policies[i] : Policies[i][k] = Mode -> <<Mode>>
    [] OTHER -> << >>

orderedRuntimeTransports == runtimeTransportOrder(order)
autoPrefersWebSocket == Mode = "auto" /\ orderedRuntimeTransports[1] = "ws"
autoAllowsPullFallback == autoPrefersWebSocket /\ Len(orderedRuntimeTransports) > 1

\* OpenLinker may answer a worker that follows another policy with the signal.
Stale == order # core

-----------------------------------------------------------------------------
(* Connections and contexts.                                               *)

Kind(c) == IF c = Pull THEN "pull" ELSE "ws"
Alive(c) == c \in {Pull} \cup {d \in Conns : conn[d] = "open"}
Dead(c) == c \in {d \in Conns : conn[d] # "open"}

\* A connection is recycled when nobody refers to it, left open or not: the
\* transitions before the first resume close none.
Unreferenced(c) ==
  /\ active # c /\ (pc[Sup] = "snapshot" \/ watched # c)
  /\ \A p \in Callers : ops[p].client # c
  /\ \A m \in Procs : moves[m].previous # c /\ job[m].client # c

Fresh == {c \in Conns : Unreferenced(c)}

\* The context of the calls that p makes is done: runtimeCtx, the attempt's, the
\* supervisor's, or that of Start.
Canceled(p) ==
  \/ p \in Loops /\ runStop
  \/ p \in Handlers /\ p \in canceled
  \/ p = Sup /\ supStop
  \/ p = Main /\ phase \in {"attach", "resume"} /\ stopRequested

\* ... or may be done at any time, by a timeout.
MayExpire(p) == Canceled(p) \/ p \in Timed \/ (p = Main /\ phase \notin {"attach", "resume"})

Spend == faults < MaxFaults /\ faults' = faults + 1

-----------------------------------------------------------------------------
(* Where control goes when a call, a recovery or a transition is over.     *)

Goto(p, l) == pc' = [pc EXCEPT ![p] = l]

\* Start is over: requestStop, transportStop, and the farewell heartbeat.
EnterShutdown ==
  /\ phase' = "stopping" /\ stopRequested' = TRUE /\ supStop' = TRUE
  /\ Goto(Main, "call")
  /\ UNCHANGED <<resumed, runStop, fatal, canceled>>

\* Start begins to wait; the supervisor (unless the mode is pull), the loops and
\* the handlers run from here.
EnterRunning ==
  /\ phase' = "running" /\ resumed' = TRUE
  /\ pc' = [p \in Procs |-> CASE p = Main -> "running"
                              [] p = Sup -> IF Mode = "pull" THEN "exited" ELSE "snapshot"
                              [] OTHER -> "idle"]
  /\ UNCHANGED <<stopRequested, supStop, runStop, fatal, canceled>>

\* A process ends after reportFatal, which wakes Start.
reportFatal(p) ==
  /\ Goto(p, "exited") /\ fatal' = TRUE
  /\ UNCHANGED <<phase, resumed, stopRequested, supStop, runStop, canceled>>

\* policyRecoveringRuntimeClient.call returns r to its caller.
Returned(p, r) ==
  CASE p \in Loops /\ r = "fatal" -> reportFatal(p)
    [] p \in Loops /\ r # "fatal" ->
         Goto(p, IF p \in Timed THEN "retire" ELSE "idle") /\ UNCHANGED lifeVars
    [] p \in Handlers -> Goto(p, "idle") /\ UNCHANGED lifeVars
    [] p = Main /\ phase = "resume" ->
         CASE r = "ok" -> EnterRunning
           [] r = "retry" /\ ~Canceled(Main) -> Goto(Main, "call") /\ UNCHANGED lifeVars
           [] OTHER -> EnterShutdown
    [] OTHER -> /\ phase' = "waitExec" /\ Goto(Main, "waitExec")
                /\ UNCHANGED <<resumed, stopRequested, supStop, runStop, fatal, canceled>>

\* The supervisor's loop ends, with an error unless it has been stopped.
SupEnds ==
  IF supStop THEN Goto(Sup, "exited") /\ UNCHANGED lifeVars ELSE reportFatal(Sup)

\* recoverRuntimePolicy returns.
Recovered(p, ok) ==
  CASE p = Sup -> IF ok THEN Goto(Sup, "snapshot") /\ UNCHANGED lifeVars ELSE SupEnds
    [] p = Main /\ phase = "attach" ->
         IF ok THEN /\ Goto(Main, "call") /\ phase' = "resume"
                    /\ UNCHANGED <<resumed, stopRequested, supStop, runStop, fatal, canceled>>
               ELSE EnterShutdown
    [] OTHER -> IF ok THEN Goto(p, "begin2") /\ UNCHANGED lifeVars ELSE Returned(p, "fatal")

\* A transition ends with r: ok, signal, fatal, deferred, or another error.
MoveEnded(p, r) ==
  LET goal == job[p].goal
  IN  /\ transMu' = NoProc
      /\ job' = [job EXCEPT ![p] = NoJob]
      /\ policyMu' = IF goal = "recover" THEN NoProc ELSE policyMu
      /\ policyTerminal' = (policyTerminal \/ (goal = "recover" /\ r # "ok"))
      /\ CASE goal = "recover" -> Recovered(p, r = "ok")
           [] goal = "start" /\ r = "ok" ->
                /\ Goto(Main, "call") /\ phase' = "resume"
                /\ UNCHANGED <<resumed, stopRequested, supStop, runStop, fatal, canceled>>
           [] goal = "start" /\ r \notin {"ok", "signal"} -> EnterShutdown
           [] goal # "recover" /\ r = "signal" -> Goto(p, "recover") /\ UNCHANGED lifeVars
           [] goal \notin {"start", "recover"} /\ r = "ok" -> Goto(Sup, "snapshot") /\ UNCHANGED lifeVars
           [] OTHER -> IF goal = "toWS" /\ r # "fatal" /\ ~supStop
                       THEN Goto(Sup, "snapshot") /\ UNCHANGED lifeVars
                       ELSE SupEnds

-----------------------------------------------------------------------------
(* Calls: policyRecoveringRuntimeClient.call and the operation under it.   *)

NotCalling == <<envVars, policyVars, policyMu, transMu, job, watched, capacityVars>>

\* A loop, or a handler whose attempt runs, makes its next call.
StartCall(p) ==
  /\ pc[p] = "idle" /\ ~Canceled(p)
  /\ Goto(p, "call")
  /\ UNCHANGED <<gateVars, NotCalling, seen, lifeVars>>

policyRecoverySnapshot(p) ==
  /\ pc[p] = "call" /\ policyMu = NoProc
  /\ IF policyTerminal
     THEN Returned(p, "fatal") /\ UNCHANGED seen
     ELSE /\ Goto(p, "begin1") /\ seen' = [seen EXCEPT ![p] = policyRevision]
          /\ UNCHANGED lifeVars
  /\ UNCHANGED <<gateVars, NotCalling>>

beginOperation(p) ==
  /\ pc[p] \in {"begin1", "begin2"}
  /\ \/ begin(p) /\ Goto(p, IF pc[p] = "begin1" THEN "in1" ELSE "in2") /\ UNCHANGED lifeVars
     \/ ~CanBegin /\ Returned(p, "retry") /\ UNCHANGED gateVars
  /\ UNCHANGED <<NotCalling, seen>>

\* The operation ends in one of the ways its client and its context allow.
OpOutcome(p, r) ==
  LET c == ops[p].client
  IN  \/ r = "ok" /\ Alive(c) /\ ~ops[p].canceled /\ UNCHANGED faults
      \/ r = "retry" /\ (Dead(c) \/ ops[p].canceled \/ MayExpire(p)) /\ UNCHANGED faults
      \/ r \in {"retry", "fatal"} /\ Alive(c) /\ ~ops[p].canceled /\ Spend
      \/ r = "signal" /\ ((c \in Conns /\ conn[c] = "policy") \/ (Alive(c) /\ ~ops[p].canceled /\ Stale))
                      /\ UNCHANGED faults

endOperation(p) ==
  /\ pc[p] \in {"in1", "in2"}
  /\ done(p)
  /\ \E r \in {"ok", "retry", "fatal", "signal"} :
       /\ OpOutcome(p, r)
       /\ IF r = "signal"
          THEN Goto(p, IF pc[p] = "in1" THEN "recover" ELSE "fail") /\ UNCHANGED lifeVars
          ELSE Returned(p, r)
  /\ UNCHANGED <<conn, core, policyVars, policyMu, transMu, job, watched, capacityVars, seen>>

\* failRuntimePolicyRecovery: the signal came back after a rediscovery.
failRuntimePolicyRecovery(p) ==
  /\ pc[p] = "fail" /\ policyMu = NoProc
  /\ policyTerminal' = TRUE
  /\ Returned(p, "fatal")
  /\ UNCHANGED <<gateVars, envVars, order, read, rediscovered, policyRevision, policyMu, transMu,
                 job, watched, capacityVars, seen>>

-----------------------------------------------------------------------------
(* Policy recovery.                                                        *)

\* Mutant: the revision that the caller observed is not compared.
recoverRuntimePolicyAgain(p) ==
  /\ pc[p] = "recover" /\ policyMu = NoProc /\ ~policyTerminal
  /\ policyRevision' = policyRevision + 1 /\ policyMu' = p
  /\ Goto(p, "discover")
  /\ UNCHANGED <<gateVars, envVars, order, read, rediscovered, policyTerminal, transMu, job,
                 watched, capacityVars, seen, lifeVars>>

\* Whoever observed the current revision consumes it; the others take its result.
recoverRuntimePolicy(p) ==
  /\ pc[p] = "recover" /\ policyMu = NoProc
  /\ IF policyTerminal \/ policyRevision # seen[p]
     THEN Recovered(p, ~policyTerminal) /\ UNCHANGED <<policyRevision, policyMu>>
     ELSE /\ policyRevision' = policyRevision + 1 /\ policyMu' = p
          /\ Goto(p, "discover") /\ UNCHANGED lifeVars
  /\ UNCHANGED <<gateVars, envVars, order, read, rediscovered, policyTerminal, transMu, job,
                 watched, capacityVars, seen>>

\* The canonical manifest is read; a mode that it refuses, a failure or the
\* end of the caller's context makes the failure terminal.
discover(p) ==
  /\ pc[p] = "discover"
  /\ \/ /\ runtimeTransportOrder(core) # << >>
        /\ read' = core /\ rediscovered' = rediscovered + 1
        /\ Goto(p, "lockTransition")
        /\ UNCHANGED <<policyTerminal, policyMu, faults, lifeVars>>
     \/ /\ \/ runtimeTransportOrder(core) = << >> /\ UNCHANGED faults
           \/ MayExpire(p) /\ UNCHANGED faults
           \/ Spend
        /\ policyTerminal' = TRUE /\ policyMu' = NoProc
        /\ Recovered(p, FALSE)
        /\ UNCHANGED <<read, rediscovered>>
  /\ UNCHANGED <<gateVars, conn, core, order, policyRevision, transMu, job, watched,
                 capacityVars, seen>>

\* The rediscovered policy is applied under the transition lock, and the
\* transport is started anew.
recoverRuntimePolicyLocked(p) ==
  /\ pc[p] = "lockTransition" /\ transMu = NoProc
  /\ transMu' = p /\ order' = read
  /\ job' = [job EXCEPT ![p] = [NoJob EXCEPT !.goal = "recover", !.reconnect = resumed,
                                             !.target = runtimeTransportOrder(read)[1]]]
  /\ Goto(p, "moving")
  /\ UNCHANGED <<gateVars, envVars, read, rediscovered, policyRevision, policyTerminal, policyMu,
                 watched, capacityVars, seen, lifeVars>>

-----------------------------------------------------------------------------
(* A transition, run by the holder of transportTransitionMu.               *)

NotMoving == <<core, order, read, rediscovered, policyRevision, seen, watched>>
StillMoving == UNCHANGED <<policyTerminal, policyMu, transMu, pc, lifeVars>>

SwitchState(p) ==
  CASE job[p].target = "pull" -> "switching_to_pull"
    [] job[p].target = "ws" /\ job[p].goal = "toWS" -> "switching_to_ws"
    [] OTHER -> "connecting_ws"

\* closeTransport: a closed WebSocket is done, the HTTP client stays usable.
closeTransport(c) == conn' = [d \in Conns |-> IF d = c THEN "closed" ELSE conn[d]]

MoveBegins(p) ==
  /\ pc[p] = "moving" /\ job[p].stage = "begin"
  /\ beginTransition(p, SwitchState(p)) \/ beginTransitionStopped(p)
  /\ job' = [job EXCEPT ![p].stage = "drain"]
  /\ UNCHANGED <<envVars, capacityVars, NotMoving>> /\ StillMoving

\* The wait of beginTransition is over, and the previous client is closed,
\* except by the transitions before the first resume.
MoveDrained(p) ==
  /\ pc[p] = "moving" /\ job[p].stage = "drain"
  /\ IF moves[p].step = "draining" THEN awaitOperations(p) ELSE UNCHANGED gateVars
  /\ closeTransport(IF job[p].reconnect THEN moves[p].previous ELSE NoClient)
  /\ job' = [job EXCEPT ![p].stage = "attach"]
  /\ UNCHANGED <<core, faults, capacityVars, NotMoving>> /\ StillMoving

\* The transition ends with the error r and nothing to publish.
MoveFails(p, r) ==
  giveUp(p) /\ MoveEnded(p, r) /\ closeTransport(job[p].client)

\* The attach, or the resume after it, failed with an error that is not
\* permanent: fall back to long-poll, restore it, or try again.
AttachFailed(p) ==
  /\ closeTransport(job[p].client)
  /\ IF job[p].target = "pull" THEN UNCHANGED job
     ELSE CASE job[p].goal \in {"start", "recover"} /\ Mode = "auto" /\ autoAllowsPullFallback ->
                 job' = [job EXCEPT ![p].target = "pull", ![p].stage = "begin",
                                    ![p].client = NoClient]
            [] job[p].goal = "toWS" ->
                 job' = [job EXCEPT ![p].target = "pull", ![p].stage = "attach",
                                    ![p].client = NoClient, ![p].deferred = TRUE]
            [] OTHER -> job' = [job EXCEPT ![p].stage = "attach", ![p].client = NoClient]
  /\ UNCHANGED gateVars /\ StillMoving

\* Errors that end an attach: the recovery signal, a permanent error, and the
\* context, which every retry looks at.
AttachRefused(p) ==
  \/ MoveFails(p, "signal") /\ Stale /\ UNCHANGED faults
  \/ MoveFails(p, "fatal") /\ Spend
  \/ MoveFails(p, "ctx") /\ MayExpire(p) /\ UNCHANGED faults

\* The hello of the attach carries the capacity of this moment.
recordWebSocketAttachment(c) ==
  attached' = [client |-> c, zero |-> ~accepting \/ stopRequested, seen |-> FALSE]

AfterAttach(p) == IF job[p].reconnect THEN "resume" ELSE "publish"

Attached(p) ==
  IF job[p].target = "pull"
  THEN /\ job' = [job EXCEPT ![p].client = Pull, ![p].stage = AfterAttach(p)]
       /\ UNCHANGED <<conn, attached>>
  ELSE \E c \in {CHOOSE d \in Fresh : TRUE} :
         /\ conn' = [conn EXCEPT ![c] = "open"]
         /\ recordWebSocketAttachment(c)
         /\ job' = [job EXCEPT ![p].client = c, ![p].stage = AfterAttach(p)]

\* createSessionWithRetryClient and dialWebSocketOnce.
Attach(p) ==
  /\ pc[p] = "moving" /\ job[p].stage = "attach"
  /\ \/ /\ job[p].target = "ws" => Fresh # {}
        /\ Attached(p) /\ UNCHANGED <<gateVars, faults>> /\ StillMoving
     \/ AttachFailed(p) /\ Spend /\ UNCHANGED attached
     \/ AttachRefused(p) /\ UNCHANGED attached
  /\ UNCHANGED <<accepting, NotMoving>>

\* resumeDurableStateWithClient: without records it calls nobody.  A dead
\* connection fails every call and is called again, unless its error is the
\* recovery signal.  A decision to revoke waits for the handler.
Resume(p) ==
  LET c == job[p].client
  IN  /\ pc[p] = "moving" /\ job[p].stage = "resume"
      /\ \/ /\ Alive(c) \/ ~HasRecords
            /\ job' = [job EXCEPT ![p].stage = "publish"]
            /\ UNCHANGED <<gateVars, conn, faults>> /\ StillMoving
         \/ \E h \in Handlers :
              /\ HasRecords /\ Alive(c) /\ pc[h] \notin {"off", "exited"}
              /\ canceled' = canceled \cup {h}
              /\ job' = [job EXCEPT ![p].stage = "await", ![p].waits = h]
              /\ UNCHANGED <<gateVars, conn, faults, policyTerminal, policyMu, transMu, pc, phase,
                             resumed, stopRequested, supStop, runStop, fatal>>
         \/ HasRecords /\ Alive(c) /\ AttachFailed(p) /\ Spend
         \/ HasRecords /\ Alive(c) /\ AttachRefused(p)
         \/ /\ HasRecords /\ c \in Conns /\ conn[c] = "policy"
            /\ MoveFails(p, "signal") /\ UNCHANGED faults
         \/ HasRecords /\ Dead(c) /\ MayExpire(p) /\ MoveFails(p, "ctx") /\ UNCHANGED faults
      /\ UNCHANGED <<capacityVars, NotMoving>>

\* stopActiveAttemptForResume: the handler's done, or the context.
AwaitHandler(p) ==
  /\ pc[p] = "moving" /\ job[p].stage = "await"
  /\ \/ /\ pc[job[p].waits] = "exited"
        /\ job' = [job EXCEPT ![p].stage = "publish", ![p].waits = NoProc]
        /\ UNCHANGED <<gateVars, conn>> /\ StillMoving
     \/ MayExpire(p) /\ MoveFails(p, "ctx")
  /\ UNCHANGED <<faults, capacityVars, NotMoving>>

\* Mutant: the client is published whatever has become of the gate.
publishRuntimeTransportUnfenced(p) ==
  LET c == job[p].client
  IN  /\ pc[p] = "moving" /\ job[p].stage = "publish"
      /\ moves' = [moves EXCEPT ![p] = NoMove]
      /\ active' = c /\ state' = ActiveState(Kind(c)) /\ retired' = FALSE
      /\ ops' = CancelGeneration
      /\ MoveEnded(p, "ok")
      /\ UNCHANGED <<transitionEpoch, conn, core, faults, capacityVars, NotMoving>>

\* publishRuntimeTransport closes a client that comes too late.
publishRuntimeTransport(p) ==
  LET c == job[p].client
  IN  /\ pc[p] = "moving" /\ job[p].stage = "publish"
      /\ activateIfCurrent(p, Kind(c), c)
      /\ closeTransport(IF Current(p) THEN NoClient ELSE c)
      /\ MoveEnded(p, CASE ~Current(p) -> "superseded"
                        [] Current(p) /\ job[p].deferred -> "deferred"
                        [] OTHER -> "ok")
      /\ UNCHANGED <<core, faults, capacityVars, NotMoving>>

-----------------------------------------------------------------------------
(* The supervisor.                                                         *)

NotSupervising == <<conn, core, policyVars, policyMu, capacityVars>>
Unlocked == policyMu = NoProc /\ transMu = NoProc
Observed == ~policyTerminal /\ policyRevision = seen[Sup]

\* The loop finds its context done, between two waits.
supervisorStops ==
  /\ pc[Sup] \in {"snapshot", "watch", "probe", "probing"} /\ supStop
  /\ Goto(Sup, "exited") /\ watched' = NoClient
  /\ UNCHANGED <<gateVars, NotSupervising, faults, transMu, seen, job, lifeVars>>

\* Recovery holds both mutexes for as long as it lasts, so the revision and
\* the active client are read together.  Without a client to watch or to
\* improve on, the loop sleeps.
runtimePolicyTransportSnapshot ==
  /\ pc[Sup] = "snapshot" /\ ~supStop /\ Unlocked
  /\ active # NoClient
  /\ active = Pull => Mode = "ws" \/ autoPrefersWebSocket
  /\ seen' = [seen EXCEPT ![Sup] = policyRevision] /\ watched' = active
  /\ Goto(Sup, IF active = Pull THEN "probe" ELSE "watch")
  /\ UNCHANGED <<gateVars, NotSupervising, faults, transMu, job, lifeVars>>

\* Mutant: the end of a connection is only logged.
supervisorDisconnectedIgnored ==
  /\ pc[Sup] = "watch" /\ ~supStop /\ Dead(watched)
  /\ Goto(Sup, "snapshot")
  /\ UNCHANGED <<gateVars, NotSupervising, faults, transMu, seen, watched, job, lifeVars>>

\* The watched WebSocket is done: recover, reconnect, or fall back.
supervisorDisconnected ==
  /\ pc[Sup] = "watch" /\ ~supStop /\ Dead(watched)
  /\ IF conn[watched] = "policy"
     THEN Goto(Sup, "recover") /\ UNCHANGED job
     ELSE /\ Goto(Sup, "wantMove")
          /\ job' = [job EXCEPT ![Sup] =
                [NoJob EXCEPT
                  !.goal = IF autoAllowsPullFallback THEN "toPull" ELSE "reconnect",
                  !.reconnect = TRUE,
                  !.target = IF autoAllowsPullFallback THEN "pull" ELSE "ws"]]
  /\ UNCHANGED <<gateVars, NotSupervising, faults, transMu, seen, watched, lifeVars>>

\* setRuntimeTransportStateIfPolicyCurrent(ProbingWS).
supervisorProbes ==
  /\ pc[Sup] = "probe" /\ ~supStop /\ Unlocked
  /\ IF Observed THEN setState("probing_ws") /\ Goto(Sup, "probing")
                 ELSE UNCHANGED gateVars /\ Goto(Sup, "snapshot")
  /\ UNCHANGED <<NotSupervising, faults, transMu, seen, watched, job, lifeVars>>

ProbeSucceeds ==
  /\ Goto(Sup, "wantMove")
  /\ job' = [job EXCEPT ![Sup] = [NoJob EXCEPT !.goal = "toWS", !.reconnect = TRUE, !.target = "ws"]]
  /\ UNCHANGED <<gateVars, faults, lifeVars>>

\* A failed probe returns to long-poll, unless a recovery has moved on.
ProbeFails ==
  /\ Unlocked
  /\ IF ~Observed
     THEN Goto(Sup, "snapshot") /\ Spend /\ UNCHANGED <<gateVars, lifeVars>>
     ELSE /\ setState("pull_active")
          /\ \/ Stale /\ Goto(Sup, "recover") /\ UNCHANGED <<faults, lifeVars>>
             \/ Spend /\ Goto(Sup, "snapshot") /\ UNCHANGED lifeVars
             \/ Spend /\ reportFatal(Sup)
  /\ UNCHANGED job

supervisorProbed ==
  /\ pc[Sup] = "probing" /\ ~supStop
  /\ ProbeSucceeds \/ ProbeFails
  /\ UNCHANGED <<NotSupervising, transMu, seen, watched>>

\* Mutant: the transition lock is taken whatever the policy revision.
lockTransitionUnfenced ==
  /\ pc[Sup] = "wantMove" /\ Unlocked
  /\ transMu' = Sup /\ Goto(Sup, "moving")
  /\ UNCHANGED <<gateVars, NotSupervising, faults, seen, watched, job, lifeVars>>

\* lockRuntimeTransportTransitionAtPolicyRevision.
lockTransition ==
  /\ pc[Sup] = "wantMove" /\ Unlocked
  /\ CASE policyTerminal -> SupEnds /\ UNCHANGED transMu /\ job' = [job EXCEPT ![Sup] = NoJob]
       [] ~policyTerminal /\ ~Observed ->
            /\ Goto(Sup, "snapshot") /\ UNCHANGED <<transMu, lifeVars>>
            /\ job' = [job EXCEPT ![Sup] = NoJob]
       [] Observed -> transMu' = Sup /\ Goto(Sup, "moving") /\ UNCHANGED <<job, lifeVars>>
  /\ UNCHANGED <<gateVars, NotSupervising, faults, seen, watched>>

-----------------------------------------------------------------------------
(* Capacity reattach, by heartbeatLoop after its heartbeat.                *)

NotReattaching == <<core, policyVars, policyMu, transMu, seen, watched, lifeVars, accepting>>

\* webSocketCapacityReattachTarget would name the active WebSocket.
AttachedWithoutCapacity ==
  /\ active \in Conns /\ state = "ws_active"
  /\ attached.client = active /\ attached.zero /\ accepting

\* Mutant: the first heartbeat after the reopening is forgotten.
retireWebSocketForCapacityNever(p) ==
  /\ pc[p] = "retire"
  /\ attached' = [attached EXCEPT !.seen = FALSE]
  /\ Goto(p, "idle")
  /\ UNCHANGED <<gateVars, job, conn, faults, NotReattaching>>

retireWebSocketForCapacity(p) ==
  /\ pc[p] = "retire"
  /\ IF stopRequested THEN Goto(p, "idle") /\ UNCHANGED <<gateVars, attached, job>>
     ELSE /\ attached' = [attached EXCEPT !.seen = AttachedWithoutCapacity /\ ~attached.seen]
          /\ IF AttachedWithoutCapacity /\ attached.seen /\ ~retired
             THEN /\ retireActive(active) /\ Goto(p, "closeRetired")
                  /\ job' = [job EXCEPT ![p].client = active]
             ELSE Goto(p, "idle") /\ UNCHANGED <<gateVars, job>>
  /\ UNCHANGED <<conn, faults, NotReattaching>>

\* The close runs unlocked; a client that it does not disconnect is restored.
closeRetired(p) ==
  /\ pc[p] = "closeRetired"
  /\ \/ closeTransport(job[p].client) /\ UNCHANGED <<gateVars, faults>>
     \/ /\ conn[job[p].client] = "open" /\ Spend
        /\ restoreActive(job[p].client) /\ UNCHANGED conn
  /\ Goto(p, "idle") /\ job' = [job EXCEPT ![p] = NoJob]
  /\ UNCHANGED <<attached, NotReattaching>>

-----------------------------------------------------------------------------
(* Start, shutdown, loops and handlers.                                    *)

NotLiving == <<envVars, policyVars, policyMu, transMu, seen, job, watched, capacityVars>>

mainWakes ==
  /\ pc[Main] = "running" /\ (stopRequested \/ fatal)
  /\ EnterShutdown
  /\ UNCHANGED <<gateVars, NotLiving>>

\* The handlers have returned, or shutdown's timeout cancels them and goes on.
waitExecutions ==
  /\ pc[Main] = "waitExec"
  /\ \/ (\A h \in Handlers : pc[h] \in {"off", "exited"}) /\ UNCHANGED canceled
     \/ canceled' = Handlers
  /\ phase' = "stopGate" /\ Goto(Main, "stopGate")
  /\ UNCHANGED <<gateVars, NotLiving, resumed, stopRequested, supStop, runStop, fatal>>

stopGate ==
  /\ pc[Main] = "stopGate"
  /\ beginTransition(Main, "stopped")
  /\ Goto(Main, "stopping")
  /\ UNCHANGED <<NotLiving, lifeVars>>

\* Mutant: the loops are waited for before runtimeStop.
closeSessionKeepsLoops ==
  /\ pc[Main] = "stopping"
  /\ awaitOperations(Main)
  /\ closeTransport(moves[Main].previous)
  /\ canceled' = Handlers
  /\ Goto(Main, "waitLoops")
  /\ UNCHANGED <<core, faults, policyVars, policyMu, transMu, seen, job, watched, capacityVars,
                 phase, resumed, stopRequested, supStop, runStop, fatal>>

\* The session is closed, cancelAllActive, runtimeStop.
closeSession ==
  /\ pc[Main] = "stopping"
  /\ awaitOperations(Main)
  /\ closeTransport(moves[Main].previous)
  /\ canceled' = Handlers /\ runStop' = TRUE
  /\ Goto(Main, "waitLoops")
  /\ UNCHANGED <<core, faults, policyVars, policyMu, transMu, seen, job, watched, capacityVars,
                 phase, resumed, stopRequested, supStop, fatal>>

loopsWait ==
  /\ pc[Main] = "waitLoops"
  /\ \A p \in Loops \cup {Sup} : pc[p] \in {"off", "exited"}
  /\ phase' = "done" /\ Goto(Main, "exited")
  /\ UNCHANGED <<gateVars, NotLiving, resumed, stopRequested, supStop, runStop, fatal, canceled>>

loopExits(p) ==
  /\ p \in Loops /\ pc[p] = "idle" /\ runStop
  /\ Goto(p, "exited")
  /\ UNCHANGED <<gateVars, NotLiving, lifeVars>>

handlerReturns(p) ==
  /\ p \in Handlers /\ pc[p] = "idle"
  /\ Goto(p, "exited")
  /\ UNCHANGED <<gateVars, NotLiving, lifeVars>>

-----------------------------------------------------------------------------
(* The environment.                                                        *)

NotOutside == <<gateVars, policyVars, policyMu, transMu, pc, seen, job, watched, attached>>

stopAsked ==
  /\ ~stopRequested /\ stopRequested' = TRUE
  /\ UNCHANGED <<NotOutside, envVars, accepting, phase, resumed, supStop, runStop, fatal, canceled>>

connectionEnds ==
  /\ \E c \in Conns :
       /\ conn[c] = "open"
       /\ \/ conn' = [conn EXCEPT ![c] = "lost"] /\ Spend
          \/ Stale /\ conn' = [conn EXCEPT ![c] = "policy"] /\ UNCHANGED faults
  /\ UNCHANGED <<NotOutside, core, accepting, lifeVars>>

policyChanges ==
  /\ core < Len(Policies) /\ core' = core + 1
  /\ UNCHANGED <<NotOutside, conn, faults, accepting, lifeVars>>

\* Spool backpressure ends; where a run starts without it, admission is open.
admissionReopens ==
  /\ ~accepting /\ accepting' = TRUE
  /\ UNCHANGED <<NotOutside, envVars, lifeVars>>

-----------------------------------------------------------------------------
(* The specification.                                                      *)

\* Start has opened the store and taken the transition lock for the first
\* transport.
Init ==
  /\ GateInit
  /\ conn = [c \in Conns |-> "closed"]
  /\ core = 1 /\ order = 1 /\ read = 1 /\ rediscovered = 0
  /\ policyRevision = 0 /\ policyTerminal = FALSE
  /\ policyMu = NoProc /\ transMu = Main
  /\ pc = [p \in Procs |-> IF p = Main THEN "moving" ELSE "off"]
  /\ seen = [p \in Procs |-> 0]
  /\ job = [p \in Procs |-> IF p = Main THEN [NoJob EXCEPT !.goal = "start",
                                                  !.target = runtimeTransportOrder(1)[1]]
                                         ELSE NoJob]
  /\ watched = NoClient
  /\ phase = "attach" /\ resumed = FALSE
  /\ stopRequested = FALSE /\ supStop = FALSE /\ runStop = FALSE /\ fatal = FALSE
  /\ canceled = {}
  /\ accepting \in BOOLEAN /\ (Timed = {} => accepting)
  /\ attached = [client |-> NoClient, zero |-> FALSE, seen |-> FALSE]
  /\ faults = 0

CallStep(p) ==
  policyRecoverySnapshot(p) \/ beginOperation(p) \/ failRuntimePolicyRecovery(p)
RecoverStep(p) == recoverRuntimePolicy(p) \/ discover(p) \/ recoverRuntimePolicyLocked(p)
MoveStep(p) ==
  \/ MoveBegins(p) \/ MoveDrained(p) \/ Attach(p) \/ Resume(p) \/ AwaitHandler(p)
  \/ publishRuntimeTransport(p)
SupStep ==
  \/ supervisorStops \/ runtimePolicyTransportSnapshot \/ supervisorDisconnected
  \/ supervisorProbes \/ supervisorProbed \/ lockTransition
CapacityStep(p) == retireWebSocketForCapacity(p) \/ closeRetired(p)
MainStep == mainWakes \/ waitExecutions \/ stopGate \/ closeSession \/ loopsWait
Outside == stopAsked \/ connectionEnds \/ policyChanges \/ admissionReopens

\* A worker that has stopped stays as it is.
Finished == phase = "done" /\ UNCHANGED vars

Next ==
  \/ \E p \in Callers : StartCall(p) \/ CallStep(p) \/ endOperation(p)
  \/ \E p \in Procs : RecoverStep(p) \/ MoveStep(p)
  \/ SupStep
  \/ \E p \in Timed : CapacityStep(p)
  \/ MainStep
  \/ \E p \in Callers : loopExits(p) \/ handlerReturns(p)
  \/ Outside
  \/ Finished

Spec == Init /\ [][Next]_vars

\* An operation ends when its generation, its context or its connection has
\* ended, and when its call has a timeout.
MustEnd(p) == ops[p].canceled \/ MayExpire(p) \/ Dead(ops[p].client)

\* The goroutines run, the loops go on calling, and a handler whose context is
\* canceled returns.  A failed attach costs a fault, so OpenLinker answers after
\* MaxFaults failures at the latest.
Fairness ==
  /\ \A p \in Callers :
       /\ WF_vars(CallStep(p)) /\ WF_vars(endOperation(p) /\ MustEnd(p)) /\ WF_vars(loopExits(p))
       /\ WF_vars(handlerReturns(p) /\ p \in canceled)
  /\ \A p \in Loops : WF_vars(StartCall(p)) /\ WF_vars(CapacityStep(p))
  /\ \A p \in Procs : WF_vars(RecoverStep(p)) /\ WF_vars(MoveStep(p))
  /\ WF_vars(SupStep) /\ WF_vars(MainStep)

FairSpec == Spec /\ Fairness

-----------------------------------------------------------------------------
(* Properties.                                                             *)

TypeOK ==
  /\ GateTypeOK
  /\ conn \in [Conns -> {"open", "lost", "policy", "closed"}]
  /\ policyMu \in Procs \cup {NoProc} /\ transMu \in Procs \cup {NoProc}
  /\ job \in [Procs -> [goal : {"none", "start", "recover", "toPull", "toWS", "reconnect"},
                        reconnect : BOOLEAN, target : {"ws", "pull"},
                        stage : {"begin", "drain", "attach", "resume", "await", "publish"},
                        client : Clients \cup {NoClient}, waits : Handlers \cup {NoProc},
                        deferred : BOOLEAN]]
  /\ watched \in Clients \cup {NoClient}

\* The processes use the gate only as its specification says.
UsesGate == GateSpec

\* lockRuntimeTransportTransitionAtPolicyRevision: the supervisor never takes
\* away another client than the one whose end, or whose place, it decided on.
\* A recovery that installed a new transport in between is not undone.
NoStaleTransition ==
  pc[Sup] = "moving" /\ job[Sup].stage = "begin" /\ job[Sup].goal # "recover" =>
    state = "stopped" \/ active = watched

\* runtimePolicyTransportSnapshot and the revision that recovery consumes: one
\* change of the policy is rediscovered at most once, however many callers and
\* closed connections report it.
NoDuplicateRediscovery == rediscovered < core

\* No operation begins on a client that the worker itself has closed: while it is
\* still published it is retired.
ClosedIsRetired == active \in Conns /\ conn[active] = "closed" => retired

\* A running worker whose transport is gone gets another one, unless it ends:
\* switchToWebSocket restores long-poll "so the RuntimeWorker never remains
\* transportless after a failed recovery probe".
TransportRestored ==
  (phase = "running" /\ (active = NoClient \/ Dead(active)))
    ~> ((active # NoClient /\ Alive(active)) \/ fatal \/ stopRequested)

\* A stop request ends Start.
StopCompletes == stopRequested ~> phase = "done"

\* A WebSocket that was attached without capacity is attached again once
\* admission has reopened.
CapacityRestored ==
  (phase = "running" /\ AttachedWithoutCapacity)
    ~> (~AttachedWithoutCapacity \/ fatal \/ stopRequested)
=============================================================================
