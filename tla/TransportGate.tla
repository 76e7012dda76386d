---------------------------- MODULE TransportGate ---------------------------
(***************************************************************************)
(* switchingRuntimeClient (runtime_worker_transport.go): the gate through  *)
(* which every loop and handler of the worker reaches OpenLinker.  A caller *)
(* begins an operation on the active client; a mover takes the client away *)
(* (beginTransition), waits until every operation has ended, and publishes *)
(* another client unless a newer transition owns the gate.                 *)
(*                                                                         *)
(* One mutex protects the fields, so each of its critical sections is one  *)
(* step.  cond.Wait releases the mutex: beginTransition is two steps.      *)
(***************************************************************************)
EXTENDS Naturals

CONSTANTS
  Callers,     \* the goroutines that use the gate
  Movers,      \* the goroutines that may run a transition
  Clients,     \* the runtime clients: the HTTP client and the WebSockets
  NoClient     \* the nil client

ASSUME GateAssumption == NoClient \notin Clients

States == {"disconnected", "connecting_ws", "ws_active", "switching_to_pull", "pull_active",
           "probing_ws", "switching_to_ws", "stopped"}

VARIABLES
  active,           \* the published client
  state,            \* RuntimeTransportState
  retired,          \* the active client is being closed by the worker
  transitionEpoch,
  ops,              \* the operation of each caller: its client, and whether its
                    \* generation has been canceled
  moves             \* what each mover holds: its step, its epoch and the client
                    \* that beginTransition returned to it

gateVars == <<active, state, retired, transitionEpoch, ops, moves>>

NoOp == [client |-> NoClient, canceled |-> FALSE]
NoMove == [step |-> "none", epoch |-> 0, previous |-> NoClient]

\* The callers that operations counts.
InFlight == {p \in Callers : ops[p] # NoOp}

\* client.cancel(): every operation begun so far belongs to the generation.
CancelGeneration ==
  [p \in Callers |-> IF ops[p] = NoOp THEN NoOp ELSE [ops[p] EXCEPT !.canceled = TRUE]]

GateInit ==
  /\ active = NoClient /\ state = "disconnected" /\ retired = FALSE
  /\ transitionEpoch = 0
  /\ ops = [p \in Callers |-> NoOp]
  /\ moves = [m \in Movers |-> NoMove]

-----------------------------------------------------------------------------
(* Callers.                                                                *)

\* begin succeeds only on an active client that is not retired.
CanBegin == active # NoClient /\ ~retired

begin(p) ==
  /\ ops[p] = NoOp /\ CanBegin
  /\ ops' = [ops EXCEPT ![p] = [client |-> active, canceled |-> FALSE]]
  /\ UNCHANGED <<active, state, retired, transitionEpoch, moves>>

done(p) ==
  /\ ops[p] # NoOp
  /\ ops' = [ops EXCEPT ![p] = NoOp]
  /\ UNCHANGED <<active, state, retired, transitionEpoch, moves>>

-----------------------------------------------------------------------------
(* Movers.                                                                 *)

setState(s) ==
  /\ state' = IF state = "stopped" THEN state ELSE s
  /\ UNCHANGED <<active, retired, transitionEpoch, ops, moves>>

\* A stopped gate gives out no epoch, and no client.
beginTransitionStopped(m) ==
  /\ moves[m].step # "draining" /\ state = "stopped"
  /\ moves' = [moves EXCEPT ![m] = [NoMove EXCEPT !.step = "moving"]]
  /\ UNCHANGED <<active, state, retired, transitionEpoch, ops>>

beginTransition(m, s) ==
  /\ moves[m].step # "draining" /\ state # "stopped"
  /\ transitionEpoch' = transitionEpoch + 1
  /\ state' = s /\ active' = NoClient /\ retired' = FALSE
  /\ ops' = CancelGeneration
  /\ moves' = [moves EXCEPT ![m] = [step |-> "draining", epoch |-> transitionEpoch + 1,
                                    previous |-> active]]

\* Mutant: the transition does not wait for the operations of the old client.
awaitNothing(m) ==
  /\ moves[m].step = "draining"
  /\ moves' = [moves EXCEPT ![m].step = "moving"]
  /\ UNCHANGED <<active, state, retired, transitionEpoch, ops>>

awaitOperations(m) ==
  /\ moves[m].step = "draining" /\ InFlight = {}
  /\ moves' = [moves EXCEPT ![m].step = "moving"]
  /\ UNCHANGED <<active, state, retired, transitionEpoch, ops>>

Current(m) ==
  moves[m].epoch # 0 /\ moves[m].epoch = transitionEpoch /\ state # "stopped"

ActiveState(kind) == IF kind = "ws" THEN "ws_active" ELSE "pull_active"

\* The move ends: its client is published if its epoch is still current.
activateIfCurrent(m, kind, c) ==
  /\ moves[m].step = "moving"
  /\ moves' = [moves EXCEPT ![m] = NoMove]
  /\ IF Current(m)
     THEN /\ active' = c /\ state' = ActiveState(kind) /\ retired' = FALSE
          /\ ops' = CancelGeneration
          /\ UNCHANGED transitionEpoch
     ELSE UNCHANGED <<active, state, retired, transitionEpoch, ops>>

\* The move ends without a client to publish.
giveUp(m) ==
  /\ moves[m].step = "moving"
  /\ moves' = [moves EXCEPT ![m] = NoMove]
  /\ UNCHANGED <<active, state, retired, transitionEpoch, ops>>

-----------------------------------------------------------------------------
(* Capacity reattach.                                                      *)

retireActive(c) ==
  /\ active = c /\ ~retired /\ state # "stopped"
  /\ retired' = TRUE
  /\ UNCHANGED <<active, state, transitionEpoch, ops, moves>>

restoreActive(c) ==
  /\ retired' = (retired /\ active # c)
  /\ UNCHANGED <<active, state, transitionEpoch, ops, moves>>

GateNext ==
  \/ \E p \in Callers : begin(p) \/ done(p)
  \/ \E s \in States \ {"stopped"} : setState(s)
  \/ \E m \in Movers :
       \/ \E s \in States : beginTransition(m, s)
       \/ beginTransitionStopped(m)
       \/ awaitOperations(m)
       \/ \E kind \in {"ws", "pull"}, c \in Clients : activateIfCurrent(m, kind, c)
       \/ giveUp(m)
  \/ \E c \in Clients : retireActive(c) \/ restoreActive(c)

GateSpec == GateInit /\ [][GateNext]_gateVars

-----------------------------------------------------------------------------
(* Properties.                                                             *)

GateTypeOK ==
  /\ active \in Clients \cup {NoClient}
  /\ state \in States
  /\ retired \in BOOLEAN
  /\ transitionEpoch \in Nat
  /\ ops \in [Callers -> [client : Clients \cup {NoClient}, canceled : BOOLEAN]]
  /\ moves \in [Movers -> [step : {"none", "draining", "moving"}, epoch : Nat,
                           previous : Clients \cup {NoClient}]]

\* Two operations never run on two clients at once: whatever movers and stop()
\* do concurrently, a client is published only when no operation of an earlier
\* client is left.
OneClientAtATime ==
  \A p, q \in InFlight : ops[p].client = ops[q].client

\* While a mover owns the gate, nothing runs: from the moment its wait is over
\* until it publishes, no client is active and no operation is in flight.
QuietWhileMoving ==
  \A m \in Movers :
    moves[m].step = "moving" /\ Current(m) => active = NoClient /\ InFlight = {}

\* An operation that the transition waits for has been told to end: only the
\* operations of the active client have a live generation.
WaitedForIsCanceled ==
  \A p \in InFlight : ops[p].client = active \/ ops[p].canceled

\* Shutdown is final: a transition that was under way when stop() took the gate
\* publishes nothing afterwards.
StoppedIsFinal == [][state = "stopped" => state' = "stopped" /\ active' = NoClient]_gateVars
=============================================================================
