------------------------- MODULE TransportGateProofs ------------------------
(***************************************************************************)
(* The gate's properties for every set of callers, movers and clients and  *)
(* any number of transitions.                                              *)
(***************************************************************************)
EXTENDS TransportGate, TLAPS

\* An operation in flight runs on a client; while one is active, on that one.
OpsOK ==
  /\ \A p \in InFlight : ops[p].client \in Clients
  /\ active # NoClient => \A p \in InFlight : ops[p].client = active

\* Epochs are given out once, so at most one mover is current.
EpochsOK ==
  /\ \A m \in Movers : moves[m].epoch <= transitionEpoch
  /\ \A m \in Movers : moves[m].step = "none" => moves[m].epoch = 0
  /\ \A m, n \in Movers : m # n /\ moves[m].epoch # 0 => moves[m].epoch # moves[n].epoch

\* The current mover keeps the gate empty; a stopped gate stays empty.
OwnerOK ==
  /\ \A m \in Movers : Current(m) => active = NoClient
  /\ state = "stopped" => active = NoClient

\* The inductive invariant.
GInv ==
  /\ GateTypeOK
  /\ OpsOK
  /\ EpochsOK
  /\ OwnerOK
  /\ OneClientAtATime
  /\ QuietWhileMoving
  /\ WaitedForIsCanceled

-----------------------------------------------------------------------------
(* What each action does to the operations in flight.                      *)

\* Canceling a generation ends no operation and moves none.
LEMMA CanceledOps ==
  ASSUME GateTypeOK, ops' = CancelGeneration
  PROVE  /\ ops' \in [Callers -> [client : Clients \cup {NoClient}, canceled : BOOLEAN]]
         /\ InFlight' = InFlight
         /\ \A p \in InFlight : ops'[p].client = ops[p].client /\ ops'[p].canceled = TRUE
<1>1. \A p \in Callers : ops'[p] = IF ops[p] = NoOp THEN NoOp ELSE [ops[p] EXCEPT !.canceled = TRUE]
  BY DEF CancelGeneration
<1>2. \A p \in Callers : ops[p] \in [client : Clients \cup {NoClient}, canceled : BOOLEAN]
  BY DEF GateTypeOK
<1>3. \A p \in Callers : ops[p] # NoOp =>
         /\ ops'[p].client = ops[p].client /\ ops'[p].canceled = TRUE /\ ops'[p] # NoOp
  <2> SUFFICES ASSUME NEW p \in Callers, ops[p] # NoOp
               PROVE  /\ ops'[p].client = ops[p].client /\ ops'[p].canceled = TRUE
                      /\ ops'[p] # NoOp
    OBVIOUS
  <2>1. ops'[p] = [ops[p] EXCEPT !.canceled = TRUE]
    BY <1>1
  <2>2. ops'[p].client = ops[p].client /\ ops'[p].canceled = TRUE
    BY <1>2, <2>1
  <2> QED
    BY <2>2 DEF NoOp
<1>4. \A p \in Callers : ops[p] = NoOp => ops'[p] = NoOp
  BY <1>1
<1>5. InFlight' = InFlight
  BY <1>3, <1>4 DEF InFlight
<1>6. ops' \in [Callers -> [client : Clients \cup {NoClient}, canceled : BOOLEAN]]
  BY <1>2 DEF CancelGeneration, NoOp
<1> QED
  BY <1>3, <1>5, <1>6 DEF InFlight

\* A new switchingRuntimeClient satisfies the invariant.
LEMMA GateStarts == GateInit => GInv
<1> SUFFICES ASSUME GateInit PROVE GInv
  OBVIOUS
<1>1. InFlight = {}
  BY DEF GateInit, InFlight
<1>2. GateTypeOK
  BY DEF GateInit, GateTypeOK, NoOp, NoMove, States
<1>3. EpochsOK /\ OwnerOK
  BY DEF GateInit, EpochsOK, OwnerOK, NoMove, Current
<1> QED
  BY <1>1, <1>2, <1>3 DEF GInv, OpsOK, OneClientAtATime, QuietWhileMoving, WaitedForIsCanceled,
                          GateInit

\* begin: the new operation runs on the active client, alone or beside others on it.
LEMMA BeginOK == ASSUME GInv, NEW p \in Callers, begin(p) PROVE GInv'
<1>1. active \in Clients /\ ops' = [ops EXCEPT ![p] = [client |-> active, canceled |-> FALSE]]
  BY DEF GInv, GateTypeOK, begin, CanBegin
<1>2. UNCHANGED <<active, state, retired, transitionEpoch, moves>>
  BY DEF begin
<1>3. GateTypeOK'
  BY <1>1, <1>2 DEF GInv, GateTypeOK
<1>4. /\ ops'[p].client = active /\ ops'[p].canceled = FALSE /\ ops'[p] # NoOp
      /\ \A q \in Callers \ {p} : ops'[q] = ops[q]
  BY <1>1, GateAssumption DEF GInv, GateTypeOK, NoOp
<1>5. InFlight' = InFlight \cup {p}
  BY <1>4 DEF InFlight
<1>6. \A q \in InFlight' : ops'[q].client = active
  BY <1>1, <1>4, <1>5, GateAssumption DEF GInv, OpsOK, InFlight
<1>7. EpochsOK' /\ OwnerOK'
  BY <1>2 DEF GInv, EpochsOK, OwnerOK, Current
<1>8. QuietWhileMoving'
  BY <1>1, <1>2, GateAssumption DEF GInv, OwnerOK, QuietWhileMoving, Current
<1> QED
  BY <1>1, <1>2, <1>3, <1>6, <1>7, <1>8
  DEF GInv, OpsOK, OneClientAtATime, WaitedForIsCanceled

\* done: the other operations stay as they are.
LEMMA DoneOK == ASSUME GInv, NEW p \in Callers, done(p) PROVE GInv'
<1>1. /\ ops' = [ops EXCEPT ![p] = NoOp]
      /\ UNCHANGED <<active, state, retired, transitionEpoch, moves>>
  BY DEF done
<1>2. GateTypeOK'
  BY <1>1 DEF GInv, GateTypeOK, NoOp
<1>3. InFlight' \subseteq InFlight /\ \A q \in InFlight' : ops'[q] = ops[q]
  BY <1>1 DEF GInv, GateTypeOK, InFlight
<1>4. EpochsOK' /\ OwnerOK'
  BY <1>1 DEF GInv, EpochsOK, OwnerOK, Current
<1> QED
  BY <1>1, <1>2, <1>3, <1>4
  DEF GInv, OpsOK, OneClientAtATime, QuietWhileMoving, WaitedForIsCanceled, Current

\* A step that leaves the operations and the movers alone, and publishes nothing.
LEMMA QuietStepOK ==
  ASSUME GInv, UNCHANGED <<active, transitionEpoch, ops, moves>>,
         state' \in States, retired' \in BOOLEAN, (state' = "stopped") = (state = "stopped")
  PROVE  GInv'
<1>1. InFlight' = InFlight
  BY DEF InFlight
<1>2. \A m \in Movers : Current(m)' = Current(m)
  BY DEF Current
<1>3. GateTypeOK' /\ EpochsOK' /\ OwnerOK'
  BY <1>2 DEF GInv, GateTypeOK, EpochsOK, OwnerOK
<1> QED
  BY <1>1, <1>2, <1>3
  DEF GInv, OpsOK, OneClientAtATime, QuietWhileMoving, WaitedForIsCanceled

\* beginTransition: the new epoch is above all others, so nobody else is current.
LEMMA BeginTransitionOK ==
  ASSUME GInv, NEW m \in Movers, NEW s \in States, beginTransition(m, s)
  PROVE  GInv'
<1> DEFINE e == transitionEpoch + 1
<1>1. /\ transitionEpoch' = e /\ state' = s /\ active' = NoClient /\ retired' = FALSE
      /\ ops' = CancelGeneration
      /\ moves' = [moves EXCEPT ![m] = [step |-> "draining", epoch |-> e, previous |-> active]]
  BY DEF beginTransition
<1>2. GateTypeOK
  BY DEF GInv
<1>3. /\ ops' \in [Callers -> [client : Clients \cup {NoClient}, canceled : BOOLEAN]]
      /\ InFlight' = InFlight
      /\ \A p \in InFlight : ops'[p].client = ops[p].client /\ ops'[p].canceled = TRUE
  BY <1>1, <1>2, CanceledOps
<1>4. /\ moves'[m].step = "draining" /\ moves'[m].epoch = e
      /\ \A n \in Movers \ {m} : moves'[n] = moves[n]
      /\ transitionEpoch \in Nat /\ \A n \in Movers : moves[n].epoch \in Nat
  BY <1>1, <1>2 DEF GateTypeOK
<1>5. GateTypeOK'
  <2>1. [step |-> "draining", epoch |-> e, previous |-> active]
          \in [step : {"none", "draining", "moving"}, epoch : Nat, previous : Clients \cup {NoClient}]
    BY <1>2, <1>4 DEF GateTypeOK
  <2>2. moves' \in [Movers -> [step : {"none", "draining", "moving"}, epoch : Nat,
                               previous : Clients \cup {NoClient}]]
    BY <1>1, <1>2, <2>1 DEF GateTypeOK
  <2> QED
    BY <1>1, <1>3, <1>4, <2>2 DEF GateTypeOK
<1>6. EpochsOK'
  BY <1>1, <1>4 DEF GInv, EpochsOK
<1>7. \A n \in Movers : Current(n)' => n = m
  BY <1>1, <1>4 DEF GInv, EpochsOK, Current
<1>8. OwnerOK' /\ QuietWhileMoving'
  BY <1>1, <1>4, <1>7 DEF OwnerOK, QuietWhileMoving
<1> QED
  BY <1>1, <1>3, <1>5, <1>6, <1>8 DEF GInv, OpsOK, OneClientAtATime, WaitedForIsCanceled

\* A stopped gate gives out no epoch.
LEMMA BeginTransitionStoppedOK ==
  ASSUME GInv, NEW m \in Movers, beginTransitionStopped(m)
  PROVE  GInv'
<1>1. /\ moves' = [moves EXCEPT ![m] = [NoMove EXCEPT !.step = "moving"]] /\ state = "stopped"
      /\ UNCHANGED <<active, state, retired, transitionEpoch, ops>>
  BY DEF beginTransitionStopped
<1>2. /\ moves'[m].epoch = 0 /\ moves'[m].step = "moving"
      /\ \A n \in Movers \ {m} : moves'[n] = moves[n]
      /\ transitionEpoch \in Nat
  BY <1>1 DEF GInv, GateTypeOK, NoMove
<1>3. GateTypeOK'
  BY <1>1 DEF GInv, GateTypeOK, NoMove
<1>4. EpochsOK'
  BY <1>1, <1>2 DEF GInv, EpochsOK
<1>5. \A n \in Movers : ~Current(n)'
  BY <1>1 DEF Current
<1>6. InFlight' = InFlight
  BY <1>1 DEF InFlight
<1> QED
  BY <1>1, <1>3, <1>4, <1>5, <1>6
  DEF GInv, OpsOK, OwnerOK, OneClientAtATime, QuietWhileMoving, WaitedForIsCanceled

\* awaitOperations: the gate is empty when the wait ends, and stays so while current.
LEMMA AwaitOK == ASSUME GInv, NEW m \in Movers, awaitOperations(m) PROVE GInv'
<1>1. /\ moves[m].step = "draining" /\ InFlight = {}
      /\ moves' = [moves EXCEPT ![m].step = "moving"]
      /\ UNCHANGED <<active, state, retired, transitionEpoch, ops>>
  BY DEF awaitOperations
<1>2. \A n \in Movers : moves[n] \in [step : {"none", "draining", "moving"}, epoch : Nat,
                                      previous : Clients \cup {NoClient}]
  BY DEF GInv, GateTypeOK
<1>3. /\ moves'[m].step = "moving" /\ moves'[m].epoch = moves[m].epoch
      /\ \A n \in Movers \ {m} : moves'[n] = moves[n]
  BY <1>1, <1>2 DEF GInv, GateTypeOK
<1>4. GateTypeOK'
  BY <1>1, <1>2 DEF GInv, GateTypeOK
<1>5. EpochsOK'
  BY <1>1, <1>3 DEF GInv, EpochsOK
<1>6. \A n \in Movers : Current(n)' = Current(n)
  BY <1>1, <1>3 DEF Current
<1>7. InFlight' = {}
  BY <1>1 DEF InFlight
<1> QED
  BY <1>1, <1>4, <1>5, <1>6, <1>7
  DEF GInv, OpsOK, OwnerOK, OneClientAtATime, QuietWhileMoving, WaitedForIsCanceled

\* A mover that ends without publishing leaves no epoch behind.
LEMMA MoveOverOK ==
  ASSUME GInv, NEW m \in Movers, moves' = [moves EXCEPT ![m] = NoMove],
         UNCHANGED <<active, state, retired, transitionEpoch, ops>>
  PROVE  GInv'
<1>1. moves'[m] = NoMove /\ \A n \in Movers \ {m} : moves'[n] = moves[n]
  BY DEF GInv, GateTypeOK
<1>2. GateTypeOK'
  BY DEF GInv, GateTypeOK, NoMove
<1>3. EpochsOK'
  BY <1>1 DEF GInv, GateTypeOK, EpochsOK, NoMove
<1>4. \A n \in Movers : Current(n)' => Current(n) /\ moves'[n] = moves[n]
  BY <1>1 DEF Current, NoMove
<1>5. InFlight' = InFlight
  BY DEF InFlight
<1> QED
  BY <1>2, <1>3, <1>4, <1>5
  DEF GInv, OpsOK, OwnerOK, OneClientAtATime, QuietWhileMoving, WaitedForIsCanceled

\* activateIfCurrent: the gate is empty when a client is published, and the one
\* mover that was current no longer is.
LEMMA ActivateOK ==
  ASSUME GInv, NEW m \in Movers, NEW kind \in {"ws", "pull"}, NEW c \in Clients,
         activateIfCurrent(m, kind, c)
  PROVE  GInv'
<1>1. CASE ~Current(m)
  BY <1>1, MoveOverOK DEF activateIfCurrent
<1>2. CASE Current(m)
  <2>1. /\ moves[m].step = "moving" /\ moves' = [moves EXCEPT ![m] = NoMove]
        /\ active' = c /\ state' = ActiveState(kind) /\ retired' = FALSE
        /\ ops' = CancelGeneration /\ UNCHANGED transitionEpoch
    BY <1>2 DEF activateIfCurrent
  <2>2. InFlight = {} /\ GateTypeOK
    BY <1>2, <2>1 DEF GInv, QuietWhileMoving
  <2>3. /\ ops' \in [Callers -> [client : Clients \cup {NoClient}, canceled : BOOLEAN]]
        /\ InFlight' = {}
    BY <2>1, <2>2, CanceledOps
  <2>4. state' \in States \ {"stopped"}
    BY <2>1 DEF ActiveState, States
  <2>5. moves'[m] = NoMove /\ \A n \in Movers \ {m} : moves'[n] = moves[n]
    BY <2>1, <2>2 DEF GateTypeOK
  <2>6. GateTypeOK'
    BY <2>1, <2>2, <2>3, <2>4 DEF GateTypeOK, NoMove
  <2>7. EpochsOK'
    BY <2>1, <2>2, <2>5 DEF GInv, GateTypeOK, EpochsOK, NoMove
  <2>8. \A n \in Movers : ~Current(n)'
    <3>1. moves[m].epoch = transitionEpoch /\ moves[m].epoch # 0
      BY <1>2 DEF Current
    <3>2. ASSUME NEW n \in Movers \ {m} PROVE moves[n].epoch # transitionEpoch
      BY <3>1 DEF GInv, EpochsOK
    <3> QED
      BY <2>1, <2>5, <3>2 DEF Current, NoMove
  <2> QED
    BY <2>1, <2>3, <2>4, <2>6, <2>7, <2>8
    DEF GInv, OpsOK, OwnerOK, OneClientAtATime, QuietWhileMoving, WaitedForIsCanceled
<1> QED
  BY <1>1, <1>2

\* Every step of the gate keeps the invariant.
LEMMA GateStep == GInv /\ [GateNext]_gateVars => GInv'
<1> SUFFICES ASSUME GInv, [GateNext]_gateVars PROVE GInv'
  OBVIOUS
<1>1. ASSUME NEW p \in Callers, begin(p) \/ done(p) PROVE GInv'
  BY <1>1, BeginOK, DoneOK
<1>2. ASSUME NEW s \in States \ {"stopped"}, setState(s) PROVE GInv'
  <2>1. /\ UNCHANGED <<active, retired, transitionEpoch, ops, moves>>
        /\ state' \in States /\ (state' = "stopped") = (state = "stopped")
    BY <1>2 DEF setState, GInv, GateTypeOK
  <2>2. retired' \in BOOLEAN
    BY <2>1 DEF GInv, GateTypeOK
  <2> QED
    BY <2>1, <2>2, QuietStepOK
<1>3. ASSUME NEW m \in Movers, NEW s \in States, beginTransition(m, s) PROVE GInv'
  BY <1>3, BeginTransitionOK
<1>4. ASSUME NEW m \in Movers, beginTransitionStopped(m) \/ awaitOperations(m) PROVE GInv'
  BY <1>4, BeginTransitionStoppedOK, AwaitOK
<1>5. ASSUME NEW m \in Movers, NEW kind \in {"ws", "pull"}, NEW c \in Clients,
             activateIfCurrent(m, kind, c)
      PROVE  GInv'
  BY <1>5, ActivateOK
<1>6. ASSUME NEW m \in Movers, giveUp(m) PROVE GInv'
  BY <1>6, MoveOverOK DEF giveUp
<1>7. ASSUME NEW c \in Clients, retireActive(c) \/ restoreActive(c) PROVE GInv'
  <2>1. UNCHANGED <<active, state, transitionEpoch, ops, moves>> /\ retired' \in BOOLEAN
    BY <1>7 DEF retireActive, restoreActive
  <2>2. state' \in States /\ (state' = "stopped") = (state = "stopped")
    BY <2>1 DEF GInv, GateTypeOK
  <2> QED
    BY <2>1, <2>2, QuietStepOK
<1>8. ASSUME UNCHANGED gateVars PROVE GInv'
  <2>1. UNCHANGED <<active, state, retired, transitionEpoch, ops, moves>>
    BY <1>8 DEF gateVars
  <2>2. state' \in States /\ retired' \in BOOLEAN /\ (state' = "stopped") = (state = "stopped")
    BY <2>1 DEF GInv, GateTypeOK
  <2> QED
    BY <2>1, <2>2, QuietStepOK
<1> QED
  BY <1>1, <1>2, <1>3, <1>4, <1>5, <1>6, <1>7, <1>8 DEF GateNext

-----------------------------------------------------------------------------
(* The theorems.                                                           *)

\* The inductive invariant of the gate (switchingRuntimeClient).
THEOREM GateInvariant == GateSpec => []GInv
  BY GateStarts, GateStep, PTL DEF GateSpec

\* No two operations run on different clients, whatever the number of callers,
\* movers and transitions.
THEOREM OneClient == GateSpec => []OneClientAtATime
<1>1. GInv => OneClientAtATime
  BY DEF GInv
<1> QED
  BY <1>1, GateInvariant, PTL

\* From the end of its wait until it publishes, the current transition is alone.
THEOREM TransitionIsAlone == GateSpec => []QuietWhileMoving
<1>1. GInv => QuietWhileMoving
  BY DEF GInv
<1> QED
  BY <1>1, GateInvariant, PTL

\* Whatever a transition waits for has been canceled.
THEOREM WaitsEnd == GateSpec => []WaitedForIsCanceled
<1>1. GInv => WaitedForIsCanceled
  BY DEF GInv
<1> QED
  BY <1>1, GateInvariant, PTL

\* After stop() nothing is published, by any transition.
THEOREM StopIsFinal == GateSpec => StoppedIsFinal
<1>1. ASSUME GInv, [GateNext]_gateVars, state = "stopped" PROVE state' = "stopped" /\ active' = NoClient
  <2>1. active = NoClient
    BY <1>1 DEF GInv, OwnerOK
  <2> QED
    BY <1>1, <2>1
    DEF GateNext, gateVars, begin, done, setState, beginTransition, beginTransitionStopped,
        awaitOperations, activateIfCurrent, Current, giveUp, retireActive, restoreActive
<1>2. GInv /\ [GateNext]_gateVars => [state = "stopped" => state' = "stopped" /\ active' = NoClient]_gateVars
  BY <1>1
<1> QED
  BY <1>2, GateInvariant, PTL DEF GateSpec, StoppedIsFinal
=============================================================================
