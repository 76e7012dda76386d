----------------------- MODULE RuntimeTransportProofs -----------------------
(***************************************************************************)
(* The transport uses its gate as the gate's specification says, moves no  *)
(* client it did not decide on, and rediscovers a policy once per change,  *)
(* for every set of loops, handlers, connections and policies.             *)
(***************************************************************************)
EXTENDS RuntimeTransport, TransportGateProofs

-----------------------------------------------------------------------------
(* The inductive invariant.                                                *)

SupLocs == {"snapshot", "watch", "probe", "probing", "wantMove"}
MainLocs == {"running", "waitExec", "stopGate", "stopping", "waitLoops"}
Locs == {"off", "idle", "call", "begin1", "in1", "begin2", "in2", "fail", "recover", "discover",
         "lockTransition", "moving", "retire", "closeRetired", "exited"} \cup SupLocs \cup MainLocs

SupGoals == {"toPull", "toWS", "reconnect"}
Late == {"resume", "await", "publish"}
JobType == [goal : {"none", "start", "recover"} \cup SupGoals,
            reconnect : BOOLEAN, target : {"ws", "pull"},
            stage : {"begin", "drain", "attach"} \cup Late,
            client : Clients \cup {NoClient}, waits : Handlers \cup {NoProc},
            deferred : BOOLEAN]

\* The types; the policies the worker has read and applied allow its mode.
TypesOK ==
  /\ pc \in [Procs -> Locs] /\ job \in [Procs -> JobType] /\ seen \in [Procs -> Nat]
  /\ conn \in [Conns -> {"open", "lost", "policy", "closed"}]
  /\ watched \in Clients \cup {NoClient}
  /\ policyMu \in Procs \cup {NoProc} /\ transMu \in Procs \cup {NoProc}
  /\ policyRevision \in Nat /\ policyTerminal \in BOOLEAN /\ rediscovered \in Nat
  /\ resumed \in BOOLEAN
  /\ core \in 1..Len(Policies) /\ order \in 1..core /\ read \in 1..core
  /\ runtimeTransportOrder(order) # << >> /\ runtimeTransportOrder(read) # << >>

\* What a process may be doing, and with which client.
RoleOK(p) ==
  /\ pc[p] = "moving" => job[p].goal # "none"
  /\ job[p].goal = "start" => p = Main /\ phase = "attach" /\ pc[p] = "moving"
  /\ job[p].goal \in SupGoals => p = Sup /\ pc[p] \in {"wantMove", "moving"}
  /\ pc[p] = "wantMove" => job[p].goal \in SupGoals /\ job[p].stage = "begin"
  /\ pc[p] = "moving" /\ job[p].stage \in Late => job[p].client \in Clients
  /\ pc[p] = "closeRetired" => job[p].client \in Conns
  /\ phase \in {"attach", "resume"} /\ p # Main => pc[p] = "off"

\* policyRecoveryMu is held from the start of a rediscovery to the end of the
\* transition it makes; transportTransitionMu during every transition.
Recovering(p) == pc[p] \in {"discover", "lockTransition"} \/ (pc[p] = "moving" /\ job[p].goal = "recover")
LockOK(p) == (pc[p] = "moving" <=> transMu = p) /\ (Recovering(p) <=> policyMu = p)

\* While policyRecoveryMu is held, every process has observed an older revision.
SeenOK(p) == seen[p] <= policyRevision /\ (policyMu # NoProc => seen[p] < policyRevision)

\* What the supervisor decided on is still so, if its revision is.
WatchOK ==
  /\ pc[Sup] \in {"watch", "probe", "probing", "wantMove"} /\ seen[Sup] = policyRevision =>
       state = "stopped" \/ active = watched
  /\ NoStaleTransition

\* A rediscovery is counted in the policy that it has read or applied.
CountOK ==
  /\ \A p \in Procs : pc[p] = "lockTransition" => rediscovered < read
  /\ (\A p \in Procs : pc[p] # "lockTransition") => rediscovered < order

\* Whoever may consume the current revision, now or after the signal of a
\* connection it uses, is behind OpenLinker.
Signalled(c) == c \in Conns /\ conn[c] = "policy"
Observer(p) == seen[p] = policyRevision /\ ~policyTerminal
Behind == order < core
SignalOK ==
  /\ policyMu = NoProc /\ ~policyTerminal /\ Signalled(active) => Behind
  /\ pc[Sup] = "watch" /\ Observer(Sup) /\ Signalled(watched) => Behind
  /\ \A p \in Procs : pc[p] = "discover" => Behind
  /\ \A p \in Procs : pc[p] = "recover" /\ Observer(p) => Behind
  /\ \A p \in Callers : pc[p] = "in1" /\ Observer(p) /\ Signalled(ops[p].client) => Behind
  /\ \A p \in Procs : pc[p] = "moving" /\ job[p].stage \in Late /\ Signalled(job[p].client) => Behind

\* The inductive invariant, together with the gate's.
TInv ==
  /\ TypesOK
  /\ \A p \in Procs : RoleOK(p) /\ LockOK(p) /\ SeenOK(p)
  /\ WatchOK
  /\ CountOK
  /\ SignalOK

-----------------------------------------------------------------------------
(* Where control comes to rest.                                            *)

\* The places that hold no lock and remember no connection.
Woken == {"idle", "snapshot", "exited"}
Rest == Woken \cup MainLocs \cup {"call", "begin1", "begin2", "in2", "fail", "retire"}
Starting == {"attach", "resume"}

\* p comes to rest; the others stay where they are, or are started.
Rests(p) ==
  /\ pc' \in [Procs -> Locs] /\ pc'[p] \in Rest \cup {"recover", "closeRetired"}
  /\ \A q \in Procs \ {p} : pc'[q] = pc[q] \/ (pc[q] = "off" /\ pc'[q] \in Woken)
  /\ phase' \in Starting => phase \in Starting /\ \A q \in Procs \ {p} : pc'[q] = pc[q]
  /\ resumed' \in {resumed, TRUE}

RestsPlain(p) == Rests(p) /\ pc'[p] \in Rest

\* A single process goes to a resting place.
LEMMA GotoRests ==
  ASSUME TypesOK, NEW p \in Procs, NEW l \in Rest \cup {"recover", "closeRetired"}, Goto(p, l),
         phase' \in Starting => phase \in Starting, resumed' = resumed
  PROVE  Rests(p) /\ pc'[p] = l /\ (l \in Rest => RestsPlain(p))
<1>1. Rest \cup {"recover", "closeRetired"} \subseteq Locs
  BY Zenon DEF Rest, Woken, MainLocs, SupLocs, Locs
<1>2. pc' = [pc EXCEPT ![p] = l] /\ pc \in [Procs -> Locs]
  BY Zenon DEF Goto, TypesOK
<1>3. pc' \in [Procs -> Locs] /\ pc'[p] = l /\ \A q \in Procs \ {p} : pc'[q] = pc[q]
  BY Zenon, <1>1, <1>2
<1> QED
  BY Zenon, <1>3 DEF Rests, RestsPlain

\* Start and the supervisor are two of the processes.
LEMMA MainIsProc == Main \in Procs /\ Sup \in Procs /\ Main # Sup /\ Callers \subseteq Procs
  BY Zenon, TransportAssumption DEF Procs

\* EnterShutdown leaves Start at its farewell heartbeat.
LEMMA ShutdownRests == ASSUME TypesOK, EnterShutdown PROVE RestsPlain(Main)
<1>1. Goto(Main, "call") /\ phase' = "stopping" /\ UNCHANGED resumed /\ "call" \in Rest
  BY Zenon DEF EnterShutdown, Rest
<1> QED
  BY Zenon, <1>1, GotoRests, MainIsProc DEF Starting

\* The processes that EnterRunning starts were off.
LEMMA RunningRests ==
  ASSUME TypesOK, \A q \in Procs \ {Main} : pc[q] = "off", EnterRunning
  PROVE  RestsPlain(Main)
<1>1. /\ phase' = "running" /\ resumed' = TRUE
      /\ pc' = [p \in Procs |-> CASE p = Main -> "running"
                                  [] p = Sup -> IF Mode = "pull" THEN "exited" ELSE "snapshot"
                                  [] OTHER -> "idle"]
  BY Zenon DEF EnterRunning
<1>2. pc'[Main] = "running"
  BY Zenon, <1>1, MainIsProc
<1>3. \A q \in Procs \ {Main} : pc'[q] \in Woken
  BY Zenon, <1>1, MainIsProc DEF Woken
<1>4. "running" \in Rest /\ Woken \subseteq Locs /\ "running" \in Locs
  BY Zenon DEF Rest, MainLocs, Woken, Locs, SupLocs
<1>5. pc' \in [Procs -> Locs]
  <2>1. \A q \in Procs : pc'[q] \in Locs
    BY Zenon, <1>2, <1>3, <1>4
  <2> QED
    BY Zenon, <1>1, <2>1
<1> QED
  BY Zenon, <1>1, <1>2, <1>3, <1>4, <1>5 DEF Rests, RestsPlain, Starting

\* policyRecoveringRuntimeClient.call returns to its caller.
LEMMA ReturnedRests ==
  ASSUME TypesOK, \A q \in Procs : RoleOK(q), NEW p \in Callers, NEW r, Returned(p, r)
  PROVE  RestsPlain(p)
<1>1. p \in Procs /\ p # Sup
  BY Zenon, MainIsProc, TransportAssumption
<1>2. {"exited", "retire", "idle", "call", "waitExec"} \subseteq Rest
  BY Zenon DEF Rest, Woken, MainLocs
<1>3. CASE p \in Loops
  <2>1. \/ Goto(p, "exited") /\ UNCHANGED <<phase, resumed>>
        \/ Goto(p, "retire") /\ UNCHANGED <<phase, resumed>>
        \/ Goto(p, "idle") /\ UNCHANGED <<phase, resumed>>
    BY Zenon, <1>3, TransportAssumption DEF Returned, reportFatal, lifeVars
  <2> QED
    BY Zenon, <1>1, <1>2, <2>1, GotoRests
<1>4. CASE p \in Handlers
  <2>1. \/ Goto(p, "exited") /\ UNCHANGED <<phase, resumed>>
        \/ Goto(p, "retire") /\ UNCHANGED <<phase, resumed>>
        \/ Goto(p, "idle") /\ UNCHANGED <<phase, resumed>>
    BY Zenon, <1>4, TransportAssumption DEF Returned, reportFatal, lifeVars
  <2> QED
    BY Zenon, <1>1, <1>2, <2>1, GotoRests
<1>5. CASE p = Main
  <2>1. CASE phase = "resume"
    <3>1. \A q \in Procs \ {Main} : pc[q] = "off"
      BY Zenon, <2>1 DEF RoleOK
    <3>2. EnterRunning \/ EnterShutdown \/ (Goto(Main, "call") /\ UNCHANGED <<phase, resumed>>)
      BY Zenon, <1>5, <2>1, TransportAssumption DEF Returned, lifeVars
    <3> QED
      BY Zenon, <1>1, <1>2, <1>5, <3>1, <3>2, RunningRests, ShutdownRests, GotoRests
  <2>2. CASE phase # "resume"
    <3>1. Goto(Main, "waitExec") /\ phase' = "waitExec" /\ UNCHANGED resumed
      BY Zenon, <1>5, <2>2, TransportAssumption DEF Returned
    <3> QED
      BY Zenon, <1>1, <1>2, <1>5, <3>1, GotoRests DEF Starting
  <2> QED
    BY Zenon, <2>1, <2>2
<1> QED
  BY Zenon, <1>3, <1>4, <1>5, TransportAssumption

\* The supervisor that ends has exited.
LEMMA SupEndsRests == ASSUME TypesOK, SupEnds PROVE RestsPlain(Sup)
<1>1. Goto(Sup, "exited") /\ UNCHANGED <<phase, resumed>>
  BY Zenon DEF SupEnds, reportFatal, lifeVars
<1>2. "exited" \in Rest
  BY Zenon DEF Rest, Woken
<1> QED
  BY Zenon, <1>1, <1>2, MainIsProc, GotoRests

\* recoverRuntimePolicy returns to whoever called it.
LEMMA RecoveredRests ==
  ASSUME TypesOK, \A q \in Procs : RoleOK(q), NEW p \in Procs, NEW ok, Recovered(p, ok)
  PROVE  RestsPlain(p)
<1>1. {"snapshot", "call", "begin2"} \subseteq Rest
  BY Zenon DEF Rest, Woken
<1>2. CASE p = Sup
  <2>1. (Goto(Sup, "snapshot") /\ UNCHANGED <<phase, resumed>>) \/ SupEnds
    BY Zenon, <1>2, MainIsProc DEF Recovered, lifeVars
  <2> QED
    BY Zenon, <1>1, <1>2, <2>1, GotoRests, SupEndsRests
<1>3. CASE p # Sup /\ p = Main /\ phase = "attach"
  <2>1. (Goto(Main, "call") /\ phase' = "resume" /\ UNCHANGED resumed) \/ EnterShutdown
    BY Zenon, <1>3 DEF Recovered
  <2> QED
    BY Zenon, <1>1, <1>3, <2>1, GotoRests, ShutdownRests DEF Starting
<1>4. CASE p # Sup /\ ~(p = Main /\ phase = "attach")
  <2>1. p \in Callers
    BY Zenon, <1>4 DEF Procs
  <2>2. (Goto(p, "begin2") /\ UNCHANGED <<phase, resumed>>) \/ Returned(p, "fatal")
    BY Zenon, <1>4 DEF Recovered, lifeVars
  <2> QED
    BY Zenon, <1>1, <2>1, <2>2, GotoRests, ReturnedRests
<1> QED
  BY Zenon, <1>2, <1>3, <1>4

-----------------------------------------------------------------------------
(* A process comes to rest.                                                *)

NoNewSignal ==
  /\ conn' \in [Conns -> {"open", "lost", "policy", "closed"}]
  /\ \A c \in Conns : conn'[c] = "policy" => conn[c] = "policy"

\* p gives back the locks it holds, and leaves a signal only to who is behind.
Settles(p) ==
  /\ pc[p] \notin {"off", "lockTransition"} /\ Rests(p)
  /\ job' \in [Procs -> JobType] /\ \A q \in Procs \ {p} : job'[q] = job[q]
  /\ job'[p].goal \notin SupGoals \cup {"start"}
  /\ pc'[p] = "closeRetired" => job'[p].client \in Conns
  /\ transMu' = IF pc[p] = "moving" THEN NoProc ELSE transMu
  /\ policyMu' = IF Recovering(p) THEN NoProc ELSE policyMu
  /\ UNCHANGED <<order, read, core, rediscovered, policyRevision>>
  /\ policyTerminal' \in BOOLEAN /\ (policyTerminal => policyTerminal')
  /\ seen' = seen \/ (policyMu = NoProc /\ seen' = [seen EXCEPT ![p] = policyRevision])
  /\ NoNewSignal
  /\ watched' \in Clients \cup {NoClient} /\ (p # Sup => watched' = watched)
  /\ \A q \in Callers \ {p} : ops'[q].client = ops[q].client
  /\ pc[p] # "moving" => state' = "stopped" \/ (active' = active /\ (state = "stopped" => state' = "stopped"))
  /\ pc'[p] = "recover" /\ Observer(p)' => Behind
  /\ policyMu' = NoProc /\ ~policyTerminal' /\ Signalled(active)' => Behind

\* Only the holder of transportTransitionMu moves; another mover than the
\* supervisor recovers, or starts while the supervisor is off.
LEMMA MoverKinds ==
  ASSUME TInv, NEW p \in Procs, pc[p] = "moving", p # Sup
  PROVE  seen[Sup] # policyRevision \/ pc[Sup] = "off"
<1>1. job[p].goal \in {"none", "start", "recover"} \cup SupGoals
  BY DEF TInv, TypesOK, JobType
<1>2. CASE job[p].goal = "recover"
  <2>1. policyMu = p /\ p # NoProc
    BY Zenon, <1>2, TransportAssumption DEF TInv, LockOK, Recovering
  <2>2. seen[Sup] < policyRevision /\ seen[Sup] \in Nat /\ policyRevision \in Nat
    BY Zenon, <2>1, MainIsProc DEF TInv, SeenOK, TypesOK
  <2> QED
    BY <2>2
<1>3. CASE job[p].goal = "start"
  BY Zenon, <1>3, MainIsProc DEF TInv, RoleOK
<1> QED
  BY Zenon, <1>1, <1>2, <1>3 DEF TInv, RoleOK

\* A process that settles keeps the invariant.
LEMMA SettlesOK == ASSUME TInv, NEW p \in Procs, Settles(p) PROVE TInv'
<1>1. TypesOK'
  <2>1. seen' \in [Procs -> Nat]
    BY Zenon DEF TInv, TypesOK, Settles
  <2>2. policyMu' \in Procs \cup {NoProc} /\ transMu' \in Procs \cup {NoProc}
    BY Zenon DEF TInv, TypesOK, Settles
  <2>3. runtimeTransportOrder(order)' = runtimeTransportOrder(order)
    BY Zenon DEF Settles, runtimeTransportOrder
  <2>4. runtimeTransportOrder(read)' = runtimeTransportOrder(read)
    BY Zenon DEF Settles, runtimeTransportOrder
  <2>5. resumed' \in BOOLEAN
    BY Zenon DEF TInv, TypesOK, Settles, Rests
  <2> QED
    BY Zenon, <2>1, <2>2, <2>3, <2>4, <2>5 DEF TInv, TypesOK, Settles, Rests, NoNewSignal
<1>2. pc'[p] \notin {"moving", "discover", "lockTransition", "wantMove", "off", "in1", "watch", "probe", "probing"}
  BY Zenon DEF Settles, Rests, Rest, Woken, MainLocs
<1>3. \A q \in Procs \ {p} :
        pc'[q] = pc[q] \/ (pc[q] = "off" /\ pc'[q] \in {"idle", "snapshot", "exited"})
  BY Zenon DEF Settles, Rests, Woken
<1>4. \A q \in Procs \ {p} : job'[q] = job[q] /\ seen'[q] = seen[q]
  BY Zenon DEF Settles, TInv, TypesOK
<1>5. ASSUME NEW q \in Procs PROVE RoleOK(q)'
  <2>1. RoleOK(q) /\ RoleOK(p) /\ pc[p] # "off"
    BY Zenon DEF TInv, Settles
  <2>2. CASE q = p
    BY Zenon, <1>2, <2>1, <2>2 DEF RoleOK, Settles, Rests, Starting
  <2>3. CASE q # p
    <3>1. phase' \in Starting => phase \in Starting /\ pc'[q] = pc[q]
      BY Zenon, <2>3 DEF Settles, Rests
    <3>2. p # Main => phase \notin Starting
      BY Zenon, <2>1 DEF RoleOK, Starting
    <3>3. job[q].goal = "start" => FALSE
      BY Zenon, <2>1, <2>3, <3>2 DEF RoleOK, Starting
    <3> QED
      BY Zenon, <1>3, <1>4, <2>1, <2>3, <3>1, <3>3 DEF RoleOK, Starting
  <2> QED
    BY Zenon, <2>2, <2>3
<1>6. ASSUME NEW q \in Procs PROVE LockOK(q)'
  <2>1. LockOK(q) /\ LockOK(p) /\ NoProc \notin Procs
    BY Zenon, TransportAssumption DEF TInv
  <2>2. CASE q = p
    BY Zenon, <1>2, <2>1, <2>2 DEF LockOK, Recovering, Settles
  <2>3. CASE q # p
    <3>1. (transMu' = q <=> transMu = q) /\ (policyMu' = q <=> policyMu = q)
      BY Zenon, <2>1, <2>3 DEF LockOK, Settles
    <3> QED
      BY Zenon, <1>3, <1>4, <2>1, <2>3, <3>1 DEF LockOK, Recovering
  <2> QED
    BY Zenon, <2>2, <2>3
<1>7. ASSUME NEW q \in Procs PROVE SeenOK(q)'
  <2>1. SeenOK(q) /\ policyRevision \in Nat
    BY Zenon DEF TInv, TypesOK
  <2>2. policyRevision' = policyRevision /\ (policyMu' # NoProc => policyMu # NoProc)
    BY Zenon DEF Settles
  <2>3. CASE seen'[q] = seen[q]
    BY Zenon, <2>1, <2>2, <2>3 DEF SeenOK
  <2>4. CASE seen'[q] # seen[q]
    <3>1. policyMu = NoProc /\ seen'[q] = policyRevision
      BY Zenon, <1>4, <2>4 DEF Settles, TInv, TypesOK
    <3>2. policyRevision <= policyRevision
      BY <2>1
    <3> QED
      BY Zenon, <2>2, <3>1, <3>2 DEF SeenOK
  <2> QED
    BY Zenon, <2>3, <2>4
<1>8. WatchOK'
  <2>1. CASE p = Sup
    BY Zenon, <1>2, <2>1 DEF WatchOK, NoStaleTransition
  <2>2. CASE p # Sup /\ pc[p] = "moving"
    <3>1. pc'[Sup] # "moving"
      BY Zenon, <1>2, <1>3, <2>2, MainIsProc DEF TInv, LockOK
    <3>2. seen[Sup] # policyRevision \/ pc'[Sup] \notin {"watch", "probe", "probing", "wantMove"}
      BY Zenon, <1>3, <2>2, MainIsProc, MoverKinds
    <3> QED
      BY Zenon, <1>4, <2>2, <3>1, <3>2, MainIsProc DEF WatchOK, NoStaleTransition, Settles
  <2>3. CASE p # Sup /\ pc[p] # "moving"
    <3>1. state' = "stopped" \/ (active' = active /\ (state = "stopped" => state' = "stopped"))
      BY Zenon, <2>3 DEF Settles
    <3>2. /\ pc'[Sup] = pc[Sup] \/ pc'[Sup] \in {"idle", "snapshot", "exited"}
          /\ job'[Sup] = job[Sup] /\ seen'[Sup] = seen[Sup] /\ watched' = watched
          /\ policyRevision' = policyRevision
      BY Zenon, <1>3, <1>4, <2>3, MainIsProc DEF Settles
    <3> QED
      BY Zenon, <3>1, <3>2 DEF TInv, WatchOK, NoStaleTransition
  <2> QED
    BY Zenon, <2>1, <2>2, <2>3
<1>9. CountOK'
  <2>1. \A q \in Procs : pc'[q] = "lockTransition" <=> pc[q] = "lockTransition"
    BY Zenon, <1>2, <1>3 DEF Settles
  <2> QED
    BY Zenon, <2>1 DEF TInv, CountOK, Settles
<1>10. SignalOK'
  <2>1. Behind' = Behind /\ \A c : Signalled(c)' => Signalled(c)
    BY Zenon DEF Settles, Behind, Signalled, NoNewSignal
  <2>2. \A q \in Procs \ {p} : Observer(q)' => Observer(q)
    BY Zenon, <1>4 DEF Observer, Settles
  <2>3. policyMu' = NoProc /\ ~policyTerminal' /\ Signalled(active)' => Behind'
    BY Zenon, <2>1 DEF Settles
  <2>4. pc'[Sup] = "watch" /\ Observer(Sup)' /\ Signalled(watched)' => Behind'
    <3>1. CASE p = Sup
      BY Zenon, <1>2, <3>1
    <3>2. CASE p # Sup
      <4>1. pc'[Sup] = "watch" => pc[Sup] = "watch"
        BY Zenon, <1>3, <3>2, MainIsProc
      <4>2. watched' = watched
        BY Zenon, <3>2 DEF Settles
      <4>3. Signalled(watched)' => Signalled(watched)
        BY Zenon, <2>1, <4>2 DEF Signalled, Settles, NoNewSignal
      <4> QED
        BY Zenon, <2>1, <2>2, <3>2, <4>1, <4>3, MainIsProc DEF TInv, SignalOK
    <3> QED
      BY Zenon, <3>1, <3>2
  <2>5. \A q \in Procs : pc'[q] = "discover" => Behind'
    BY Zenon, <1>2, <1>3, <2>1 DEF TInv, SignalOK
  <2>6. \A q \in Procs : pc'[q] = "recover" /\ Observer(q)' => Behind'
    BY Zenon, <1>3, <2>1, <2>2 DEF TInv, SignalOK, Settles
  <2>7. ASSUME NEW q \in Callers, pc'[q] = "in1", Observer(q)', Signalled(ops[q].client)'
        PROVE  Behind'
    <3>1. q \in Procs \ {p} /\ pc[q] = "in1" /\ Observer(q)
      BY Zenon, <1>2, <1>3, <2>2, <2>7, MainIsProc
    <3>2. ops'[q].client = ops[q].client
      BY Zenon, <2>7, <3>1 DEF Settles
    <3>3. Signalled(ops[q].client)
      BY Zenon, <2>7, <3>2 DEF Signalled, Settles, NoNewSignal
    <3> QED
      BY Zenon, <2>1, <2>7, <3>1, <3>3 DEF TInv, SignalOK
  <2>8. ASSUME NEW q \in Procs, pc'[q] = "moving", job'[q].stage \in Late, Signalled(job[q].client)'
        PROVE  Behind'
    <3>1. q # p /\ pc[q] = "moving" /\ job'[q] = job[q]
      BY Zenon, <1>2, <1>3, <1>4, <2>8
    <3>2. Signalled(job[q].client)
      BY Zenon, <2>8, <3>1 DEF Signalled, Settles, NoNewSignal
    <3> QED
      BY Zenon, <2>1, <2>8, <3>1, <3>2 DEF TInv, SignalOK
  <2> QED
    BY Zenon, <2>3, <2>4, <2>5, <2>6, <2>7, <2>8 DEF SignalOK
<1> QED
  BY Zenon, <1>1, <1>5, <1>6, <1>7, <1>8, <1>9, <1>10 DEF TInv

\* The common case: p holds no lock, and the policy stays as it is.
LEMMA RestOK ==
  ASSUME TInv, NEW p \in Procs,
         pc[p] \notin {"off", "moving", "discover", "lockTransition"}, Rests(p),
         job' \in [Procs -> JobType], \A q \in Procs \ {p} : job'[q] = job[q],
         job'[p].goal \notin SupGoals \cup {"start"},
         pc'[p] = "closeRetired" => job'[p].client \in Conns,
         UNCHANGED <<transMu, policyMu, order, read, core, rediscovered, policyRevision, seen>>,
         policyTerminal' \in BOOLEAN, policyTerminal => policyTerminal',
         NoNewSignal,
         watched' \in Clients \cup {NoClient}, p # Sup => watched' = watched,
         \A q \in Callers \ {p} : ops'[q].client = ops[q].client,
         \/ state' = "stopped" /\ active' = NoClient
         \/ active' = active /\ (state = "stopped" => state' = "stopped"),
         pc'[p] = "recover" /\ Observer(p)' => Behind
  PROVE  TInv'
<1>1. ~Recovering(p)
  BY Zenon DEF Recovering
<1>2. policyMu' = NoProc /\ ~policyTerminal' /\ Signalled(active)' => Behind
  <2>1. NoClient \notin Conns
    BY Zenon, TransportAssumption, GateAssumption
  <2>2. Signalled(active)' => Signalled(active)
    BY Zenon, <2>1 DEF Signalled, NoNewSignal
  <2> QED
    BY Zenon, <2>2 DEF TInv, SignalOK
<1>3. Settles(p)
  BY Zenon, <1>1, <1>2 DEF Settles
<1> QED
  BY Zenon, <1>3, SettlesOK

\* A process that is not running a transition has no goal that it could lose.
LEMMA IdleJob ==
  ASSUME TInv, NEW p \in Procs, pc[p] \notin {"moving", "wantMove"}
  PROVE  job[p].goal \notin SupGoals \cup {"start"}
  BY Zenon DEF TInv, RoleOK

\* ... and, if the gate, the connections and the jobs stay too.
LEMMA StayOK ==
  ASSUME TInv, NEW p \in Procs,
         pc[p] \notin {"off", "moving", "discover", "lockTransition", "wantMove"}, RestsPlain(p),
         UNCHANGED <<transMu, policyMu, order, read, core, rediscovered, policyRevision, seen,
                     policyTerminal, conn, watched, job, active, state>>,
         \A q \in Callers \ {p} : ops'[q].client = ops[q].client
  PROVE  TInv'
<1>1. job[p].goal \notin SupGoals \cup {"start"}
  BY Zenon, IdleJob
<1>2. NoNewSignal /\ job' \in [Procs -> JobType] /\ policyTerminal' \in BOOLEAN
      /\ watched' \in Clients \cup {NoClient}
  BY Zenon DEF NoNewSignal, TInv, TypesOK
<1>3. Rests(p) /\ pc'[p] \notin {"recover", "closeRetired"}
  BY Zenon DEF RestsPlain, Rest, Woken, MainLocs
<1> QED
  BY Zenon, <1>1, <1>2, <1>3, RestOK

-----------------------------------------------------------------------------
(* Calls.                                                                  *)

\* An operation that ends leaves the others on their clients.
LEMMA OthersCall ==
  ASSUME GInv, NEW p \in Callers, done(p)
  PROVE  \A q \in Callers \ {p} : ops'[q].client = ops[q].client
  BY Zenon DEF GInv, GateTypeOK, done

\* A call begins, and observes the revision of the policy.
LEMMA CallStepOK ==
  ASSUME TInv, GInv, NEW p \in Callers, StartCall(p) \/ policyRecoverySnapshot(p)
  PROVE  TInv'
<1>1. p \in Procs /\ p # Sup /\ TypesOK /\ \A q \in Procs : RoleOK(q)
  BY Zenon, MainIsProc, TransportAssumption DEF TInv
<1>2. {"call", "begin1"} \subseteq Rest
  BY Zenon DEF Rest
<1>3. CASE StartCall(p)
  <2>1. RestsPlain(p)
    BY Zenon, <1>1, <1>2, <1>3, GotoRests DEF StartCall, lifeVars
  <2> QED
    BY Zenon, <1>1, <1>3, <2>1, StayOK DEF StartCall, NotCalling, policyVars, envVars, gateVars
<1>4. CASE policyRecoverySnapshot(p) /\ policyTerminal
  <2>1. RestsPlain(p) /\ pc[p] = "call"
    BY Zenon, <1>1, <1>4, ReturnedRests DEF policyRecoverySnapshot
  <2> QED
    BY Zenon, <1>1, <1>4, <2>1, StayOK
    DEF policyRecoverySnapshot, NotCalling, policyVars, envVars, gateVars
<1>5. CASE policyRecoverySnapshot(p) /\ ~policyTerminal
  <2>1. /\ pc[p] = "call" /\ policyMu = NoProc /\ Goto(p, "begin1") /\ UNCHANGED <<phase, resumed>>
        /\ seen' = [seen EXCEPT ![p] = policyRevision]
        /\ UNCHANGED <<transMu, policyMu, order, read, core, rediscovered, policyRevision,
                       policyTerminal, conn, watched, job, active, state, ops>>
    BY Zenon, <1>5
    DEF policyRecoverySnapshot, NotCalling, policyVars, envVars, gateVars, lifeVars
  <2>2. Rests(p) /\ pc'[p] = "begin1"
    BY Zenon, <1>1, <1>2, <2>1, GotoRests
  <2>3. job[p].goal \notin SupGoals \cup {"start"}
    BY Zenon, <1>1, <2>1, IdleJob
  <2>4. NoNewSignal /\ job' \in [Procs -> JobType] /\ policyTerminal' \in BOOLEAN
        /\ watched' \in Clients \cup {NoClient}
    BY Zenon, <2>1 DEF NoNewSignal, TInv, TypesOK
  <2>5. policyMu' = NoProc /\ ~policyTerminal' /\ Signalled(active)' => Behind
    BY Zenon, <2>1 DEF TInv, SignalOK, Signalled
  <2>6. Settles(p)
    BY Zenon, <2>1, <2>2, <2>3, <2>4, <2>5 DEF Settles, Recovering
  <2> QED
    BY Zenon, <1>1, <2>6, SettlesOK
<1> QED
  BY Zenon, <1>3, <1>4, <1>5

\* Whoever sees that the policies differ is behind.
LEMMA StaleIsBehind == ASSUME TInv, Stale PROVE Behind
<1>1. core \in Nat /\ order \in 1..core /\ order # core
  BY DEF TInv, TypesOK, Stale
<1> QED
  BY <1>1 DEF Behind

\* begin on the active client: its signal, if it has one, is a new one, unless
\* the revision has been consumed.
LEMMA beginOperationOK == ASSUME TInv, GInv, NEW p \in Callers, beginOperation(p) PROVE TInv'
<1>1. p \in Procs /\ p # Sup /\ TypesOK /\ \A q \in Procs : RoleOK(q)
  BY Zenon, MainIsProc, TransportAssumption DEF TInv
<1>2. /\ pc[p] \in {"begin1", "begin2"}
      /\ UNCHANGED <<transMu, policyMu, order, read, core, rediscovered, policyRevision,
                     policyTerminal, conn, watched, job, active, state, seen>>
  BY Zenon DEF beginOperation, NotCalling, policyVars, envVars, gateVars, begin
<1>3. CASE ~CanBegin /\ Returned(p, "retry") /\ UNCHANGED gateVars
  <2>1. RestsPlain(p)
    BY Zenon, <1>1, <1>3, ReturnedRests
  <2> QED
    BY Zenon, <1>1, <1>2, <1>3, <2>1, StayOK DEF gateVars
<1>4. CASE begin(p) /\ Goto(p, IF pc[p] = "begin1" THEN "in1" ELSE "in2") /\ UNCHANGED lifeVars
  <2>1. /\ ops'[p].client = active /\ \A q \in Callers \ {p} : ops'[q] = ops[q]
        /\ phase' = phase /\ resumed' = resumed
    BY Zenon, <1>4 DEF begin, GInv, GateTypeOK, lifeVars
  <2>2. CASE pc[p] = "begin2"
    <3>1. Goto(p, "in2") /\ "in2" \in Rest
      BY Zenon, <1>4, <2>2 DEF Rest
    <3>2. RestsPlain(p)
      BY Zenon, <1>1, <2>1, <3>1, GotoRests
    <3> QED
      BY Zenon, <1>1, <1>2, <2>1, <3>2, StayOK
  <2>3. CASE pc[p] = "begin1"
    <3>1. pc' = [pc EXCEPT ![p] = "in1"] /\ "in1" \in Locs
      BY Zenon, <1>4, <2>3 DEF Goto, Locs
    <3>2. pc' \in [Procs -> Locs] /\ pc'[p] = "in1" /\ \A q \in Procs \ {p} : pc'[q] = pc[q]
      BY Zenon, <1>1, <3>1 DEF TypesOK
    <3>3. TypesOK'
      BY Zenon, <1>1, <1>2, <2>1, <3>2 DEF TypesOK, runtimeTransportOrder
    <3>4. ASSUME NEW q \in Procs PROVE RoleOK(q)' /\ LockOK(q)' /\ SeenOK(q)'
      <4>1. RoleOK(q) /\ LockOK(q) /\ SeenOK(q)
        BY Zenon DEF TInv
      <4>2. SeenOK(q)'
        BY Zenon, <1>2, <4>1 DEF SeenOK
      <4>3. CASE q # p
        BY Zenon, <1>2, <2>1, <3>2, <4>1, <4>2, <4>3 DEF RoleOK, LockOK, Recovering
      <4>4. CASE q = p
        BY Zenon, <1>2, <2>1, <2>3, <3>2, <4>1, <4>2, <4>4 DEF RoleOK, LockOK, Recovering
      <4> QED
        BY Zenon, <4>3, <4>4
    <3>5. WatchOK' /\ CountOK'
      BY Zenon, <1>1, <1>2, <2>3, <3>2, MainIsProc DEF TInv, WatchOK, NoStaleTransition, CountOK
    <3>6. SignalOK'
      <4>1. \A c : Signalled(c)' <=> Signalled(c)
        BY Zenon, <1>2 DEF Signalled
      <4>2. \A q \in Procs : Observer(q)' <=> Observer(q)
        BY Zenon, <1>2 DEF Observer
      <4>3. Behind' <=> Behind
        BY Zenon, <1>2 DEF Behind
      <4>4. Observer(p) /\ Signalled(active) => Behind
        <5>1. Observer(p) => policyMu = NoProc
          <6>1. SeenOK(p) /\ seen[p] \in Nat
            BY Zenon, <1>1 DEF TInv, TypesOK
          <6> QED
            BY <6>1 DEF SeenOK, Observer
        <5> QED
          BY Zenon, <5>1 DEF TInv, SignalOK, Observer
      <4>5. \A q \in Callers : pc'[q] = "in1" /\ Observer(q)' /\ Signalled(ops[q].client)' => Behind'
        <5>1. SUFFICES ASSUME NEW q \in Callers, pc'[q] = "in1", Observer(q)', Signalled(ops[q].client)'
                       PROVE  Behind
          BY Zenon, <4>3
        <5>2. q \in Procs /\ Observer(q)
          BY Zenon, <4>2, <5>1, MainIsProc
        <5>3. CASE q = p
          BY Zenon, <1>2, <2>1, <4>4, <5>1, <5>2, <5>3 DEF Signalled
        <5>4. CASE q # p
          <6>1. pc[q] = "in1" /\ Signalled(ops[q].client)
            BY Zenon, <1>2, <2>1, <3>2, <5>1, <5>2, <5>4 DEF Signalled
          <6> QED
            BY Zenon, <5>1, <5>2, <6>1 DEF TInv, SignalOK
        <5> QED
          BY Zenon, <5>3, <5>4
      <4>6. \A q \in Procs : pc'[q] \in {"discover", "recover", "moving", "watch"} => pc'[q] = pc[q]
        BY Zenon, <3>2
      <4> QED
        BY Zenon, <1>1, <1>2, <3>2, <4>1, <4>2, <4>3, <4>5, <4>6, MainIsProc
        DEF TInv, SignalOK, Signalled, Observer, Behind
    <3> QED
      BY Zenon, <3>3, <3>4, <3>5, <3>6 DEF TInv
  <2> QED
    BY Zenon, <1>2, <2>2, <2>3
<1> QED
  BY Zenon, <1>3, <1>4 DEF beginOperation

\* The end of an operation: a signal sends its caller to the recovery.
LEMMA endOperationOK == ASSUME TInv, GInv, NEW p \in Callers, endOperation(p) PROVE TInv'
<1>1. p \in Procs /\ p # Sup /\ TypesOK /\ \A q \in Procs : RoleOK(q)
  BY Zenon, MainIsProc, TransportAssumption DEF TInv
<1>2. /\ pc[p] \in {"in1", "in2"} /\ done(p)
      /\ UNCHANGED <<transMu, policyMu, order, read, core, rediscovered, policyRevision,
                     policyTerminal, conn, watched, job, active, state, seen>>
  BY Zenon DEF endOperation, policyVars, done
<1>3. \A q \in Callers \ {p} : ops'[q].client = ops[q].client
  BY Zenon, <1>2, OthersCall
<1>4. PICK r \in {"ok", "retry", "fatal", "signal"} :
         /\ OpOutcome(p, r)
         /\ IF r = "signal"
            THEN Goto(p, IF pc[p] = "in1" THEN "recover" ELSE "fail") /\ UNCHANGED lifeVars
            ELSE Returned(p, r)
  BY Zenon DEF endOperation
<1>5. CASE r # "signal"
  <2>1. RestsPlain(p)
    BY Zenon, <1>1, <1>4, <1>5, ReturnedRests
  <2> QED
    BY Zenon, <1>1, <1>2, <1>3, <2>1, StayOK
<1>6. CASE r = "signal" /\ pc[p] = "in2"
  <2>1. Goto(p, "fail") /\ UNCHANGED <<phase, resumed>> /\ "fail" \in Rest
    BY Zenon, <1>4, <1>6 DEF lifeVars, Rest
  <2>2. RestsPlain(p)
    BY Zenon, <1>1, <2>1, GotoRests
  <2> QED
    BY Zenon, <1>1, <1>2, <1>3, <2>2, StayOK
<1>7. CASE r = "signal" /\ pc[p] = "in1"
  <2>1. Goto(p, "recover") /\ UNCHANGED <<phase, resumed>>
    BY Zenon, <1>4, <1>7 DEF lifeVars
  <2>2. Rests(p) /\ pc'[p] = "recover"
    BY Zenon, <1>1, <2>1, GotoRests
  <2>3. Signalled(ops[p].client) \/ Stale
    BY Zenon, <1>4, <1>7 DEF OpOutcome, Signalled
  <2>4. Observer(p)' => Behind
    BY Zenon, <1>2, <1>7, <2>3, StaleIsBehind DEF TInv, SignalOK, Observer
  <2>5. job[p].goal \notin SupGoals \cup {"start"}
    BY Zenon, <1>1, <1>7, IdleJob
  <2>6. NoNewSignal /\ job' \in [Procs -> JobType] /\ policyTerminal' \in BOOLEAN
        /\ watched' \in Clients \cup {NoClient}
    BY Zenon, <1>2 DEF NoNewSignal, TInv, TypesOK
  <2> QED
    BY Zenon, <1>1, <1>2, <1>3, <1>7, <2>2, <2>4, <2>5, <2>6, RestOK
<1> QED
  BY Zenon, <1>2, <1>5, <1>6, <1>7

\* failRuntimePolicyRecovery makes the failure terminal.
LEMMA failRecoveryOK ==
  ASSUME TInv, NEW p \in Callers, failRuntimePolicyRecovery(p)
  PROVE  TInv'
<1>1. p \in Procs /\ p # Sup /\ TypesOK /\ \A q \in Procs : RoleOK(q)
  BY Zenon, MainIsProc, TransportAssumption DEF TInv
<1>2. /\ pc[p] = "fail" /\ Returned(p, "fatal") /\ policyTerminal' = TRUE
      /\ UNCHANGED <<transMu, policyMu, order, read, core, rediscovered, policyRevision,
                     conn, watched, job, active, state, seen, ops>>
  BY Zenon DEF failRuntimePolicyRecovery, envVars, gateVars
<1>3. RestsPlain(p)
  BY Zenon, <1>1, <1>2, ReturnedRests
<1>4. Rests(p) /\ pc'[p] \notin {"recover", "closeRetired"}
  BY Zenon, <1>3 DEF RestsPlain, Rest, Woken, MainLocs
<1>5. job[p].goal \notin SupGoals \cup {"start"}
  BY Zenon, <1>1, <1>2, IdleJob
<1>6. NoNewSignal /\ job' \in [Procs -> JobType] /\ watched' \in Clients \cup {NoClient}
  BY Zenon, <1>2 DEF NoNewSignal, TInv, TypesOK
<1> QED
  BY Zenon, <1>1, <1>2, <1>4, <1>5, <1>6, RestOK

-----------------------------------------------------------------------------
(* Policy recovery.                                                        *)

\* The revision is consumed: everyone's observation is now an older one.
LEMMA ConsumedOK ==
  ASSUME TInv, NEW p \in Procs, recoverRuntimePolicy(p), ~policyTerminal, policyRevision = seen[p]
  PROVE  TInv'
<1>1. /\ pc[p] = "recover" /\ policyMu = NoProc /\ policyRevision' = policyRevision + 1
      /\ policyMu' = p /\ pc' = [pc EXCEPT ![p] = "discover"]
      /\ UNCHANGED <<transMu, order, read, core, rediscovered, policyTerminal, conn, watched, job,
                     active, state, seen, ops, phase, resumed>>
  BY Zenon DEF recoverRuntimePolicy, envVars, gateVars, lifeVars, Goto
<1>2. TypesOK /\ p # NoProc /\ "discover" \in Locs
  BY Zenon, TransportAssumption DEF TInv, Locs
<1>3. pc' \in [Procs -> Locs] /\ pc'[p] = "discover" /\ \A q \in Procs \ {p} : pc'[q] = pc[q]
  BY Zenon, <1>1, <1>2 DEF TypesOK
<1>4. policyRevision' \in Nat /\ \A q \in Procs : seen[q] < policyRevision' /\ seen[q] # policyRevision'
  <2>1. \A q \in Procs : seen[q] \in Nat /\ seen[q] <= policyRevision
    BY Zenon, <1>2 DEF TInv, SeenOK, TypesOK
  <2>2. policyRevision \in Nat
    BY Zenon, <1>2 DEF TypesOK
  <2> QED
    BY <1>1, <2>1, <2>2
<1>5. TypesOK'
  BY Zenon, <1>1, <1>2, <1>3, <1>4 DEF TypesOK, runtimeTransportOrder
<1>6. ASSUME NEW q \in Procs PROVE RoleOK(q)' /\ LockOK(q)' /\ SeenOK(q)'
  <2>1. RoleOK(q) /\ LockOK(q)
    BY Zenon DEF TInv
  <2>2. SeenOK(q)'
    <3>1. seen[q] <= policyRevision'
      BY <1>2, <1>4 DEF TypesOK
    <3> QED
      BY Zenon, <1>1, <1>4, <3>1 DEF SeenOK
  <2>3. CASE q # p
    BY Zenon, <1>1, <1>2, <1>3, <2>1, <2>2, <2>3, TransportAssumption DEF RoleOK, LockOK, Recovering
  <2>4. CASE q = p
    BY Zenon, <1>1, <1>2, <1>3, <2>1, <2>2, <2>4 DEF RoleOK, LockOK, Recovering
  <2> QED
    BY Zenon, <2>3, <2>4
<1>7. WatchOK'
  BY Zenon, <1>1, <1>3, <1>4, MainIsProc DEF TInv, WatchOK, NoStaleTransition
<1>8. CountOK'
  BY Zenon, <1>1, <1>3 DEF TInv, CountOK
<1>9. SignalOK'
  <2>1. Behind' <=> Behind
    BY Zenon, <1>1 DEF Behind
  <2>2. \A q \in Procs : ~Observer(q)'
    BY Zenon, <1>1, <1>4 DEF Observer
  <2>3. \A q \in Procs : pc'[q] = "discover" => Behind
    BY Zenon, <1>1, <1>3 DEF TInv, SignalOK, Observer
  <2>4. \A q \in Procs : pc'[q] = "moving" /\ job'[q].stage \in Late /\ Signalled(job[q].client)' => Behind
    BY Zenon, <1>1, <1>3 DEF TInv, SignalOK, Signalled
  <2> QED
    BY Zenon, <1>1, <1>2, <2>1, <2>2, <2>3, <2>4, MainIsProc DEF SignalOK
<1> QED
  BY Zenon, <1>5, <1>6, <1>7, <1>8, <1>9 DEF TInv

\* recoverRuntimePolicy consumes the revision, or takes another's result.
LEMMA recoverRuntimePolicyOK == ASSUME TInv, NEW p \in Procs, recoverRuntimePolicy(p) PROVE TInv'
<1>1. CASE ~policyTerminal /\ policyRevision = seen[p]
  BY Zenon, <1>1, ConsumedOK
<1>2. CASE policyTerminal \/ policyRevision # seen[p]
  <2>1. /\ pc[p] = "recover" /\ Recovered(p, ~policyTerminal)
        /\ UNCHANGED <<transMu, policyMu, order, read, core, rediscovered, policyRevision, policyTerminal,
                       conn, watched, job, active, state, seen, ops>>
    BY Zenon, <1>2 DEF recoverRuntimePolicy, envVars, gateVars
  <2>2. RestsPlain(p)
    BY Zenon, <2>1, RecoveredRests DEF TInv
  <2> QED
    BY Zenon, <2>1, <2>2, StayOK
<1> QED
  BY Zenon, <1>1, <1>2

\* Nobody but the holder of policyRecoveryMu recovers.
LEMMA OneRecovers ==
  ASSUME TInv, NEW p \in Procs, NEW q \in Procs, Recovering(p), Recovering(q)
  PROVE  p = q
  BY Zenon DEF TInv, LockOK

\* The manifest is read: the policy is newer than the one applied.
LEMMA DiscoveredOK ==
  ASSUME TInv, NEW p \in Procs, pc[p] = "discover", runtimeTransportOrder(core) # << >>,
         read' = core, rediscovered' = rediscovered + 1, Goto(p, "lockTransition"),
         UNCHANGED <<transMu, policyMu, order, core, policyRevision, policyTerminal, conn, watched, job,
                     active, state, seen, ops, phase, resumed>>
  PROVE  TInv'
<1>2. TypesOK /\ "lockTransition" \in Locs
  BY Zenon DEF TInv, Locs
<1>3. pc' \in [Procs -> Locs] /\ pc'[p] = "lockTransition" /\ \A q \in Procs \ {p} : pc'[q] = pc[q]
  BY Zenon, <1>2 DEF TypesOK, Goto
<1>4. TypesOK'
  <2>1. core \in 1..core /\ rediscovered' \in Nat
    BY <1>2 DEF TypesOK
  <2>2. runtimeTransportOrder(read)' # << >> /\ runtimeTransportOrder(order)' # << >>
    BY Zenon, <1>2 DEF runtimeTransportOrder, TypesOK
  <2> QED
    BY Zenon, <1>2, <1>3, <2>1, <2>2 DEF TypesOK
<1>5. ASSUME NEW q \in Procs PROVE RoleOK(q)' /\ LockOK(q)' /\ SeenOK(q)'
  <2>1. RoleOK(q) /\ LockOK(q) /\ SeenOK(q)
    BY Zenon DEF TInv
  <2>2. SeenOK(q)'
    BY Zenon, <2>1 DEF SeenOK
  <2>3. CASE q # p
    BY Zenon, <1>3, <2>1, <2>2, <2>3 DEF RoleOK, LockOK, Recovering
  <2>4. CASE q = p
    BY Zenon, <1>3, <2>1, <2>2, <2>4 DEF RoleOK, LockOK, Recovering
  <2> QED
    BY Zenon, <2>3, <2>4
<1>6. WatchOK'
  BY Zenon, <1>3, MainIsProc DEF TInv, WatchOK, NoStaleTransition
<1>7. CountOK'
  <2>1. \A q \in Procs : pc[q] # "lockTransition"
    BY Zenon, OneRecovers DEF Recovering
  <2>2. rediscovered < order /\ order < core
    BY Zenon, <2>1 DEF TInv, CountOK, SignalOK, Behind
  <2>3. rediscovered + 1 < core
    BY <1>2, <2>2 DEF TypesOK
  <2> QED
    BY Zenon, <1>3, <2>3 DEF CountOK
<1>8. SignalOK'
  <2>1. Behind' <=> Behind
    BY Zenon DEF Behind
  <2>2. \A q \in Procs : Observer(q)' <=> Observer(q)
    BY Zenon DEF Observer
  <2>3. \A q \in Procs : pc'[q] \in {"discover", "recover", "moving", "watch", "in1"} => pc'[q] = pc[q]
    BY Zenon, <1>3
  <2> QED
    BY Zenon, <2>1, <2>2, <2>3, MainIsProc DEF TInv, SignalOK, Signalled
<1> QED
  BY Zenon, <1>4, <1>5, <1>6, <1>7, <1>8 DEF TInv

\* The rediscovery reads the policy, or fails for good.
LEMMA discoverOK == ASSUME TInv, NEW p \in Procs, discover(p) PROVE TInv'
<1>1. /\ pc[p] = "discover"
      /\ UNCHANGED <<transMu, order, core, policyRevision, conn, watched, job, active, state, seen, ops>>
  BY Zenon DEF discover, gateVars
<1>2. CASE /\ runtimeTransportOrder(core) # << >>
           /\ read' = core /\ rediscovered' = rediscovered + 1
           /\ Goto(p, "lockTransition")
           /\ UNCHANGED <<policyTerminal, policyMu, faults, lifeVars>>
  BY Zenon, <1>1, <1>2, DiscoveredOK DEF lifeVars
<1>3. CASE /\ policyTerminal' = TRUE /\ policyMu' = NoProc /\ Recovered(p, FALSE)
           /\ UNCHANGED <<read, rediscovered>>
  <2>1. RestsPlain(p)
    BY Zenon, <1>3, RecoveredRests DEF TInv
  <2>2. Rests(p) /\ pc'[p] \notin {"recover", "closeRetired"}
    BY Zenon, <2>1 DEF RestsPlain, Rest, Woken, MainLocs
  <2>3. job[p].goal \notin SupGoals \cup {"start"}
    BY Zenon, <1>1, IdleJob
  <2>4. NoNewSignal /\ job' \in [Procs -> JobType] /\ watched' \in Clients \cup {NoClient}
    BY Zenon, <1>1 DEF NoNewSignal, TInv, TypesOK
  <2>5. Settles(p)
    BY Zenon, <1>1, <1>3, <2>2, <2>3, <2>4 DEF Settles, Recovering
  <2> QED
    BY Zenon, <2>5, SettlesOK
<1> QED
  BY Zenon, <1>2, <1>3 DEF discover

\* The first transport of a policy that allows the configured mode.
LEMMA FirstAllowed ==
  ASSUME NEW i \in 1..Len(Policies), runtimeTransportOrder(i) # << >>
  PROVE  runtimeTransportOrder(i)[1] \in {"ws", "pull"}
<1>1. Policies[i] \in Seq({"ws", "pull"}) /\ Mode \in {"auto", "ws", "pull"}
  BY TransportAssumption
<1>2. CASE runtimeTransportOrder(i) = Policies[i]
  BY <1>1, <1>2
<1>3. CASE runtimeTransportOrder(i) = <<Mode>> /\ Mode # "auto"
  BY <1>1, <1>3
<1>4. \A k \in DOMAIN Policies[i] : Policies[i][k] # "auto"
  BY <1>1
<1> QED
  BY Zenon, <1>2, <1>3, <1>4 DEF runtimeTransportOrder

\* The policy is applied by the only process that recovers, before it moves.
LEMMA recoverLockedOK ==
  ASSUME TInv, NEW p \in Procs, recoverRuntimePolicyLocked(p)
  PROVE  TInv'
<1>1. /\ pc[p] = "lockTransition" /\ transMu = NoProc /\ transMu' = p /\ order' = read
      /\ job' = [job EXCEPT ![p] = [NoJob EXCEPT !.goal = "recover", !.reconnect = resumed,
                                                 !.target = runtimeTransportOrder(read)[1]]]
      /\ pc' = [pc EXCEPT ![p] = "moving"]
      /\ UNCHANGED <<policyMu, read, core, rediscovered, policyRevision, policyTerminal, conn, watched,
                     active, state, seen, ops, phase, resumed>>
  BY Zenon DEF recoverRuntimePolicyLocked, envVars, gateVars, lifeVars, Goto
<1>2. TypesOK /\ "moving" \in Locs /\ p # NoProc
  BY Zenon, TransportAssumption DEF TInv, Locs
<1>3. pc' \in [Procs -> Locs] /\ pc'[p] = "moving" /\ \A q \in Procs \ {p} : pc'[q] = pc[q]
  BY Zenon, <1>1, <1>2 DEF TypesOK
<1>4. PICK new : new = [NoJob EXCEPT !.goal = "recover", !.reconnect = resumed,
                                     !.target = runtimeTransportOrder(read)[1]]
  BY Zenon
<1>5. new \in JobType /\ new.goal = "recover" /\ new.stage = "begin"
  <2>1. runtimeTransportOrder(read)[1] \in {"ws", "pull"} /\ resumed \in BOOLEAN
    <3>1. read \in 1..Len(Policies)
      BY <1>2 DEF TypesOK
    <3> QED
      BY Zenon, <1>2, <3>1, FirstAllowed DEF TypesOK
  <2>2. new = [goal |-> "recover", reconnect |-> resumed, target |-> runtimeTransportOrder(read)[1],
               stage |-> "begin", client |-> NoClient, waits |-> NoProc, deferred |-> FALSE]
    BY Zenon, <1>4 DEF NoJob
  <2> QED
    BY Zenon, <2>1, <2>2 DEF JobType
<1>6. job' \in [Procs -> JobType] /\ job'[p] = new /\ \A q \in Procs \ {p} : job'[q] = job[q]
  BY Zenon, <1>1, <1>2, <1>4, <1>5 DEF TypesOK
<1>7. TypesOK'
  <2>1. runtimeTransportOrder(read)' # << >> /\ runtimeTransportOrder(order)' # << >>
    BY Zenon, <1>1, <1>2 DEF runtimeTransportOrder, TypesOK
  <2> QED
    BY Zenon, <1>1, <1>2, <1>3, <1>6, <2>1 DEF TypesOK
<1>8. Recovering(p) /\ policyMu = p
  BY Zenon, <1>1 DEF Recovering, TInv, LockOK
<1>9. \A q \in Procs : seen[q] # policyRevision
  <2>1. \A q \in Procs : seen[q] < policyRevision /\ seen[q] \in Nat
    BY Zenon, <1>2, <1>8 DEF TInv, SeenOK, TypesOK
  <2> QED
    BY <1>2, <2>1 DEF TypesOK
<1>10. ASSUME NEW q \in Procs PROVE RoleOK(q)' /\ LockOK(q)' /\ SeenOK(q)'
  <2>1. RoleOK(q) /\ LockOK(q) /\ SeenOK(q)
    BY Zenon DEF TInv
  <2>2. SeenOK(q)'
    BY Zenon, <1>1, <2>1 DEF SeenOK
  <2>3. CASE q # p
    BY Zenon, <1>1, <1>3, <1>6, <2>1, <2>2, <2>3, TransportAssumption DEF RoleOK, LockOK, Recovering
  <2>4. CASE q = p
    BY Zenon, <1>1, <1>3, <1>5, <1>6, <1>8, <2>1, <2>2, <2>4
    DEF RoleOK, LockOK, Recovering, SupGoals, Late
  <2> QED
    BY Zenon, <2>3, <2>4
<1>11. \A q \in Procs \ {p} : pc'[q] \notin {"moving", "discover", "lockTransition"}
  BY Zenon, <1>1, <1>2, <1>3, <1>8, TransportAssumption DEF TInv, LockOK, Recovering
<1>12. WatchOK'
  BY Zenon, <1>1, <1>3, <1>5, <1>6, <1>9, <1>11, MainIsProc DEF WatchOK, NoStaleTransition
<1>13. CountOK'
  BY Zenon, <1>1, <1>3, <1>11 DEF TInv, CountOK
<1>14. SignalOK'
  BY Zenon, <1>1, <1>2, <1>3, <1>5, <1>6, <1>8, <1>9, <1>11, MainIsProc DEF SignalOK, Observer, Late
<1> QED
  BY Zenon, <1>7, <1>10, <1>12, <1>13, <1>14 DEF TInv

-----------------------------------------------------------------------------
(* A transition.                                                           *)

\* The mover goes on: it keeps its locks and its goal, and the client that it
\* holds carries no signal unless the worker is behind.
Moves(p) ==
  /\ pc[p] = "moving"
  /\ UNCHANGED <<pc, phase, resumed, transMu, policyMu, policyTerminal, order, read, core,
                 rediscovered, policyRevision, seen, watched>>
  /\ job' \in [Procs -> JobType] /\ \A q \in Procs \ {p} : job'[q] = job[q]
  /\ job'[p].goal = job[p].goal
  /\ job'[p].stage \in Late => job'[p].client \in Clients /\ (Signalled(job[p].client)' => Behind)
  /\ job'[p].stage = "begin" => job[p].goal \notin SupGoals
  /\ NoNewSignal
  /\ active' \in {active, NoClient} /\ (state = "stopped" => state' = "stopped")
  /\ \A q \in Callers : ops'[q].client = ops[q].client

\* A transition that goes on keeps the invariant.
LEMMA MovesOK == ASSUME TInv, NEW p \in Procs, Moves(p) PROVE TInv'
<1>1. TypesOK'
  <2>1. runtimeTransportOrder(read)' # << >> /\ runtimeTransportOrder(order)' # << >>
    BY Zenon DEF TInv, runtimeTransportOrder, TypesOK, Moves
  <2> QED
    BY Zenon, <2>1 DEF TInv, TypesOK, Moves, NoNewSignal
<1>2. ASSUME NEW q \in Procs PROVE RoleOK(q)' /\ LockOK(q)' /\ SeenOK(q)'
  <2>1. RoleOK(q) /\ LockOK(q) /\ SeenOK(q)
    BY Zenon DEF TInv
  <2>2. SeenOK(q)'
    BY Zenon, <2>1 DEF SeenOK, Moves
  <2>3. CASE q # p
    BY Zenon, <2>1, <2>2, <2>3 DEF RoleOK, LockOK, Recovering, Moves
  <2>4. CASE q = p
    BY Zenon, <2>1, <2>2, <2>4 DEF RoleOK, LockOK, Recovering, Moves
  <2> QED
    BY Zenon, <2>3, <2>4
<1>3. WatchOK'
  <2>1. CASE p = Sup
    <3>1. job[Sup].goal \in {"none", "start", "recover"} \cup SupGoals
      BY MainIsProc DEF TInv, TypesOK, JobType
    <3>2. job[Sup].goal # "none" /\ job[Sup].goal # "start"
      BY Zenon, <2>1, MainIsProc DEF TInv, RoleOK, Moves
    <3> QED
      BY Zenon, <2>1, <3>1, <3>2 DEF WatchOK, NoStaleTransition, Moves
  <2>2. CASE p # Sup
    <3>1. seen[Sup] # policyRevision \/ pc[Sup] = "off"
      BY Zenon, <2>2, MoverKinds DEF Moves
    <3>2. pc[Sup] # "moving"
      BY Zenon, <2>2, MainIsProc DEF TInv, LockOK, Moves
    <3> QED
      BY Zenon, <3>1, <3>2 DEF WatchOK, NoStaleTransition, Moves
  <2> QED
    BY Zenon, <2>1, <2>2
<1>4. CountOK'
  BY Zenon DEF TInv, CountOK, Moves
<1>5. SignalOK'
  <2>1. Behind' <=> Behind
    BY Zenon DEF Behind, Moves
  <2>2. \A q \in Procs : Observer(q)' <=> Observer(q)
    BY Zenon DEF Observer, Moves
  <2>3. NoClient \notin Conns
    BY Zenon, TransportAssumption, GateAssumption
  <2>4. Signalled(active)' => Signalled(active)
    BY Zenon, <2>3 DEF Signalled, Moves, NoNewSignal
  <2>5. Signalled(watched)' => Signalled(watched)
    BY Zenon DEF Signalled, Moves, NoNewSignal
  <2>6. \A q \in Callers : Signalled(ops[q].client)' => Signalled(ops[q].client)
    BY Zenon DEF Signalled, Moves, NoNewSignal
  <2>7. \A q \in Procs : pc'[q] = "moving" /\ job'[q].stage \in Late /\ Signalled(job[q].client)' => Behind
    <3>1. SUFFICES ASSUME NEW q \in Procs, pc'[q] = "moving", job'[q].stage \in Late,
                          Signalled(job[q].client)'
                   PROVE  Behind
      BY Zenon
    <3>2. CASE q = p
      BY Zenon, <3>1, <3>2 DEF Moves
    <3>3. CASE q # p
      BY Zenon, <3>1, <3>3 DEF TInv, LockOK, Moves
    <3> QED
      BY Zenon, <3>2, <3>3
  <2> QED
    BY Zenon, <2>1, <2>2, <2>4, <2>5, <2>6, <2>7, MainIsProc DEF TInv, SignalOK, Moves
<1> QED
  BY Zenon, <1>1, <1>2, <1>3, <1>4, <1>5 DEF TInv

\* A job stays a job when one of its fields is set.
LEMMA FieldTyped ==
  ASSUME NEW x \in JobType, NEW s \in {"begin", "drain", "attach"} \cup Late, NEW d \in BOOLEAN,
         NEW c \in Clients \cup {NoClient}, NEW w \in Handlers \cup {NoProc}
  PROVE  /\ [x EXCEPT !.stage = s] \in JobType
         /\ [x EXCEPT !.client = c] \in JobType
         /\ [x EXCEPT !.target = "pull"] \in JobType
         /\ [x EXCEPT !.deferred = d] \in JobType
         /\ [x EXCEPT !.waits = w] \in JobType
<1>1. [x EXCEPT !.stage = s] \in JobType
  BY DEF JobType
<1>2. [x EXCEPT !.client = c] \in JobType
  BY DEF JobType
<1>3. [x EXCEPT !.target = "pull"] \in JobType
  BY DEF JobType
<1>4. [x EXCEPT !.deferred = d] \in JobType
  BY DEF JobType
<1>5. [x EXCEPT !.waits = w] \in JobType
  BY DEF JobType
<1> QED
  BY Zenon, <1>1, <1>2, <1>3, <1>4, <1>5

\* What a transition writes into its job.
LEMMA JobTyped ==
  ASSUME NEW x \in JobType, NEW s \in {"begin", "drain", "attach"} \cup Late,
         NEW c \in Clients \cup {NoClient}, NEW w \in Handlers \cup {NoProc}
  PROVE  /\ [x EXCEPT !.stage = s, !.client = c] \in JobType
         /\ [x EXCEPT !.client = c, !.stage = s] \in JobType
         /\ [x EXCEPT !.target = "pull", !.stage = s, !.client = c] \in JobType
         /\ [x EXCEPT !.target = "pull", !.stage = s, !.client = c, !.deferred = TRUE] \in JobType
         /\ [x EXCEPT !.stage = s, !.waits = w] \in JobType
  BY Zenon, FieldTyped

\* The job of one process is replaced.
LEMMA OneJob ==
  ASSUME TInv, NEW p \in Procs, NEW new \in JobType, job' = [job EXCEPT ![p] = new]
  PROVE  job' \in [Procs -> JobType] /\ job'[p] = new /\ \A q \in Procs \ {p} : job'[q] = job[q]
  BY Zenon DEF TInv, TypesOK

\* A transition that only changes its stage.
LEMMA StageSet ==
  ASSUME TInv, NEW p \in Procs, NEW s \in {"begin", "drain", "attach"} \cup Late,
         job' = [job EXCEPT ![p].stage = s]
  PROVE  /\ job' \in [Procs -> JobType] /\ \A q \in Procs \ {p} : job'[q] = job[q]
         /\ job'[p].stage = s /\ job'[p].goal = job[p].goal /\ job'[p].client = job[p].client
<1>1. job[p] \in JobType
  BY Zenon DEF TInv, TypesOK
<1>2. PICK new : new = [job[p] EXCEPT !.stage = s]
  BY Zenon
<1>3. new \in JobType
  BY Zenon, <1>1, <1>2, FieldTyped
<1>4. new.stage = s /\ new.goal = job[p].goal /\ new.client = job[p].client
  BY <1>1, <1>2 DEF JobType
<1>5. job' = [job EXCEPT ![p] = new]
  BY Zenon, <1>2
<1> QED
  BY Zenon, <1>3, <1>4, <1>5, OneJob

\* closeTransport makes no connection signal.
LEMMA CloseQuiet == ASSUME TInv, NEW c, closeTransport(c) PROVE NoNewSignal
<1>1. conn \in [Conns -> {"open", "lost", "policy", "closed"}]
  BY Zenon DEF TInv, TypesOK
<1>2. conn' = [d \in Conns |-> IF d = c THEN "closed" ELSE conn[d]]
  BY Zenon DEF closeTransport
<1>3. \A d \in Conns : conn'[d] = IF d = c THEN "closed" ELSE conn[d]
  BY Zenon, <1>2
<1> QED
  BY Zenon, <1>1, <1>2, <1>3 DEF NoNewSignal

\* Connections that stay as they are signal nothing new.
LEMMA SameConns == ASSUME TInv, UNCHANGED conn PROVE NoNewSignal
  BY Zenon DEF TInv, TypesOK, NoNewSignal

\* Canceling a generation moves no operation to another client.
LEMMA CanceledClients ==
  ASSUME GInv, ops' = CancelGeneration
  PROVE  \A q \in Callers : ops'[q].client = ops[q].client
<1>1. GateTypeOK
  BY Zenon DEF GInv
<1>2. InFlight' = InFlight /\ \A q \in InFlight : ops'[q].client = ops[q].client
  BY Zenon, <1>1, CanceledOps
<1>3. \A q \in Callers : q \notin InFlight => ops'[q] = ops[q]
  BY Zenon DEF InFlight, CancelGeneration
<1> QED
  BY Zenon, <1>2, <1>3

\* beginTransition takes the client away.
LEMMA MoveBeginsOK == ASSUME TInv, GInv, NEW p \in Procs, MoveBegins(p) PROVE TInv'
<1>1. /\ pc[p] = "moving" /\ job' = [job EXCEPT ![p].stage = "drain"]
      /\ UNCHANGED <<pc, phase, resumed, transMu, policyMu, policyTerminal, order, read, core,
                     rediscovered, policyRevision, seen, watched, conn>>
  BY Zenon DEF MoveBegins, envVars, NotMoving, StillMoving, lifeVars
<1>2. /\ job' \in [Procs -> JobType] /\ \A q \in Procs \ {p} : job'[q] = job[q]
      /\ job'[p].stage = "drain" /\ job'[p].goal = job[p].goal
  BY Zenon, <1>1, StageSet
<1>3. /\ active' \in {active, NoClient} /\ (state = "stopped" => state' = "stopped")
      /\ ops' = ops \/ ops' = CancelGeneration
  BY Zenon DEF MoveBegins, beginTransition, beginTransitionStopped
<1>4. \A q \in Callers : ops'[q].client = ops[q].client
  BY Zenon, <1>3, CanceledClients
<1>5. NoNewSignal
  BY Zenon, <1>1, SameConns
<1>6. Moves(p)
  BY Zenon, <1>1, <1>2, <1>3, <1>4, <1>5 DEF Moves, Late
<1> QED
  BY Zenon, <1>6, MovesOK

\* The wait of beginTransition is over.
LEMMA MoveDrainedOK == ASSUME TInv, GInv, NEW p \in Procs, MoveDrained(p) PROVE TInv'
<1>1. /\ pc[p] = "moving" /\ job' = [job EXCEPT ![p].stage = "attach"]
      /\ UNCHANGED <<pc, phase, resumed, transMu, policyMu, policyTerminal, order, read, core,
                     rediscovered, policyRevision, seen, watched>>
      /\ \E c : closeTransport(c)
  BY Zenon DEF MoveDrained, NotMoving, StillMoving, lifeVars
<1>2. /\ job' \in [Procs -> JobType] /\ \A q \in Procs \ {p} : job'[q] = job[q]
      /\ job'[p].stage = "attach" /\ job'[p].goal = job[p].goal
  BY Zenon, <1>1, StageSet
<1>3. UNCHANGED <<active, state, ops>>
  BY Zenon DEF MoveDrained, awaitOperations, gateVars
<1>4. NoNewSignal
  BY Zenon, <1>1, CloseQuiet
<1>5. Moves(p)
  BY Zenon, <1>1, <1>2, <1>3, <1>4 DEF Moves, Late
<1> QED
  BY Zenon, <1>5, MovesOK

\* A new client is attached; it has signalled nothing.
LEMMA AttachedOK ==
  ASSUME TInv, NEW p \in Procs, pc[p] = "moving", job[p].target = "ws" => Fresh # {},
         Attached(p), UNCHANGED <<gateVars, NotMoving>>, StillMoving
  PROVE  TInv'
<1>1. job[p] \in JobType /\ conn \in [Conns -> {"open", "lost", "policy", "closed"}]
  BY Zenon DEF TInv, TypesOK
<1>2. job[p].target \in {"ws", "pull"}
  BY <1>1 DEF JobType
<1>3. PICK s \in Late : s = AfterAttach(p)
  BY Zenon DEF AfterAttach, Late
<1>4. PICK c \in Clients :
        /\ job' = [job EXCEPT ![p].client = c, ![p].stage = s]
        /\ (c = Pull /\ UNCHANGED conn) \/ (c \in Conns /\ conn' = [conn EXCEPT ![c] = "open"])
  <2>1. CASE job[p].target = "pull"
    <3>1. job' = [job EXCEPT ![p].client = Pull, ![p].stage = s] /\ UNCHANGED conn
      BY Zenon, <1>3, <2>1 DEF Attached
    <3>2. Pull \in Clients
      BY Zenon, TransportAssumption
    <3> QED
      BY Zenon, <3>1, <3>2
  <2>2. CASE job[p].target = "ws"
    <3>1. PICK c : c = CHOOSE d \in Fresh : TRUE
      BY Zenon
    <3>2. c \in Fresh
      <4>1. \E d \in Fresh : TRUE
        BY Zenon, <2>2
      <4> QED
        BY Zenon, <3>1, <4>1
    <3>3. c \in Conns
      BY Zenon, <3>2 DEF Fresh
    <3>4. job[p].target # "pull"
      BY Zenon, <2>2
    <3>5. /\ conn' = [conn EXCEPT ![c] = "open"]
          /\ job' = [job EXCEPT ![p].client = c, ![p].stage = s]
      BY Zenon, <1>3, <3>1, <3>4 DEF Attached
    <3> QED
      BY Zenon, <3>3, <3>5, TransportAssumption
  <2> QED
    BY Zenon, <1>2, <2>1, <2>2
<1>5. PICK new : new = [job[p] EXCEPT !.client = c, !.stage = s]
  BY Zenon
<1>6. new \in JobType /\ new.client = c /\ new.stage = s /\ new.goal = job[p].goal
  <2>1. new \in JobType
    BY Zenon, <1>1, <1>5, JobTyped, TransportAssumption
  <2>2. new.client = c /\ new.stage = s /\ new.goal = job[p].goal
    BY <1>1, <1>5 DEF JobType
  <2> QED
    BY Zenon, <2>1, <2>2
<1>7. job' = [job EXCEPT ![p] = new]
  BY Zenon, <1>4, <1>5
<1>8. job' \in [Procs -> JobType] /\ job'[p] = new /\ \A q \in Procs \ {p} : job'[q] = job[q]
  BY Zenon, <1>6, <1>7, OneJob
<1>9. NoNewSignal /\ ~Signalled(c)'
  BY Zenon, <1>1, <1>4, TransportAssumption DEF NoNewSignal, Signalled
<1>10. job'[p].goal = job[p].goal /\ job'[p].stage # "begin" /\ job'[p].client \in Clients
       /\ ~Signalled(job[p].client)'
  BY Zenon, <1>6, <1>8, <1>9 DEF Late
<1>11. Moves(p)
  BY Zenon, <1>8, <1>9, <1>10 DEF Moves, StillMoving, NotMoving, lifeVars, gateVars
<1> QED
  BY Zenon, <1>11, MovesOK

\* The job after a failed attach.
LEMMA FailedJob ==
  ASSUME TInv, NEW p \in Procs, AttachFailed(p)
  PROVE  \/ UNCHANGED job
         \/ /\ job' \in [Procs -> JobType] /\ \A q \in Procs \ {p} : job'[q] = job[q]
            /\ job'[p].goal = job[p].goal /\ job'[p].stage \in {"begin", "attach"}
            /\ job'[p].stage = "begin" => job[p].goal \in {"start", "recover"}
<1>1. job[p] \in JobType
  BY Zenon DEF TInv, TypesOK
<1>2. CASE UNCHANGED job
  BY Zenon, <1>2
<1>3. CASE job[p].goal \in {"start", "recover"}
           /\ job' = [job EXCEPT ![p].target = "pull", ![p].stage = "begin", ![p].client = NoClient]
  <2>1. PICK new : new = [job[p] EXCEPT !.target = "pull", !.stage = "begin", !.client = NoClient]
    BY Zenon
  <2>2. new \in JobType
    BY Zenon, <1>1, <2>1, JobTyped
  <2>3. new.stage = "begin" /\ new.goal = job[p].goal
    BY <1>1, <2>1 DEF JobType
  <2>4. job' = [job EXCEPT ![p] = new]
    BY Zenon, <1>3, <2>1
  <2> QED
    BY Zenon, <1>3, <2>2, <2>3, <2>4, OneJob
<1>4. CASE job' = [job EXCEPT ![p].target = "pull", ![p].stage = "attach",
                              ![p].client = NoClient, ![p].deferred = TRUE]
  <2>1. PICK new : new = [job[p] EXCEPT !.target = "pull", !.stage = "attach",
                                        !.client = NoClient, !.deferred = TRUE]
    BY Zenon
  <2>2. new \in JobType
    BY Zenon, <1>1, <2>1, JobTyped
  <2>3. new.stage = "attach" /\ new.goal = job[p].goal
    BY <1>1, <2>1 DEF JobType
  <2>4. job' = [job EXCEPT ![p] = new]
    BY Zenon, <1>4, <2>1
  <2> QED
    BY Zenon, <2>2, <2>3, <2>4, OneJob
<1>5. CASE job' = [job EXCEPT ![p].stage = "attach", ![p].client = NoClient]
  <2>1. PICK new : new = [job[p] EXCEPT !.stage = "attach", !.client = NoClient]
    BY Zenon
  <2>2. new \in JobType
    BY Zenon, <1>1, <2>1, JobTyped
  <2>3. new.stage = "attach" /\ new.goal = job[p].goal
    BY <1>1, <2>1 DEF JobType
  <2>4. job' = [job EXCEPT ![p] = new]
    BY Zenon, <1>5, <2>1
  <2> QED
    BY Zenon, <2>2, <2>3, <2>4, OneJob
<1> QED
  BY Zenon, <1>2, <1>3, <1>4, <1>5 DEF AttachFailed

\* A failed attach falls back, restores long-poll or tries again.
LEMMA AttachFailedOK ==
  ASSUME TInv, NEW p \in Procs, pc[p] = "moving", job[p].stage # "begin", AttachFailed(p),
         UNCHANGED NotMoving
  PROVE  TInv'
<1>1. NoNewSignal
  BY Zenon, CloseQuiet DEF AttachFailed
<1>2. job[p].stage \in Late => job[p].client \in Clients /\ (Signalled(job[p].client) => Behind)
  BY Zenon DEF TInv, RoleOK, SignalOK
<1>3. CASE UNCHANGED job
  <2>1. job \in [Procs -> JobType]
    BY Zenon DEF TInv, TypesOK
  <2>2. job[p].stage \in Late /\ Signalled(job[p].client)' => Behind
    BY Zenon, <1>1, <1>2, <1>3 DEF NoNewSignal, Signalled
  <2>3. Moves(p)
    BY Zenon, <1>1, <1>2, <1>3, <2>1, <2>2 DEF Moves, AttachFailed, StillMoving, NotMoving, lifeVars, gateVars
  <2> QED
    BY Zenon, <2>3, MovesOK
<1>4. CASE ~UNCHANGED job
  <2>1. /\ job' \in [Procs -> JobType] /\ \A q \in Procs \ {p} : job'[q] = job[q]
        /\ job'[p].goal = job[p].goal /\ job'[p].stage \in {"begin", "attach"}
        /\ job'[p].stage = "begin" => job[p].goal \in {"start", "recover"}
    BY Zenon, <1>4, FailedJob
  <2>2. job'[p].stage \notin Late /\ (job'[p].stage = "begin" => job[p].goal \notin SupGoals)
    BY Zenon, <2>1 DEF Late, SupGoals
  <2>3. Moves(p)
    BY Zenon, <1>1, <2>1, <2>2 DEF Moves, AttachFailed, StillMoving, NotMoving, lifeVars, gateVars
  <2> QED
    BY Zenon, <2>3, MovesOK
<1> QED
  BY Zenon, <1>3, <1>4

\* A transition that is over goes to its caller, or to recovery after a signal.
LEMMA MoveEndedRests ==
  ASSUME TInv, NEW p \in Procs, NEW r, pc[p] = "moving", MoveEnded(p, r)
  PROVE  Rests(p) /\ pc'[p] # "closeRetired" /\ (pc'[p] = "recover" => r = "signal")
<1>1. job[p].goal \in {"start", "recover"} \cup SupGoals
  <2>1. job[p] \in JobType
    BY Zenon DEF TInv, TypesOK
  <2>2. job[p].goal \in {"none", "start", "recover"} \cup SupGoals
    BY <2>1 DEF JobType
  <2> QED
    BY Zenon, <2>2 DEF TInv, RoleOK
<1>2. /\ "call" \in Rest /\ "snapshot" \in Rest
      /\ "recover" \notin Rest /\ "closeRetired" \notin Rest
      /\ "recover" \in Rest \cup {"recover", "closeRetired"}
  BY Zenon DEF Rest, Woken, MainLocs
<1>3. TypesOK /\ \A q \in Procs : RoleOK(q)
  BY Zenon DEF TInv
<1>4. (p = Main /\ RestsPlain(Main) => RestsPlain(p)) /\ (RestsPlain(p) => Rests(p) /\ pc'[p] \in Rest)
  BY Zenon DEF RestsPlain
<1>5. CASE job[p].goal = "recover"
  <2>1. Recovered(p, r = "ok")
    BY Zenon, <1>5 DEF MoveEnded
  <2>2. RestsPlain(p)
    BY Zenon, <1>3, <2>1, RecoveredRests
  <2> QED
    BY Zenon, <1>2, <1>4, <2>2
<1>6. CASE job[p].goal = "start"
  <2>1. p = Main /\ phase = "attach"
    BY Zenon, <1>3, <1>6 DEF RoleOK
  <2>2. \/ Goto(Main, "call") /\ phase' = "resume" /\ UNCHANGED resumed
        \/ EnterShutdown
        \/ r = "signal" /\ Goto(p, "recover") /\ UNCHANGED lifeVars
    BY Zenon, <1>6 DEF MoveEnded
  <2>3. CASE Goto(Main, "call") /\ phase' = "resume" /\ UNCHANGED resumed
    BY Zenon, <1>2, <1>3, <2>1, <2>3, GotoRests DEF Starting
  <2>4. CASE EnterShutdown
    BY Zenon, <1>2, <1>3, <1>4, <2>1, <2>4, ShutdownRests
  <2>5. CASE r = "signal" /\ Goto(p, "recover") /\ UNCHANGED lifeVars
    BY Zenon, <1>2, <1>3, <2>5, GotoRests DEF lifeVars
  <2> QED
    BY Zenon, <2>2, <2>3, <2>4, <2>5
<1>7. CASE job[p].goal \in SupGoals
  <2>1. p = Sup /\ job[p].goal # "recover" /\ job[p].goal # "start"
    BY Zenon, <1>3, <1>7 DEF RoleOK, SupGoals
  <2>2. \/ Goto(p, "snapshot") /\ UNCHANGED lifeVars
        \/ SupEnds
        \/ r = "signal" /\ Goto(p, "recover") /\ UNCHANGED lifeVars
    BY Zenon, <2>1 DEF MoveEnded
  <2>3. CASE Goto(p, "snapshot") /\ UNCHANGED lifeVars
    BY Zenon, <1>2, <1>3, <2>3, GotoRests DEF lifeVars
  <2>4. CASE SupEnds
    BY Zenon, <1>2, <1>3, <1>4, <2>1, <2>4, SupEndsRests
  <2>5. CASE r = "signal" /\ Goto(p, "recover") /\ UNCHANGED lifeVars
    BY Zenon, <1>2, <1>3, <2>5, GotoRests DEF lifeVars
  <2> QED
    BY Zenon, <2>2, <2>3, <2>4, <2>5
<1> QED
  BY Zenon, <1>1, <1>5, <1>6, <1>7

\* A process without a transition has an empty job.
LEMMA NoJobTyped == NoJob \in JobType /\ NoJob.goal = "none"
  BY DEF NoJob, JobType

\* A transition that ends gives back its locks.
LEMMA MoveEndsOK ==
  ASSUME TInv, NEW p \in Procs, NEW r, pc[p] = "moving", MoveEnded(p, r),
         UNCHANGED NotMoving, NoNewSignal,
         \A q \in Callers : ops'[q].client = ops[q].client,
         r = "signal" => Behind,
         \/ active' = active /\ r # "ok"
         \/ active' = job[p].client /\ job[p].stage \in Late
  PROVE  TInv'
<1>1. Rests(p) /\ pc'[p] # "closeRetired" /\ (pc'[p] = "recover" => r = "signal")
  BY Zenon, MoveEndedRests
<1>2. /\ transMu' = NoProc /\ job' = [job EXCEPT ![p] = NoJob]
      /\ policyMu' = IF job[p].goal = "recover" THEN NoProc ELSE policyMu
      /\ policyTerminal' = (policyTerminal \/ (job[p].goal = "recover" /\ r # "ok"))
  BY Zenon DEF MoveEnded
<1>3. /\ job' \in [Procs -> JobType] /\ \A q \in Procs \ {p} : job'[q] = job[q]
      /\ job'[p].goal \notin SupGoals \cup {"start"}
  <2>1. job'[p] = NoJob
    BY Zenon, <1>2, NoJobTyped, OneJob
  <2> QED
    BY Zenon, <1>2, <2>1, NoJobTyped, OneJob DEF SupGoals
<1>4. Recovering(p) <=> job[p].goal = "recover"
  BY Zenon DEF Recovering
<1>5. policyTerminal' \in BOOLEAN /\ (policyTerminal => policyTerminal')
  BY Zenon, <1>2 DEF TInv, TypesOK
<1>6. policyMu' = NoProc /\ ~policyTerminal' /\ Signalled(active)' => Behind
  <2>1. CASE active' = active /\ r # "ok"
    <3>1. Signalled(active)' => Signalled(active)
      BY Zenon, <2>1 DEF Signalled, NoNewSignal
    <3> QED
      BY Zenon, <1>2, <1>5, <2>1, <3>1 DEF TInv, SignalOK
  <2>2. CASE active' = job[p].client /\ job[p].stage \in Late
    <3>1. Signalled(active)' => Signalled(job[p].client)
      BY Zenon, <2>2 DEF Signalled, NoNewSignal
    <3> QED
      BY Zenon, <2>2, <3>1 DEF TInv, SignalOK
  <2> QED
    BY Zenon, <2>1, <2>2
<1>7. UNCHANGED <<order, read, core, rediscovered, policyRevision, seen, watched>>
      /\ watched \in Clients \cup {NoClient}
  BY Zenon DEF NotMoving, TInv, TypesOK
<1>8. Settles(p)
  BY Zenon, <1>1, <1>2, <1>3, <1>4, <1>5, <1>6, <1>7 DEF Settles
<1> QED
  BY Zenon, <1>8, SettlesOK

\* A transition that fails publishes nothing.
LEMMA MoveFailsOK ==
  ASSUME TInv, NEW p \in Procs, NEW r, r # "ok", r = "signal" => Behind, pc[p] = "moving",
         MoveFails(p, r), UNCHANGED NotMoving
  PROVE  TInv'
<1>1. MoveEnded(p, r) /\ closeTransport(job[p].client) /\ UNCHANGED <<active, ops>>
  BY Zenon DEF MoveFails, giveUp
<1>2. NoNewSignal
  BY Zenon, <1>1, CloseQuiet
<1> QED
  BY Zenon, <1>1, <1>2, MoveEndsOK

\* An attach ends with the signal, a permanent error or its context.
LEMMA AttachRefusedOK ==
  ASSUME TInv, NEW p \in Procs, pc[p] = "moving", AttachRefused(p), UNCHANGED NotMoving
  PROVE  TInv'
  BY Zenon, MoveFailsOK, StaleIsBehind DEF AttachRefused

\* createSessionWithRetryClient and dialWebSocketOnce.
LEMMA AttachOK == ASSUME TInv, NEW p \in Procs, Attach(p) PROVE TInv'
<1>1. pc[p] = "moving" /\ job[p].stage = "attach" /\ UNCHANGED NotMoving
  BY Zenon DEF Attach
<1>2. \/ (job[p].target = "ws" => Fresh # {}) /\ Attached(p) /\ UNCHANGED gateVars /\ StillMoving
      \/ AttachFailed(p)
      \/ AttachRefused(p)
  BY Zenon DEF Attach
<1>3. CASE (job[p].target = "ws" => Fresh # {}) /\ Attached(p) /\ UNCHANGED gateVars /\ StillMoving
  BY Zenon, <1>1, <1>3, AttachedOK
<1>4. CASE AttachFailed(p)
  BY Zenon, <1>1, <1>4, AttachFailedOK
<1>5. CASE AttachRefused(p)
  BY Zenon, <1>1, <1>5, AttachRefusedOK
<1> QED
  BY Zenon, <1>2, <1>3, <1>4, <1>5

\* A late stage follows another on the same client.
LEMMA LateOK ==
  ASSUME TInv, NEW p \in Procs, pc[p] = "moving", job[p].stage \in Late, UNCHANGED NotMoving,
         UNCHANGED <<gateVars, conn, policyTerminal, policyMu, transMu, pc, phase, resumed>>,
         job' \in [Procs -> JobType], \A q \in Procs \ {p} : job'[q] = job[q],
         job'[p].goal = job[p].goal, job'[p].client = job[p].client, job'[p].stage \in Late
  PROVE  TInv'
<1>1. job[p].client \in Clients /\ (Signalled(job[p].client) => Behind)
  BY Zenon DEF TInv, RoleOK, SignalOK
<1>2. Signalled(job[p].client)' => Behind
  BY Zenon, <1>1 DEF Signalled
<1>3. NoNewSignal
  BY Zenon, SameConns
<1>4. job'[p].stage # "begin"
  BY Zenon DEF Late
<1>5. Moves(p)
  BY Zenon, <1>1, <1>2, <1>3, <1>4 DEF Moves, NotMoving, gateVars
<1> QED
  BY Zenon, <1>5, MovesOK

\* A resume begins or ends its wait for a handler.
LEMMA WaitsSet ==
  ASSUME TInv, NEW p \in Procs, NEW s \in Late, NEW w \in Handlers \cup {NoProc},
         job' = [job EXCEPT ![p].stage = s, ![p].waits = w]
  PROVE  /\ job' \in [Procs -> JobType] /\ \A q \in Procs \ {p} : job'[q] = job[q]
         /\ job'[p].stage = s /\ job'[p].goal = job[p].goal /\ job'[p].client = job[p].client
<1>1. job[p] \in JobType
  BY Zenon DEF TInv, TypesOK
<1>2. PICK new : new = [job[p] EXCEPT !.stage = s, !.waits = w]
  BY Zenon
<1>3. new \in JobType
  BY Zenon, <1>1, <1>2, JobTyped
<1>4. new.stage = s /\ new.goal = job[p].goal /\ new.client = job[p].client
  BY <1>1, <1>2 DEF JobType
<1>5. job' = [job EXCEPT ![p] = new]
  BY Zenon, <1>2
<1> QED
  BY Zenon, <1>3, <1>4, <1>5, OneJob

\* resumeDurableStateWithClient.
LEMMA ResumeOK == ASSUME TInv, NEW p \in Procs, Resume(p) PROVE TInv'
<1>1. /\ pc[p] = "moving" /\ job[p].stage = "resume" /\ UNCHANGED NotMoving
      /\ job[p].stage \in Late /\ job[p].stage # "begin"
  BY Zenon DEF Resume, Late
<1>2. \/ job' = [job EXCEPT ![p].stage = "publish"] /\ UNCHANGED <<gateVars, conn>> /\ StillMoving
      \/ \E h \in Handlers :
           /\ job' = [job EXCEPT ![p].stage = "await", ![p].waits = h]
           /\ UNCHANGED <<gateVars, conn, policyTerminal, policyMu, transMu, pc, phase, resumed>>
      \/ AttachFailed(p)
      \/ AttachRefused(p)
      \/ Signalled(job[p].client) /\ MoveFails(p, "signal")
      \/ MoveFails(p, "ctx")
  BY Zenon DEF Resume, Signalled
<1>3. CASE job' = [job EXCEPT ![p].stage = "publish"] /\ UNCHANGED <<gateVars, conn>> /\ StillMoving
  BY Zenon, <1>1, <1>3, StageSet, LateOK DEF Late, StillMoving, lifeVars
<1>4. ASSUME NEW h \in Handlers, job' = [job EXCEPT ![p].stage = "await", ![p].waits = h],
             UNCHANGED <<gateVars, conn, policyTerminal, policyMu, transMu, pc, phase, resumed>>
      PROVE  TInv'
  <2>1. "await" \in Late
    BY Zenon DEF Late
  <2>2. /\ job' \in [Procs -> JobType] /\ \A q \in Procs \ {p} : job'[q] = job[q]
        /\ job'[p].stage \in Late /\ job'[p].goal = job[p].goal /\ job'[p].client = job[p].client
    BY Zenon, <1>4, <2>1, WaitsSet
  <2> QED
    BY Zenon, <1>1, <1>4, <2>2, LateOK
<1>5. CASE AttachFailed(p)
  BY Zenon, <1>1, <1>5, AttachFailedOK
<1>6. CASE AttachRefused(p)
  BY Zenon, <1>1, <1>6, AttachRefusedOK
<1>7. CASE Signalled(job[p].client) /\ MoveFails(p, "signal")
  <2>1. Behind
    BY Zenon, <1>1, <1>7 DEF TInv, SignalOK
  <2> QED
    BY Zenon, <1>1, <1>7, <2>1, MoveFailsOK
<1>8. CASE MoveFails(p, "ctx")
  BY Zenon, <1>1, <1>8, MoveFailsOK
<1> QED
  BY Zenon, <1>2, <1>3, <1>4, <1>5, <1>6, <1>7, <1>8

\* stopActiveAttemptForResume.
LEMMA AwaitHandlerOK == ASSUME TInv, NEW p \in Procs, AwaitHandler(p) PROVE TInv'
<1>1. pc[p] = "moving" /\ job[p].stage \in Late /\ UNCHANGED NotMoving /\ "publish" \in Late
  BY Zenon DEF AwaitHandler, Late
<1>2. CASE job' = [job EXCEPT ![p].stage = "publish", ![p].waits = NoProc]
           /\ UNCHANGED <<gateVars, conn>> /\ StillMoving
  <2>1. /\ job' \in [Procs -> JobType] /\ \A q \in Procs \ {p} : job'[q] = job[q]
        /\ job'[p].stage \in Late /\ job'[p].goal = job[p].goal /\ job'[p].client = job[p].client
    BY Zenon, <1>1, <1>2, WaitsSet
  <2>2. UNCHANGED <<gateVars, conn, policyTerminal, policyMu, transMu, pc, phase, resumed>>
    BY Zenon, <1>2 DEF StillMoving, lifeVars
  <2> QED
    BY Zenon, <1>1, <2>1, <2>2, LateOK
<1>3. CASE MoveFails(p, "ctx")
  BY Zenon, <1>1, <1>3, MoveFailsOK
<1> QED
  BY Zenon, <1>2, <1>3 DEF AwaitHandler

\* publishRuntimeTransport: the client of a current transition becomes active.
LEMMA publishOK == ASSUME TInv, GInv, NEW p \in Procs, publishRuntimeTransport(p) PROVE TInv'
<1>1. /\ pc[p] = "moving" /\ job[p].stage \in Late /\ UNCHANGED NotMoving
      /\ activateIfCurrent(p, Kind(job[p].client), job[p].client)
      /\ \E c : closeTransport(c)
  BY Zenon DEF publishRuntimeTransport, Late
<1>2. PICK r : r = CASE ~Current(p) -> "superseded" [] Current(p) /\ job[p].deferred -> "deferred" [] OTHER -> "ok"
  BY Zenon
<1>3. MoveEnded(p, r)
  BY Zenon, <1>2 DEF publishRuntimeTransport
<1>4. NoNewSignal
  BY Zenon, <1>1, CloseQuiet
<1>5. CASE Current(p)
  <2>1. active' = job[p].client /\ ops' = CancelGeneration
    BY Zenon, <1>1, <1>5 DEF activateIfCurrent
  <2>2. r # "signal"
    BY Zenon, <1>2, <1>5
  <2>3. \A q \in Callers : ops'[q].client = ops[q].client
    BY Zenon, <2>1, CanceledClients
  <2> QED
    BY Zenon, <1>1, <1>3, <1>4, <2>1, <2>2, <2>3, MoveEndsOK
<1>6. CASE ~Current(p)
  <2>1. UNCHANGED <<active, ops>>
    BY Zenon, <1>1, <1>6 DEF activateIfCurrent
  <2>2. r \notin {"signal", "ok"}
    BY Zenon, <1>2, <1>6
  <2> QED
    BY Zenon, <1>1, <1>3, <1>4, <2>1, <2>2, MoveEndsOK
<1> QED
  BY Zenon, <1>5, <1>6

-----------------------------------------------------------------------------
(* The supervisor.                                                         *)

\* What the supervisor read together with the revision holds for as long as the
\* revision does.
LEMMA SupGoesOnOK ==
  ASSUME TInv, pc[Sup] \in {"snapshot", "watch", "probe", "probing"},
         NEW l \in {"watch", "probe", "probing", "wantMove"}, Goto(Sup, l),
         UNCHANGED <<transMu, policyMu, policyTerminal, order, read, core, rediscovered,
                     policyRevision, conn, phase, resumed, active, ops>>,
         state = "stopped" => state' = "stopped",
         \/ /\ pc[Sup] # "snapshot" /\ l # "watch" /\ UNCHANGED <<seen, watched>>
         \/ /\ policyMu = NoProc /\ l # "wantMove"
            /\ seen' = [seen EXCEPT ![Sup] = policyRevision] /\ watched' = active,
         active \in Clients \cup {NoClient},
         job' \in [Procs -> JobType], \A q \in Procs \ {Sup} : job'[q] = job[q],
         IF l = "wantMove" THEN job'[Sup].goal \in SupGoals /\ job'[Sup].stage = "begin"
                           ELSE job' = job
  PROVE  TInv'
<1>1. Sup \in Procs /\ Sup # Main /\ Sup \notin Callers /\ Callers \subseteq Procs
  BY Zenon, MainIsProc, TransportAssumption
<1>2. /\ pc' \in [Procs -> Locs] /\ pc'[Sup] = l /\ \A q \in Procs \ {Sup} : pc'[q] = pc[q]
  <2>1. l \in Locs
    BY Zenon DEF Locs, SupLocs
  <2> QED
    BY Zenon, <1>1, <2>1 DEF Goto, TInv, TypesOK
<1>3. /\ seen' \in [Procs -> Nat] /\ \A q \in Procs \ {Sup} : seen'[q] = seen[q]
      /\ seen' = seen \/ (seen'[Sup] = policyRevision /\ policyMu = NoProc)
  BY Zenon, <1>1 DEF TInv, TypesOK
<1>4. TypesOK'
  <2>1. runtimeTransportOrder(read)' # << >> /\ runtimeTransportOrder(order)' # << >>
    BY Zenon DEF TInv, runtimeTransportOrder, TypesOK
  <2>2. watched' \in Clients \cup {NoClient}
    BY Zenon DEF TInv, TypesOK
  <2> QED
    BY Zenon, <1>2, <1>3, <2>1, <2>2 DEF TInv, TypesOK
<1>5. phase \notin {"attach", "resume"}
  BY Zenon, <1>1 DEF TInv, RoleOK
<1>6. job[Sup].goal \notin SupGoals \cup {"start"}
  BY Zenon, <1>1 DEF TInv, RoleOK
<1>7. ASSUME NEW q \in Procs PROVE RoleOK(q)' /\ LockOK(q)'
  <2>1. RoleOK(q) /\ LockOK(q)
    BY Zenon DEF TInv
  <2>2. CASE q # Sup
    <3>1. pc'[q] = pc[q] /\ job'[q] = job[q]
      BY Zenon, <1>2, <2>2
    <3> QED
      BY Zenon, <2>1, <3>1 DEF RoleOK, LockOK, Recovering
  <2>3. CASE q = Sup
    <3>1. RoleOK(Sup)'
      BY Zenon, <1>1, <1>2, <1>5, <1>6 DEF RoleOK, SupGoals
    <3>2. LockOK(Sup)'
      BY Zenon, <1>1, <1>2, <2>1, <2>3 DEF LockOK, Recovering
    <3> QED
      BY Zenon, <2>3, <3>1, <3>2
  <2> QED
    BY Zenon, <2>2, <2>3
<1>8. ASSUME NEW q \in Procs PROVE SeenOK(q)'
  <2>1. SeenOK(q) /\ policyRevision \in Nat
    BY Zenon DEF TInv, TypesOK
  <2>2. CASE seen'[q] = seen[q]
    BY Zenon, <2>1, <2>2 DEF SeenOK
  <2>3. CASE seen'[q] = policyRevision /\ policyMu = NoProc
    <3>1. policyRevision <= policyRevision
      BY <2>1
    <3> QED
      BY Zenon, <2>3, <3>1 DEF SeenOK
  <2> QED
    BY Zenon, <1>3, <2>2, <2>3
<1>9. WatchOK'
  <2>1. CASE UNCHANGED <<seen, watched>> /\ pc[Sup] # "snapshot"
    BY Zenon, <1>2, <2>1 DEF TInv, WatchOK, NoStaleTransition
  <2>2. CASE watched' = active
    BY Zenon, <1>2, <2>2 DEF WatchOK, NoStaleTransition
  <2> QED
    BY Zenon, <2>1, <2>2
<1>10. CountOK'
  <2>1. \A q \in Procs : pc'[q] = "lockTransition" <=> pc[q] = "lockTransition"
    BY Zenon, <1>2
  <2> QED
    BY Zenon, <2>1 DEF TInv, CountOK
<1>11. SignalOK'
  <2>1. \A c : Signalled(c)' <=> Signalled(c)
    BY Zenon DEF Signalled
  <2>2. \A q \in Procs \ {Sup} : Observer(q)' <=> Observer(q)
    BY Zenon, <1>3 DEF Observer
  <2>3. Behind' <=> Behind
    BY Zenon DEF Behind
  <2>4. policyMu = NoProc /\ ~policyTerminal /\ Signalled(active) => Behind
    BY Zenon DEF TInv, SignalOK
  <2>5. Signalled(active)' <=> Signalled(active)
    BY Zenon DEF Signalled
  <2>6. pc'[Sup] = "watch" /\ Observer(Sup)' /\ Signalled(watched)' => Behind
    BY Zenon, <1>2, <2>4 DEF Observer, Signalled
  <2>7. \A q \in Procs : pc'[q] \in {"discover", "recover", "in1", "moving"} => q # Sup /\ pc'[q] = pc[q]
    BY Zenon, <1>2
  <2>8. \A q \in Callers : Signalled(ops[q].client)' <=> Signalled(ops[q].client)
    BY Zenon DEF Signalled
  <2>9. \A q \in Procs \ {Sup} : /\ job'[q] = job[q]
                                 /\ Signalled(job[q].client)' <=> Signalled(job[q].client)
    BY Zenon DEF Signalled
  <2> QED
    BY Zenon, <1>1, <2>2, <2>3, <2>4, <2>5, <2>6, <2>7, <2>8, <2>9 DEF TInv, SignalOK
<1> QED
  BY Zenon, <1>4, <1>7, <1>8, <1>9, <1>10, <1>11 DEF TInv

\* The supervisor finds its context done.
LEMMA supervisorStopsOK == ASSUME TInv, supervisorStops PROVE TInv'
<1>1. /\ pc[Sup] \in {"snapshot", "watch", "probe", "probing"} /\ Goto(Sup, "exited")
      /\ watched' = NoClient
      /\ UNCHANGED <<active, state, ops, conn, core, order, read, rediscovered, policyRevision,
                     policyTerminal, policyMu, transMu, seen, job, phase, resumed>>
  BY Zenon DEF supervisorStops, gateVars, NotSupervising, policyVars, lifeVars
<1>2. "exited" \in Rest /\ TypesOK
  BY Zenon DEF Rest, Woken, TInv
<1>3. Rests(Sup) /\ pc'[Sup] = "exited"
  BY Zenon, <1>1, <1>2, GotoRests, MainIsProc
<1>4. job[Sup].goal \notin SupGoals \cup {"start"}
  BY Zenon, <1>1, IdleJob, MainIsProc
<1>5. NoNewSignal /\ job' \in [Procs -> JobType] /\ policyTerminal' \in BOOLEAN
  BY Zenon, <1>1, SameConns DEF TInv, TypesOK
<1> QED
  BY Zenon, <1>1, <1>3, <1>4, <1>5, RestOK, MainIsProc

\* runtimePolicyTransportSnapshot reads revision and client together.
LEMMA snapshotOK == ASSUME TInv, GInv, runtimePolicyTransportSnapshot PROVE TInv'
<1>1. PICK l \in {"watch", "probe"} : Goto(Sup, l)
  BY Zenon DEF runtimePolicyTransportSnapshot
<1>2. /\ pc[Sup] = "snapshot" /\ policyMu = NoProc
      /\ seen' = [seen EXCEPT ![Sup] = policyRevision] /\ watched' = active
      /\ UNCHANGED <<active, state, ops, conn, core, order, read, rediscovered, policyRevision,
                     policyTerminal, policyMu, transMu, job, phase, resumed>>
  BY Zenon DEF runtimePolicyTransportSnapshot, Unlocked, gateVars, NotSupervising, policyVars, lifeVars
<1>3. active \in Clients \cup {NoClient} /\ job' \in [Procs -> JobType]
  BY Zenon, <1>2 DEF GInv, GateTypeOK, TInv, TypesOK
<1>4. l # "wantMove" /\ l \in {"watch", "probe", "probing", "wantMove"}
  BY Zenon
<1> QED
  BY Zenon, <1>1, <1>2, <1>3, <1>4, SupGoesOnOK

\* The supervisor decides on a transition.
LEMMA DecidesOK ==
  ASSUME TInv, GInv, pc[Sup] \in {"watch", "probing"}, Goto(Sup, "wantMove"),
         UNCHANGED <<gateVars, NotSupervising, transMu, seen, watched, lifeVars>>,
         NEW new \in JobType, new.goal \in SupGoals, new.stage = "begin",
         job' = [job EXCEPT ![Sup] = new]
  PROVE  TInv'
<1>1. /\ job' \in [Procs -> JobType] /\ job'[Sup] = new /\ \A q \in Procs \ {Sup} : job'[q] = job[q]
  BY Zenon, OneJob, MainIsProc
<1>2. UNCHANGED <<active, state, ops, conn, core, order, read, rediscovered, policyRevision,
                  policyTerminal, policyMu, transMu, phase, resumed, seen, watched>>
  BY Zenon DEF gateVars, NotSupervising, policyVars, lifeVars
<1>3. active \in Clients \cup {NoClient}
  BY Zenon DEF GInv, GateTypeOK
<1> QED
  BY Zenon, <1>1, <1>2, <1>3, SupGoesOnOK

\* The supervisor comes back, or recovers a signal that it has observed.
LEMMA SupReturnsOK ==
  ASSUME TInv, pc[Sup] \in {"watch", "probe", "probing"}, NEW l \in {"snapshot", "recover", "exited"},
         Goto(Sup, l), l = "recover" /\ Observer(Sup) => Behind,
         UNCHANGED <<active, ops, NotSupervising, transMu, seen, watched, job, phase, resumed>>,
         state = "stopped" => state' = "stopped"
  PROVE  TInv'
<1>1. l \in Rest \cup {"recover", "closeRetired"} /\ TypesOK
  BY Zenon DEF Rest, Woken, TInv
<1>2. Rests(Sup) /\ pc'[Sup] = l
  BY Zenon, <1>1, GotoRests, MainIsProc
<1>3. job[Sup].goal \notin SupGoals \cup {"start"}
  BY Zenon, IdleJob, MainIsProc
<1>4. UNCHANGED <<conn, core, order, read, rediscovered, policyRevision, policyTerminal, policyMu>>
  BY Zenon DEF NotSupervising, policyVars
<1>5. /\ NoNewSignal /\ job' \in [Procs -> JobType] /\ policyTerminal' \in BOOLEAN
      /\ watched' \in Clients \cup {NoClient}
  BY Zenon, <1>4, SameConns DEF TInv, TypesOK
<1>6. pc'[Sup] = "recover" /\ Observer(Sup)' => Behind
  BY Zenon, <1>2, <1>4 DEF Observer
<1> QED
  BY Zenon, <1>2, <1>3, <1>4, <1>5, <1>6, RestOK, MainIsProc

\* The job that a supervisor's decision makes.
LEMMA DecidedJob ==
  ASSUME NEW g \in SupGoals, NEW b \in BOOLEAN, NEW t \in {"ws", "pull"}
  PROVE  \A new : new = [NoJob EXCEPT !.goal = g, !.reconnect = b, !.target = t] =>
                    new \in JobType /\ new.goal \in SupGoals /\ new.stage = "begin"
<1>1. ASSUME NEW new, new = [NoJob EXCEPT !.goal = g, !.reconnect = b, !.target = t]
      PROVE  new = [goal |-> g, reconnect |-> b, target |-> t, stage |-> "begin",
                    client |-> NoClient, waits |-> NoProc, deferred |-> FALSE]
  BY Zenon, <1>1 DEF NoJob
<1>2. ASSUME NEW new, new = [goal |-> g, reconnect |-> b, target |-> t, stage |-> "begin",
                             client |-> NoClient, waits |-> NoProc, deferred |-> FALSE]
      PROVE  new \in JobType /\ new.goal \in SupGoals /\ new.stage = "begin"
  <2>1. new \in JobType
    BY <1>2 DEF JobType
  <2>2. new.goal = g /\ new.stage = "begin"
    BY <1>2
  <2> QED
    BY Zenon, <2>1, <2>2
<1> QED
  BY Zenon, <1>1, <1>2

\* The watched WebSocket is done.
LEMMA supervisorDisconnectedOK == ASSUME TInv, GInv, supervisorDisconnected PROVE TInv'
<1>1. /\ pc[Sup] = "watch" /\ Dead(watched)
      /\ UNCHANGED <<gateVars, NotSupervising, transMu, seen, watched, lifeVars>>
  BY Zenon DEF supervisorDisconnected
<1>2. CASE conn[watched] = "policy"
  <2>1. Goto(Sup, "recover") /\ UNCHANGED job
    BY Zenon, <1>2 DEF supervisorDisconnected
  <2>2. Signalled(watched)
    BY Zenon, <1>1, <1>2 DEF Signalled, Dead
  <2>3. Observer(Sup) => Behind
    BY Zenon, <1>1, <2>2 DEF TInv, SignalOK
  <2> QED
    BY Zenon, <1>1, <2>1, <2>3, SupReturnsOK DEF gateVars, lifeVars
<1>3. CASE conn[watched] # "policy"
  <2>1. PICK g \in SupGoals : g = IF autoAllowsPullFallback THEN "toPull" ELSE "reconnect"
    BY Zenon DEF SupGoals
  <2>2. PICK t \in {"ws", "pull"} : t = IF autoAllowsPullFallback THEN "pull" ELSE "ws"
    BY Zenon
  <2>3. PICK b \in BOOLEAN : b = TRUE
    BY Zenon
  <2>6. PICK new : new = [NoJob EXCEPT !.goal = g, !.reconnect = b, !.target = t]
    BY Zenon
  <2>4. Goto(Sup, "wantMove") /\ job' = [job EXCEPT ![Sup] = new]
    BY Zenon, <1>3, <2>1, <2>2, <2>3, <2>6 DEF supervisorDisconnected
  <2>5. new \in JobType /\ new.goal \in SupGoals /\ new.stage = "begin"
    BY Zenon, <2>6, DecidedJob
  <2> QED
    BY Zenon, <1>1, <2>4, <2>5, DecidesOK
<1> QED
  BY Zenon, <1>2, <1>3

\* The supervisor begins a probe, if the policy is the one it observed.
LEMMA supervisorProbesOK == ASSUME TInv, GInv, supervisorProbes PROVE TInv'
<1>1. /\ pc[Sup] = "probe" /\ UNCHANGED <<NotSupervising, transMu, seen, watched, job, lifeVars>>
  BY Zenon DEF supervisorProbes
<1>2. CASE setState("probing_ws") /\ Goto(Sup, "probing")
  <2>1. UNCHANGED <<active, ops>> /\ (state = "stopped" => state' = "stopped")
    BY Zenon, <1>2 DEF setState
  <2>2. UNCHANGED <<conn, core, order, read, rediscovered, policyRevision, policyTerminal, policyMu,
                    transMu, seen, watched, job, phase, resumed>>
    BY Zenon, <1>1 DEF NotSupervising, policyVars, lifeVars
  <2>3. active \in Clients \cup {NoClient} /\ job' \in [Procs -> JobType]
    BY Zenon, <2>2 DEF GInv, GateTypeOK, TInv, TypesOK
  <2> QED
    BY Zenon, <1>1, <1>2, <2>1, <2>2, <2>3, SupGoesOnOK
<1>3. CASE UNCHANGED gateVars /\ Goto(Sup, "snapshot")
  BY Zenon, <1>1, <1>3, SupReturnsOK DEF gateVars, lifeVars
<1> QED
  BY Zenon, <1>2, <1>3 DEF supervisorProbes

\* The probe succeeds or fails.
LEMMA supervisorProbedOK == ASSUME TInv, GInv, supervisorProbed PROVE TInv'
<1>1. /\ pc[Sup] = "probing" /\ UNCHANGED <<NotSupervising, transMu, seen, watched>>
  BY Zenon DEF supervisorProbed
<1>2. CASE ProbeSucceeds
  <2>1. PICK b \in BOOLEAN : b = TRUE
    BY Zenon
  <2>2. PICK new : new = [NoJob EXCEPT !.goal = "toWS", !.reconnect = b, !.target = "ws"]
    BY Zenon
  <2>3. Goto(Sup, "wantMove") /\ job' = [job EXCEPT ![Sup] = new] /\ UNCHANGED <<gateVars, lifeVars>>
    BY Zenon, <1>2, <2>1, <2>2 DEF ProbeSucceeds
  <2>4. "toWS" \in SupGoals
    BY Zenon DEF SupGoals
  <2>5. new \in JobType /\ new.goal \in SupGoals /\ new.stage = "begin"
    BY Zenon, <2>2, <2>4, DecidedJob
  <2> QED
    BY Zenon, <1>1, <2>3, <2>5, DecidesOK
<1>3. CASE ProbeFails
  <2>1. /\ UNCHANGED <<active, ops, job>> /\ (state = "stopped" => state' = "stopped")
        /\ UNCHANGED <<phase, resumed>>
        /\ Goto(Sup, "snapshot") \/ Goto(Sup, "exited") \/ (Stale /\ Goto(Sup, "recover"))
    BY Zenon, <1>3 DEF ProbeFails, setState, gateVars, lifeVars, reportFatal
  <2> QED
    BY Zenon, <1>1, <2>1, SupReturnsOK, StaleIsBehind
<1> QED
  BY Zenon, <1>2, <1>3 DEF supervisorProbed

\* The supervisor takes transportTransitionMu at the revision that it observed.
LEMMA LockedOK ==
  ASSUME TInv, pc[Sup] = "wantMove", Unlocked, Observed, transMu' = Sup, Goto(Sup, "moving"),
         UNCHANGED <<gateVars, NotSupervising, seen, watched, job, phase, resumed>>
  PROVE  TInv'
<1>1. Sup \in Procs /\ Sup # Main /\ Sup \notin Callers /\ Callers \subseteq Procs /\ NoProc \notin Procs
  BY Zenon, MainIsProc, TransportAssumption
<1>2. UNCHANGED <<active, state, ops, conn, core, order, read, rediscovered, policyRevision,
                  policyTerminal, policyMu>>
  BY Zenon DEF gateVars, NotSupervising, policyVars
<1>3. pc' \in [Procs -> Locs] /\ pc'[Sup] = "moving" /\ \A q \in Procs \ {Sup} : pc'[q] = pc[q]
  BY Zenon, <1>1 DEF Goto, TInv, TypesOK, Locs
<1>4. TypesOK'
  <2>1. runtimeTransportOrder(read)' # << >> /\ runtimeTransportOrder(order)' # << >>
    BY Zenon, <1>2 DEF TInv, runtimeTransportOrder, TypesOK
  <2> QED
    BY Zenon, <1>1, <1>2, <1>3, <2>1 DEF TInv, TypesOK
<1>5. job[Sup].goal \in SupGoals /\ job[Sup].stage = "begin"
  BY Zenon, <1>1 DEF TInv, RoleOK
<1>6. ASSUME NEW q \in Procs PROVE RoleOK(q)' /\ LockOK(q)' /\ SeenOK(q)'
  <2>1. RoleOK(q) /\ LockOK(q) /\ SeenOK(q)
    BY Zenon DEF TInv
  <2>2. SeenOK(q)'
    BY Zenon, <1>2, <2>1 DEF SeenOK
  <2>3. CASE q # Sup
    <3>1. pc'[q] = pc[q] /\ job' = job
      BY Zenon, <1>3, <2>3
    <3> QED
      BY Zenon, <1>1, <1>2, <2>1, <2>2, <2>3, <3>1 DEF RoleOK, LockOK, Recovering, Unlocked
  <2>4. CASE q = Sup
    <3>1. RoleOK(Sup)'
      BY Zenon, <1>1, <1>3, <1>5, <2>1, <2>4 DEF RoleOK, SupGoals, Late
    <3>2. LockOK(Sup)'
      BY Zenon, <1>1, <1>2, <1>3, <1>5 DEF LockOK, Recovering, SupGoals, Unlocked
    <3> QED
      BY Zenon, <2>2, <2>4, <3>1, <3>2
  <2> QED
    BY Zenon, <2>3, <2>4
<1>7. WatchOK'
  BY Zenon, <1>2, <1>3 DEF TInv, WatchOK, NoStaleTransition, Observed
<1>8. CountOK'
  <2>1. \A q \in Procs : pc'[q] = "lockTransition" <=> pc[q] = "lockTransition"
    BY Zenon, <1>3
  <2> QED
    BY Zenon, <1>2, <2>1 DEF TInv, CountOK
<1>9. SignalOK'
  <2>1. \A q \in Procs : Observer(q)' <=> Observer(q)
    BY Zenon, <1>2 DEF Observer
  <2>2. Behind' <=> Behind
    BY Zenon, <1>2 DEF Behind
  <2>3. (Signalled(active)' <=> Signalled(active)) /\ pc'[Sup] # "watch"
    BY Zenon, <1>2, <1>3 DEF Signalled
  <2>4. \A q \in Procs : pc'[q] \in {"discover", "recover", "in1"} => pc'[q] = pc[q]
    BY Zenon, <1>3
  <2>5. \A q \in Procs : /\ pc'[q] = "moving" /\ job'[q].stage \in Late => pc[q] = "moving"
                         /\ job'[q] = job[q]
                         /\ Signalled(job[q].client)' <=> Signalled(job[q].client)
    BY Zenon, <1>2, <1>3, <1>5 DEF Signalled, Late
  <2>6. \A q \in Callers : Signalled(ops[q].client)' <=> Signalled(ops[q].client)
    BY Zenon, <1>2 DEF Signalled
  <2> QED
    BY Zenon, <1>1, <1>2, <2>1, <2>2, <2>3, <2>4, <2>5, <2>6 DEF TInv, SignalOK
<1> QED
  BY Zenon, <1>4, <1>6, <1>7, <1>8, <1>9 DEF TInv

\* lockRuntimeTransportTransitionAtPolicyRevision.
LEMMA lockTransitionOK == ASSUME TInv, lockTransition PROVE TInv'
<1>1. pc[Sup] = "wantMove" /\ Unlocked /\ UNCHANGED <<gateVars, NotSupervising, seen, watched>>
  BY Zenon DEF lockTransition
<1>2. CASE Observed
  <2>1. ~policyTerminal
    BY Zenon, <1>2 DEF Observed
  <2>2. transMu' = Sup /\ Goto(Sup, "moving") /\ UNCHANGED <<job, lifeVars>>
    BY Zenon, <1>2, <2>1 DEF lockTransition
  <2> QED
    BY Zenon, <1>1, <1>2, <2>2, LockedOK DEF lifeVars
<1>3. CASE ~Observed
  <2>1. /\ UNCHANGED transMu /\ job' = [job EXCEPT ![Sup] = NoJob]
        /\ SupEnds \/ (Goto(Sup, "snapshot") /\ UNCHANGED <<phase, resumed>>)
    BY Zenon, <1>3 DEF lockTransition, lifeVars
  <2>2. TypesOK /\ "snapshot" \in Rest
    BY Zenon DEF TInv, Rest, Woken
  <2>3. RestsPlain(Sup)
    BY Zenon, <2>1, <2>2, SupEndsRests, GotoRests, MainIsProc
  <2>4. Rests(Sup) /\ pc'[Sup] \notin {"recover", "closeRetired"}
    BY Zenon, <2>3 DEF RestsPlain, Rest, Woken, MainLocs
  <2>5. /\ job' \in [Procs -> JobType] /\ job'[Sup] = NoJob
        /\ \A q \in Procs \ {Sup} : job'[q] = job[q]
    BY Zenon, <2>1, NoJobTyped, OneJob, MainIsProc
  <2>6. job'[Sup].goal \notin SupGoals \cup {"start"}
    BY Zenon, <2>5, NoJobTyped DEF SupGoals
  <2>7. UNCHANGED <<active, state, ops, conn, core, order, read, rediscovered, policyRevision,
                    policyTerminal, policyMu>>
    BY Zenon, <1>1 DEF gateVars, NotSupervising, policyVars
  <2>8. NoNewSignal /\ policyTerminal' \in BOOLEAN /\ watched' \in Clients \cup {NoClient}
    BY Zenon, <1>1, <2>7, SameConns DEF TInv, TypesOK
  <2> QED
    BY Zenon, <1>1, <2>1, <2>4, <2>5, <2>6, <2>7, <2>8, RestOK, MainIsProc
<1> QED
  BY Zenon, <1>2, <1>3

-----------------------------------------------------------------------------
(* Capacity reattach.                                                      *)

\* retireWebSocketForCapacity.
LEMMA retireOK == ASSUME TInv, NEW p \in Timed, retireWebSocketForCapacity(p) PROVE TInv'
<1>1. p \in Procs /\ p # Sup /\ p \in Callers
  BY Zenon, MainIsProc, TransportAssumption
<1>2. /\ pc[p] = "retire" /\ UNCHANGED <<active, state, ops, conn, core, order, read, rediscovered,
           policyRevision, policyTerminal, policyMu, transMu, seen, watched, phase, resumed>>
  BY Zenon DEF retireWebSocketForCapacity, NotReattaching, policyVars, lifeVars, gateVars, retireActive
<1>3. "idle" \in Rest /\ TypesOK /\ "closeRetired" \notin Rest
  BY Zenon DEF Rest, Woken, MainLocs, TInv
<1>4. \/ Goto(p, "idle") /\ UNCHANGED job
      \/ Goto(p, "closeRetired") /\ active \in Conns /\ job' = [job EXCEPT ![p].client = active]
  BY Zenon DEF retireWebSocketForCapacity, AttachedWithoutCapacity
<1>5. job[p].goal \notin SupGoals \cup {"start"}
  BY Zenon, <1>1, <1>2, IdleJob
<1>6. CASE Goto(p, "idle") /\ UNCHANGED job
  <2>1. RestsPlain(p)
    BY Zenon, <1>1, <1>2, <1>3, <1>6, GotoRests
  <2> QED
    BY Zenon, <1>1, <1>2, <1>6, <2>1, StayOK
<1>7. CASE Goto(p, "closeRetired") /\ active \in Conns /\ job' = [job EXCEPT ![p].client = active]
  <2>1. Rests(p) /\ pc'[p] = "closeRetired"
    BY Zenon, <1>1, <1>2, <1>3, <1>7, GotoRests
  <2>2. job[p] \in JobType /\ active \in Clients \cup {NoClient}
    BY Zenon, <1>1, <1>3, <1>7, TransportAssumption DEF TypesOK
  <2>3. PICK new : new = [job[p] EXCEPT !.client = active]
    BY Zenon
  <2>4. new \in JobType
    BY Zenon, <2>2, <2>3, FieldTyped
  <2>5. new.client = active /\ new.goal = job[p].goal
    BY <2>2, <2>3 DEF JobType
  <2>6. job' = [job EXCEPT ![p] = new]
    BY Zenon, <1>7, <2>3
  <2>7. job' \in [Procs -> JobType] /\ job'[p] = new /\ \A q \in Procs \ {p} : job'[q] = job[q]
    BY Zenon, <1>1, <2>4, <2>6, OneJob
  <2>8. job'[p].client \in Conns /\ job'[p].goal \notin SupGoals \cup {"start"}
    BY Zenon, <1>5, <1>7, <2>5, <2>7
  <2>9. NoNewSignal /\ policyTerminal' \in BOOLEAN /\ watched' \in Clients \cup {NoClient}
    BY Zenon, <1>2, SameConns DEF TInv, TypesOK
  <2> QED
    BY Zenon, <1>1, <1>2, <2>1, <2>7, <2>8, <2>9, RestOK
<1> QED
  BY Zenon, <1>4, <1>6, <1>7

\* The retired WebSocket is closed, or restored.
LEMMA closeRetiredOK == ASSUME TInv, NEW p \in Timed, closeRetired(p) PROVE TInv'
<1>1. p \in Procs /\ p # Sup /\ p \in Callers
  BY Zenon, MainIsProc, TransportAssumption
<1>2. /\ pc[p] = "closeRetired" /\ Goto(p, "idle") /\ job' = [job EXCEPT ![p] = NoJob]
      /\ UNCHANGED <<active, state, ops, core, order, read, rediscovered,
           policyRevision, policyTerminal, policyMu, transMu, seen, watched, phase, resumed>>
  BY Zenon DEF closeRetired, NotReattaching, policyVars, lifeVars, gateVars, restoreActive
<1>3. "idle" \in Rest /\ TypesOK
  BY Zenon DEF Rest, Woken, TInv
<1>4. Rests(p) /\ pc'[p] = "idle"
  BY Zenon, <1>1, <1>2, <1>3, GotoRests
<1>5. /\ job' \in [Procs -> JobType] /\ job'[p] = NoJob
      /\ \A q \in Procs \ {p} : job'[q] = job[q]
  BY Zenon, <1>1, <1>2, NoJobTyped, OneJob
<1>6. job'[p].goal \notin SupGoals \cup {"start"}
  BY Zenon, <1>5, NoJobTyped DEF SupGoals
<1>7. NoNewSignal
  BY Zenon, SameConns, CloseQuiet DEF closeRetired
<1>8. policyTerminal' \in BOOLEAN /\ watched' \in Clients \cup {NoClient}
  BY Zenon, <1>2 DEF TInv, TypesOK
<1> QED
  BY Zenon, <1>1, <1>2, <1>4, <1>5, <1>6, <1>7, <1>8, RestOK

-----------------------------------------------------------------------------
(* Start, shutdown, loops and handlers.                                    *)

\* A step of a process that touches neither gate, policy nor connections.
LEMMA LivesOK ==
  ASSUME TInv, NEW p \in Procs,
         pc[p] \in {"idle", "running", "waitExec", "stopGate", "waitLoops"}, RestsPlain(p),
         UNCHANGED <<active, state, ops>>, UNCHANGED NotLiving
  PROVE  TInv'
<1>1. UNCHANGED <<transMu, policyMu, order, read, core, rediscovered, policyRevision, seen,
                  policyTerminal, conn, watched, job>>
  BY Zenon DEF NotLiving, envVars, policyVars
<1> QED
  BY Zenon, <1>1, StayOK

\* Shutdown stops the gate.
LEMMA stopGateOK == ASSUME TInv, GInv, stopGate PROVE TInv'
<1>1. /\ pc[Main] = "stopGate" /\ Goto(Main, "stopping") /\ UNCHANGED NotLiving
      /\ UNCHANGED <<phase, resumed>> /\ state' = "stopped" /\ active' = NoClient
      /\ ops' = CancelGeneration
  BY Zenon DEF stopGate, beginTransition, lifeVars
<1>2. UNCHANGED <<transMu, policyMu, order, read, core, rediscovered, policyRevision, seen,
                  policyTerminal, conn, watched, job>>
  BY Zenon, <1>1 DEF NotLiving, envVars, policyVars
<1>3. "stopping" \in Rest /\ TypesOK
  BY Zenon DEF Rest, MainLocs, TInv
<1>4. Rests(Main) /\ pc'[Main] = "stopping"
  BY Zenon, <1>1, <1>3, GotoRests, MainIsProc
<1>5. job[Main].goal \notin SupGoals \cup {"start"}
  BY Zenon, <1>1, IdleJob, MainIsProc
<1>6. /\ NoNewSignal /\ job' \in [Procs -> JobType] /\ policyTerminal' \in BOOLEAN
      /\ watched' \in Clients \cup {NoClient}
  BY Zenon, <1>2, SameConns DEF TInv, TypesOK
<1>7. \A q \in Callers : ops'[q].client = ops[q].client
  BY Zenon, <1>1, CanceledClients
<1> QED
  BY Zenon, <1>1, <1>2, <1>4, <1>5, <1>6, <1>7, RestOK, MainIsProc

\* Shutdown closes the session.
LEMMA closeSessionOK == ASSUME TInv, closeSession PROVE TInv'
<1>1. /\ pc[Main] = "stopping" /\ Goto(Main, "waitLoops") /\ closeTransport(moves[Main].previous)
      /\ UNCHANGED <<phase, resumed, active, state, ops, transMu, policyMu, order, read, core,
                     rediscovered, policyRevision, seen, policyTerminal, watched, job>>
  BY Zenon DEF closeSession, awaitOperations, policyVars
<1>2. "waitLoops" \in Rest /\ TypesOK
  BY Zenon DEF Rest, MainLocs, TInv
<1>3. Rests(Main) /\ pc'[Main] = "waitLoops"
  BY Zenon, <1>1, <1>2, GotoRests, MainIsProc
<1>4. job[Main].goal \notin SupGoals \cup {"start"}
  BY Zenon, <1>1, IdleJob, MainIsProc
<1>5. /\ NoNewSignal /\ job' \in [Procs -> JobType] /\ policyTerminal' \in BOOLEAN
      /\ watched' \in Clients \cup {NoClient}
  BY Zenon, <1>1, CloseQuiet DEF TInv, TypesOK
<1> QED
  BY Zenon, <1>1, <1>3, <1>4, <1>5, RestOK, MainIsProc

\* The steps of Start and shutdown.
LEMMA MainStepOK == ASSUME TInv, GInv, MainStep PROVE TInv'
<1>1. TypesOK /\ {"stopGate", "exited"} \subseteq Rest
  BY Zenon DEF TInv, Rest, MainLocs, Woken
<1>2. CASE mainWakes
  <2>1. pc[Main] = "running" /\ EnterShutdown /\ UNCHANGED <<active, state, ops>> /\ UNCHANGED NotLiving
    BY Zenon, <1>2 DEF mainWakes, gateVars
  <2> QED
    BY Zenon, <1>1, <2>1, ShutdownRests, LivesOK, MainIsProc
<1>3. CASE waitExecutions
  <2>1. /\ pc[Main] = "waitExec" /\ Goto(Main, "stopGate") /\ phase' = "stopGate" /\ UNCHANGED resumed
        /\ UNCHANGED <<active, state, ops>> /\ UNCHANGED NotLiving
    BY Zenon, <1>3 DEF waitExecutions, gateVars
  <2>2. RestsPlain(Main)
    BY Zenon, <1>1, <2>1, GotoRests, MainIsProc DEF Starting
  <2> QED
    BY Zenon, <2>1, <2>2, LivesOK, MainIsProc
<1>4. CASE loopsWait
  <2>1. /\ pc[Main] = "waitLoops" /\ Goto(Main, "exited") /\ phase' = "done" /\ UNCHANGED resumed
        /\ UNCHANGED <<active, state, ops>> /\ UNCHANGED NotLiving
    BY Zenon, <1>4 DEF loopsWait, gateVars
  <2>2. RestsPlain(Main)
    BY Zenon, <1>1, <2>1, GotoRests, MainIsProc DEF Starting
  <2> QED
    BY Zenon, <2>1, <2>2, LivesOK, MainIsProc
<1> QED
  BY Zenon, <1>2, <1>3, <1>4, stopGateOK, closeSessionOK DEF MainStep

\* A loop or a handler returns.
LEMMA LoopEndsOK == ASSUME TInv, NEW p \in Callers, loopExits(p) \/ handlerReturns(p) PROVE TInv'
<1>1. p \in Procs /\ TypesOK /\ "exited" \in Rest
  BY Zenon, MainIsProc DEF TInv, Rest, Woken
<1>2. /\ pc[p] = "idle" /\ Goto(p, "exited") /\ UNCHANGED <<phase, resumed>>
      /\ UNCHANGED <<active, state, ops>> /\ UNCHANGED NotLiving
  BY Zenon DEF loopExits, handlerReturns, gateVars, lifeVars
<1>3. RestsPlain(p)
  BY Zenon, <1>1, <1>2, GotoRests
<1> QED
  BY Zenon, <1>1, <1>2, <1>3, LivesOK

-----------------------------------------------------------------------------
(* The environment.                                                        *)

\* A signal reaches the worker only when it is behind.
LEMMA OutsideQuietOK ==
  ASSUME TInv, UNCHANGED NotOutside, UNCHANGED <<phase, resumed>>,
         conn' \in [Conns -> {"open", "lost", "policy", "closed"}],
         core' \in 1..Len(Policies), order \in 1..core', read \in 1..core',
         \/ NoNewSignal /\ core' = core
         \/ Behind'
  PROVE  TInv'
<1>1. UNCHANGED <<active, state, ops, order, read, rediscovered, policyRevision, policyTerminal,
                  policyMu, transMu, pc, seen, job, watched>>
  BY Zenon DEF NotOutside, gateVars, policyVars
<1>2. TypesOK'
  <2>1. runtimeTransportOrder(read)' # << >> /\ runtimeTransportOrder(order)' # << >>
    BY Zenon, <1>1 DEF TInv, runtimeTransportOrder, TypesOK
  <2> QED
    BY Zenon, <1>1, <2>1 DEF TInv, TypesOK
<1>3. ASSUME NEW q \in Procs PROVE RoleOK(q)' /\ LockOK(q)' /\ SeenOK(q)'
  <2>1. RoleOK(q) /\ LockOK(q) /\ SeenOK(q)
    BY Zenon DEF TInv
  <2> QED
    BY Zenon, <1>1, <2>1 DEF RoleOK, LockOK, SeenOK, Recovering
<1>4. WatchOK' /\ CountOK'
  BY Zenon, <1>1 DEF TInv, WatchOK, CountOK, NoStaleTransition
<1>5. SignalOK'
  <2>1. CASE Behind'
    BY Zenon, <2>1 DEF SignalOK
  <2>2. CASE NoNewSignal /\ core' = core
    <3>1. (Behind' <=> Behind) /\ \A q \in Procs : Observer(q)' <=> Observer(q)
      BY Zenon, <1>1, <2>2 DEF Behind, Observer
    <3>2. (Signalled(active)' => Signalled(active)) /\ (Signalled(watched)' => Signalled(watched))
      BY Zenon, <1>1, <2>2 DEF Signalled, NoNewSignal
    <3>3. \A q \in Callers : Signalled(ops[q].client)' => Signalled(ops[q].client)
      BY Zenon, <1>1, <2>2 DEF Signalled, NoNewSignal
    <3>4. \A q \in Procs : Signalled(job[q].client)' => Signalled(job[q].client)
      BY Zenon, <1>1, <2>2 DEF Signalled, NoNewSignal
    <3>5. Sup \in Procs /\ Callers \subseteq Procs
      BY Zenon, MainIsProc
    <3> QED
      BY Zenon, <1>1, <3>1, <3>2, <3>3, <3>4, <3>5 DEF TInv, SignalOK
  <2> QED
    BY Zenon, <2>1, <2>2
<1> QED
  BY Zenon, <1>2, <1>3, <1>4, <1>5 DEF TInv

\* The steps of the environment.
LEMMA OutsideOK == ASSUME TInv, Outside PROVE TInv'
<1>1. /\ TypesOK /\ conn \in [Conns -> {"open", "lost", "policy", "closed"}]
      /\ core \in 1..Len(Policies) /\ order \in 1..core /\ read \in 1..core
  BY Zenon DEF TInv, TypesOK
<1>2. UNCHANGED NotOutside /\ UNCHANGED <<phase, resumed>>
  BY Zenon DEF Outside, stopAsked, connectionEnds, policyChanges, admissionReopens, lifeVars
<1>3. CASE UNCHANGED <<conn, core>>
  BY Zenon, <1>1, <1>2, <1>3, SameConns, OutsideQuietOK
<1>4. CASE connectionEnds
  <2>1. PICK c \in Conns : \/ conn' = [conn EXCEPT ![c] = "lost"]
                           \/ Stale /\ conn' = [conn EXCEPT ![c] = "policy"]
    BY Zenon, <1>4 DEF connectionEnds
  <2>2. core' = core /\ order' = order
    BY Zenon, <1>4 DEF connectionEnds, NotOutside, policyVars
  <2>3. CASE conn' = [conn EXCEPT ![c] = "lost"]
    <3>1. NoNewSignal
      BY Zenon, <1>1, <2>3 DEF NoNewSignal
    <3> QED
      BY Zenon, <1>1, <1>2, <2>2, <3>1, OutsideQuietOK DEF NoNewSignal
  <2>4. CASE Stale /\ conn' = [conn EXCEPT ![c] = "policy"]
    <3>1. Behind'
      BY Zenon, <2>2, <2>4, StaleIsBehind DEF Behind
    <3>2. conn' \in [Conns -> {"open", "lost", "policy", "closed"}]
      BY Zenon, <1>1, <2>4
    <3> QED
      BY Zenon, <1>1, <1>2, <2>2, <3>1, <3>2, OutsideQuietOK
  <2> QED
    BY Zenon, <2>1, <2>3, <2>4
<1>5. CASE policyChanges
  <2>1. core < Len(Policies) /\ core' = core + 1 /\ UNCHANGED <<conn, order>>
    BY Zenon, <1>5 DEF policyChanges, NotOutside, policyVars
  <2>2. Len(Policies) \in Nat
    BY TransportAssumption
  <2>3. core' \in 1..Len(Policies) /\ order \in 1..core' /\ read \in 1..core' /\ order < core'
    BY <1>1, <2>1, <2>2
  <2>4. Behind'
    BY Zenon, <2>1, <2>3 DEF Behind
  <2> QED
    BY Zenon, <1>1, <1>2, <2>1, <2>3, <2>4, OutsideQuietOK
<1> QED
  BY Zenon, <1>3, <1>4, <1>5 DEF Outside, stopAsked, admissionReopens, envVars

-----------------------------------------------------------------------------
(* The gate's steps.                                                       *)

\* A call uses begin and done.
LEMMA CallsUseGate ==
  ASSUME NEW p \in Callers, StartCall(p) \/ CallStep(p) \/ endOperation(p)
  PROVE  [GateNext]_gateVars
<1>1. UNCHANGED gateVars \/ begin(p) \/ done(p)
  BY Zenon DEF StartCall, CallStep, policyRecoverySnapshot, beginOperation,
               failRuntimePolicyRecovery, endOperation
<1> QED
  BY Zenon, <1>1 DEF GateNext

\* A transition that fails gives up.
LEMMA FailsUseGate ==
  ASSUME NEW p \in Procs, AttachFailed(p) \/ AttachRefused(p) \/ \E r : MoveFails(p, r)
  PROVE  UNCHANGED gateVars \/ giveUp(p)
  BY Zenon DEF AttachFailed, AttachRefused, MoveFails

\* A transition begins, waits, and publishes or gives up.
LEMMA MovesUseGate == ASSUME TInv, NEW p \in Procs, MoveStep(p) PROVE [GateNext]_gateVars
<1>1. p \in Movers
  BY Zenon, TransportAssumption
<1>2. CASE MoveBegins(p)
  <2>1. SwitchState(p) \in {"switching_to_pull", "switching_to_ws", "connecting_ws"}
    BY Zenon DEF SwitchState
  <2>3. PICK s \in States : s = SwitchState(p)
    BY Zenon, <2>1 DEF States
  <2>2. beginTransition(p, s) \/ beginTransitionStopped(p)
    BY Zenon, <1>2, <2>3 DEF MoveBegins
  <2> QED
    BY Zenon, <1>1, <2>2 DEF GateNext
<1>3. CASE MoveDrained(p)
  <2>1. awaitOperations(p) \/ UNCHANGED gateVars
    BY Zenon, <1>3 DEF MoveDrained
  <2> QED
    BY Zenon, <1>1, <2>1 DEF GateNext
<1>4. CASE Attach(p) \/ Resume(p) \/ AwaitHandler(p)
  <2>1. UNCHANGED gateVars \/ giveUp(p)
    BY Zenon, <1>4, FailsUseGate DEF Attach, Resume, AwaitHandler
  <2> QED
    BY Zenon, <1>1, <2>1 DEF GateNext
<1>5. CASE publishRuntimeTransport(p)
  <2>1. activateIfCurrent(p, Kind(job[p].client), job[p].client)
    BY Zenon, <1>5 DEF publishRuntimeTransport
  <2>2. job[p].client \in Clients
    BY Zenon, <1>5 DEF publishRuntimeTransport, TInv, RoleOK, Late
  <2>3. Kind(job[p].client) \in {"ws", "pull"}
    BY Zenon DEF Kind
  <2> QED
    BY Zenon, <1>1, <2>1, <2>2, <2>3 DEF GateNext
<1> QED
  BY Zenon, <1>2, <1>3, <1>4, <1>5 DEF MoveStep

\* The supervisor sets the state of a probe.
LEMMA SupervisorUsesGate == ASSUME SupStep PROVE [GateNext]_gateVars
<1>1. UNCHANGED gateVars \/ setState("probing_ws") \/ setState("pull_active")
  BY Zenon DEF SupStep, supervisorStops, runtimePolicyTransportSnapshot, supervisorDisconnected,
               supervisorProbes, supervisorProbed, ProbeSucceeds, ProbeFails, lockTransition
<1>2. "probing_ws" \in States \ {"stopped"} /\ "pull_active" \in States \ {"stopped"}
  BY Zenon DEF States
<1> QED
  BY Zenon, <1>1, <1>2 DEF GateNext

\* Capacity reattach retires and restores.
LEMMA CapacityUsesGate ==
  ASSUME TInv, NEW p \in Timed, CapacityStep(p)
  PROVE  [GateNext]_gateVars
<1>1. p \in Procs /\ Conns \subseteq Clients
  BY Zenon, TransportAssumption, MainIsProc
<1>2. CASE retireWebSocketForCapacity(p)
  <2>1. UNCHANGED gateVars \/ (retireActive(active) /\ active \in Conns)
    BY Zenon, <1>2 DEF retireWebSocketForCapacity, AttachedWithoutCapacity
  <2> QED
    BY Zenon, <1>1, <2>1 DEF GateNext
<1>3. CASE closeRetired(p)
  <2>1. job[p].client \in Conns
    BY Zenon, <1>1, <1>3 DEF closeRetired, TInv, RoleOK
  <2>2. UNCHANGED gateVars \/ restoreActive(job[p].client)
    BY Zenon, <1>3 DEF closeRetired
  <2> QED
    BY Zenon, <1>1, <2>1, <2>2 DEF GateNext
<1> QED
  BY Zenon, <1>2, <1>3 DEF CapacityStep

\* Shutdown begins the last transition.
LEMMA MainUsesGate == ASSUME MainStep PROVE [GateNext]_gateVars
<1>1. UNCHANGED gateVars \/ beginTransition(Main, "stopped") \/ awaitOperations(Main)
  BY Zenon DEF MainStep, mainWakes, waitExecutions, stopGate, closeSession, loopsWait
<1>2. Main \in Movers /\ "stopped" \in States
  BY Zenon, MainIsProc, TransportAssumption DEF States
<1> QED
  BY Zenon, <1>1, <1>2 DEF GateNext

\* Every step of the worker is a step of the gate, or leaves the gate alone.
LEMMA StepsUseGate == TInv /\ [Next]_vars => [GateNext]_gateVars
<1> SUFFICES ASSUME TInv, [Next]_vars PROVE [GateNext]_gateVars
  BY Zenon
<1>1. CASE UNCHANGED vars
  BY Zenon, <1>1 DEF vars
<1>2. ASSUME NEW p \in Callers, StartCall(p) \/ CallStep(p) \/ endOperation(p) PROVE [GateNext]_gateVars
  BY Zenon, <1>2, CallsUseGate
<1>3. ASSUME NEW p \in Procs, RecoverStep(p) PROVE [GateNext]_gateVars
  BY Zenon, <1>3 DEF RecoverStep, recoverRuntimePolicy, discover, recoverRuntimePolicyLocked
<1>4. ASSUME NEW p \in Procs, MoveStep(p) PROVE [GateNext]_gateVars
  BY Zenon, <1>4, MovesUseGate
<1>5. ASSUME NEW p \in Timed, CapacityStep(p) PROVE [GateNext]_gateVars
  BY Zenon, <1>5, CapacityUsesGate
<1>6. ASSUME NEW p \in Callers, loopExits(p) \/ handlerReturns(p) PROVE [GateNext]_gateVars
  BY Zenon, <1>6 DEF loopExits, handlerReturns
<1>7. CASE Outside
  BY Zenon, <1>7 DEF Outside, stopAsked, connectionEnds, policyChanges, admissionReopens, NotOutside
<1>8. CASE Finished
  BY Zenon, <1>8 DEF Finished, vars
<1> QED
  BY Zenon, <1>1, <1>2, <1>3, <1>4, <1>5, <1>6, <1>7, <1>8, SupervisorUsesGate, MainUsesGate DEF Next

-----------------------------------------------------------------------------
(* The invariant is inductive.                                             *)

\* The invariant holds when Start attaches its first transport.
LEMMA TransportStarts == Init => TInv
<1> SUFFICES ASSUME Init PROVE TInv
  BY Zenon
<1>1. /\ conn = [c \in Conns |-> "closed"] /\ core = 1 /\ order = 1 /\ read = 1 /\ rediscovered = 0
      /\ policyRevision = 0 /\ policyTerminal = FALSE /\ policyMu = NoProc /\ transMu = Main
      /\ pc = [p \in Procs |-> IF p = Main THEN "moving" ELSE "off"]
      /\ seen = [p \in Procs |-> 0] /\ watched = NoClient /\ phase = "attach" /\ resumed = FALSE
      /\ active = NoClient
  BY Zenon DEF Init, GateInit
<1>2. Main \in Procs /\ Sup \in Procs /\ Main # Sup /\ NoProc \notin Procs /\ NoClient \notin Conns
      /\ Callers \subseteq Procs
  BY Zenon, MainIsProc, TransportAssumption, GateAssumption
<1>3. 1 \in 1..Len(Policies) /\ 1 \in 1..1 /\ 0 \in Nat /\ 0 <= 0 /\ 0 < 1
  BY TransportAssumption
<1>4. runtimeTransportOrder(1) # << >>
  BY Zenon, TransportAssumption DEF runtimeTransportOrder
<1>5. PICK first : first = [NoJob EXCEPT !.goal = "start", !.target = runtimeTransportOrder(1)[1]]
  BY Zenon
<1>6. first \in JobType /\ first.goal = "start" /\ first.stage = "begin"
  <2>1. runtimeTransportOrder(1)[1] \in {"ws", "pull"}
    BY Zenon, <1>3, <1>4, FirstAllowed
  <2>2. first = [goal |-> "start", reconnect |-> FALSE, target |-> runtimeTransportOrder(1)[1],
                 stage |-> "begin", client |-> NoClient, waits |-> NoProc, deferred |-> FALSE]
    BY Zenon, <1>5 DEF NoJob
  <2> QED
    BY Zenon, <2>1, <2>2 DEF JobType
<1>7. job = [p \in Procs |-> IF p = Main THEN first ELSE NoJob]
  BY Zenon, <1>5 DEF Init
<1>8. job[Main] = first /\ \A p \in Procs \ {Main} : job[p] = NoJob
  BY Zenon, <1>2, <1>7
<1>9. pc[Main] = "moving" /\ \A p \in Procs \ {Main} : pc[p] = "off"
  BY Zenon, <1>1, <1>2
<1>10. TypesOK
  <2>1. job \in [Procs -> JobType]
    BY Zenon, <1>6, <1>7, NoJobTyped
  <2>2. pc \in [Procs -> Locs] /\ seen \in [Procs -> Nat]
    BY Zenon, <1>1, <1>3 DEF Locs
  <2> QED
    BY Zenon, <1>1, <1>2, <1>3, <1>4, <2>1, <2>2 DEF TypesOK
<1>11. ASSUME NEW p \in Procs PROVE RoleOK(p) /\ LockOK(p) /\ SeenOK(p)
  <2>1. SeenOK(p)
    BY Zenon, <1>1, <1>3 DEF SeenOK
  <2>2. CASE p = Main
    BY Zenon, <1>1, <1>2, <1>6, <1>8, <1>9, <2>1, <2>2 DEF RoleOK, LockOK, Recovering, SupGoals, Late
  <2>3. CASE p # Main
    BY Zenon, <1>1, <1>2, <1>8, <1>9, <2>1, <2>3, NoJobTyped DEF RoleOK, LockOK, Recovering, SupGoals
  <2> QED
    BY Zenon, <2>2, <2>3
<1>12. WatchOK
  <2>1. pc[Sup] = "off"
    BY Zenon, <1>2, <1>9
  <2>2. pc[Sup] \notin {"watch", "probe", "probing", "wantMove", "moving"}
    BY Zenon, <2>1
  <2> QED
    BY Zenon, <2>2 DEF WatchOK, NoStaleTransition
<1>13. CountOK
  <2>1. \A p \in Procs : pc[p] # "lockTransition"
    BY Zenon, <1>9
  <2> QED
    BY Zenon, <1>1, <1>3, <2>1 DEF CountOK
<1>14. SignalOK
  <2>1. \A p \in Procs : pc[p] \notin {"watch", "discover", "recover", "in1"}
    BY Zenon, <1>9
  <2>2. \A c : ~Signalled(c)
    BY Zenon, <1>1 DEF Signalled
  <2> QED
    BY Zenon, <1>2, <2>1, <2>2 DEF SignalOK
<1> QED
  BY Zenon, <1>10, <1>11, <1>12, <1>13, <1>14 DEF TInv

\* Every step keeps the invariant.
LEMMA TransportStep == TInv /\ GInv /\ [Next]_vars => TInv'
<1> SUFFICES ASSUME TInv, GInv, [Next]_vars PROVE TInv'
  BY Zenon
<1>1. CASE UNCHANGED vars
  <2>1. /\ UNCHANGED NotOutside /\ UNCHANGED <<phase, resumed>> /\ UNCHANGED <<conn, core>>
    BY Zenon, <1>1 DEF vars, NotOutside, gateVars, policyVars
  <2>2. /\ conn \in [Conns -> {"open", "lost", "policy", "closed"}]
        /\ core \in 1..Len(Policies) /\ order \in 1..core /\ read \in 1..core
    BY Zenon DEF TInv, TypesOK
  <2> QED
    BY Zenon, <2>1, <2>2, SameConns, OutsideQuietOK
<1>2. ASSUME NEW p \in Callers, StartCall(p) \/ CallStep(p) \/ endOperation(p) PROVE TInv'
  BY Zenon, <1>2, CallStepOK, beginOperationOK, failRecoveryOK, endOperationOK DEF CallStep
<1>3. ASSUME NEW p \in Procs, RecoverStep(p) PROVE TInv'
  BY Zenon, <1>3, recoverRuntimePolicyOK, discoverOK, recoverLockedOK DEF RecoverStep
<1>4. ASSUME NEW p \in Procs, MoveStep(p) PROVE TInv'
  BY Zenon, <1>4, MoveBeginsOK, MoveDrainedOK, AttachOK, ResumeOK, AwaitHandlerOK, publishOK DEF MoveStep
<1>5. ASSUME SupStep PROVE TInv'
  BY Zenon, <1>5, supervisorStopsOK, snapshotOK, supervisorDisconnectedOK, supervisorProbesOK,
     supervisorProbedOK, lockTransitionOK DEF SupStep
<1>6. ASSUME NEW p \in Timed, CapacityStep(p) PROVE TInv'
  BY Zenon, <1>6, retireOK, closeRetiredOK DEF CapacityStep
<1>7. CASE Finished
  BY Zenon, <1>1, <1>7 DEF Finished
<1> QED
  BY Zenon, <1>1, <1>2, <1>3, <1>4, <1>5, <1>6, <1>7, MainStepOK, LoopEndsOK, OutsideOK DEF Next

-----------------------------------------------------------------------------
(* The theorems.                                                           *)

\* The gate's invariant and the transport's hold together.
THEOREM TransportInvariant == Spec => [](TInv /\ GInv)
<1>1. Init => TInv /\ GInv
  BY Zenon, TransportStarts, GateStarts DEF Init
<1>2. TInv /\ GInv /\ [Next]_vars => (TInv /\ GInv)'
  BY Zenon, TransportStep, StepsUseGate, GateStep
<1> QED
  BY <1>1, <1>2, PTL DEF Spec

\* The calls, the supervisor, recovery, capacity reattach and shutdown of
\* RuntimeWorker use runtimeTransportGate only as its specification says.
THEOREM TransportUsesGate == Spec => UsesGate
<1>1. Init => GateInit
  BY Zenon DEF Init
<1>2. TInv /\ GInv /\ [Next]_vars => [GateNext]_gateVars
  BY Zenon, StepsUseGate
<1> QED
  BY <1>1, <1>2, TransportInvariant, PTL DEF Spec, UsesGate, GateSpec

\* Two operations of the running worker never use two clients at once.
THEOREM TransportOneClient == Spec => []OneClientAtATime
<1>1. TInv /\ GInv => OneClientAtATime
  BY Zenon DEF GInv
<1> QED
  BY <1>1, TransportInvariant, PTL

\* lockRuntimeTransportTransitionAtPolicyRevision: what the supervisor takes away
\* is what it decided on.
THEOREM DecisionsAreCurrent == Spec => []NoStaleTransition
<1>1. TInv /\ GInv => NoStaleTransition
  BY Zenon DEF TInv, WatchOK
<1> QED
  BY <1>1, TransportInvariant, PTL

\* recoverRuntimePolicy: a change of the policy is rediscovered once, however many
\* loops, handlers and connections report it.
THEOREM OneRediscovery == Spec => []NoDuplicateRediscovery
<1>1. ASSUME TInv PROVE NoDuplicateRediscovery
  <2>1. /\ core \in 1..Len(Policies) /\ order \in 1..core /\ read \in 1..core /\ rediscovered \in Nat
    BY Zenon, <1>1 DEF TInv, TypesOK
  <2>2. rediscovered < read \/ rediscovered < order
    BY Zenon, <1>1 DEF TInv, CountOK
  <2> QED
    BY <2>1, <2>2 DEF NoDuplicateRediscovery
<1> QED
  BY <1>1, TransportInvariant, PTL

\* The variables keep their types.
THEOREM TransportTypes == Spec => []TypeOK
<1>1. ASSUME TInv, GInv PROVE TypeOK
  <2>1. GateTypeOK /\ TypesOK
    BY Zenon, <1>1 DEF TInv, GInv
  <2>2. {"none", "start", "recover"} \cup SupGoals =
          {"none", "start", "recover", "toPull", "toWS", "reconnect"}
    BY Zenon DEF SupGoals
  <2>3. {"begin", "drain", "attach"} \cup Late =
          {"begin", "drain", "attach", "resume", "await", "publish"}
    BY Zenon DEF Late
  <2>4. JobType = [goal : {"none", "start", "recover", "toPull", "toWS", "reconnect"},
                   reconnect : BOOLEAN, target : {"ws", "pull"},
                   stage : {"begin", "drain", "attach", "resume", "await", "publish"},
                   client : Clients \cup {NoClient}, waits : Handlers \cup {NoProc},
                   deferred : BOOLEAN]
    BY Zenon, <2>2, <2>3 DEF JobType
  <2> QED
    BY Zenon, <2>1, <2>4 DEF TypeOK, TypesOK
<1> QED
  BY <1>1, TransportInvariant, PTL
=============================================================================
