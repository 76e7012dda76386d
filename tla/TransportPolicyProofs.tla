----------------------- MODULE TransportPolicyProofs -----------------------
(***************************************************************************)
(* For every configuration, every sequence of manifests and any number of  *)
(* retrying goroutines: the timing in force is usable, and a retry waits   *)
(* within the limits of one policy.                                        *)
(***************************************************************************)
EXTENDS TransportPolicy, TLAPS

Timings == [Fields -> 0 .. MaxDuration]

\* A timing a worker can run with.
usable(t) ==
  /\ t["retryMin"] \in 1 .. t["retryMax"]
  /\ t["heartbeat"] > 0
  /\ t["stale"] > 0 => t["heartbeat"] < t["stale"]

\* The inductive invariant.  A running worker has its own fields usable, and a
\* policy in force that is either unset as a whole or usable; the limits that
\* hold now are recorded.  A goroutine between reading the limits and sleeping
\* has read them together and stays within them.
PInv ==
  /\ node \in Timings
  /\ inForce \in Timings
  /\ limits \in [Waiters -> [min : 1 .. MaxDuration, max : 1 .. MaxDuration] \cup {[min |-> 0, max |-> 0]}]
  /\ pc \in [Waiters -> {"idle", "loop", "delay", "sleep"}]
  /\ delay \in [Waiters -> Int]
  /\ status # "running" => \A w \in Waiters : pc[w] = "idle"
  /\ status = "new" => inForce = NoTiming
  /\ status = "running" =>
       /\ usable(node)
       /\ inForce = NoTiming \/ usable(inForce)
       /\ [min |-> current("retryMin"), max |-> current("retryMax")] \in installed
  /\ \A w \in Waiters : pc[w] \in {"loop", "delay"} =>
       /\ limits[w] \in installed
       /\ 1 <= limits[w].min /\ limits[w].min <= delay[w]
       /\ delay[w] <= limits[w].max /\ limits[w].max <= MaxDuration

\* applyDefaultsAndValidate leaves every duration a worker needs positive and
\* within int64.
LEMMA DefaultsArePositive ==
  ASSUME NEW c \in Configs
  PROVE  /\ withDefaults(c) \in Timings
         /\ withDefaults(c)["retryMin"] >= 1 /\ withDefaults(c)["retryMax"] >= 1
         /\ withDefaults(c)["heartbeat"] >= 1 /\ withDefaults(c)["stale"] = 0
<1>1. \A f \in Fields : c[f] \in Int /\ c[f] <= MaxDuration
  BY SMTT(30), PolicyAssumption
<1>2. \A f \in Fields : Legacy[f] \in 0 .. MaxDuration
  BY SMTT(30), PolicyAssumption
<1>3. Legacy["retryMin"] >= 1 /\ Legacy["retryMax"] >= 1 /\ Legacy["heartbeat"] >= 1
  BY SMTT(30), <1>2, PolicyAssumption DEF Fields
<1>4. MaxDuration \in Nat
  BY PolicyAssumption
<1> QED
  BY SMTT(30), <1>1, <1>2, <1>3, <1>4 DEF withDefaults, Fields, Timings

\* Merging a readable manifest into a timing keeps it within int64, and keeps
\* positive what was.
LEMMA MergeKeepsPositive ==
  ASSUME NEW t \in Timings, NEW m \in Manifests, inRange(m)
  PROVE  /\ merge(t, m) \in Timings
         /\ \A f \in Fields : t[f] > 0 => merge(t, m)[f] > 0
<1>1. m.given \subseteq Fields /\ m.value \in [Fields -> Int]
  BY SMTT(30), PolicyAssumption
<1>2. MaxDuration \in Nat /\ MaxPeriod \in 1 .. MaxDuration
  BY SMTT(30), PolicyAssumption
<1>3. \A f \in Fields : f \in m.given => m.value[f] \in 1 .. MaxPeriod
  BY SMTT(30) DEF inRange
<1> QED
  BY SMTT(30), <1>1, <1>2, <1>3 DEF merge, Timings

\* Init establishes the invariant.
LEMMA PolicyInit == Init => PInv
<1>1. MaxDuration \in Nat
  BY PolicyAssumption
<1> QED
  BY SMTT(30), <1>1 DEF Init, PInv, Timings, NoTiming, Fields

\* Every step preserves the invariant.
LEMMA PolicyStep == PInv /\ [Next]_vars => PInv'
<1> SUFFICES ASSUME PInv, [Next]_vars PROVE PInv'
  OBVIOUS
<1>0. MaxDuration \in Nat
  BY PolicyAssumption
<1>1. ASSUME NEW c \in Configs, NEW m \in Manifests, applyRuntimeTransportPolicy(c, m)
      PROVE  PInv'
  <2> DEFINE t == merge(withDefaults(c), m)
  <2>1. withDefaults(c) \in Timings
    BY DefaultsArePositive
  <2>2. CASE ~readable(m)
    BY SMTT(30), <1>1, <2>1, <2>2 DEF applyRuntimeTransportPolicy, PInv, waitVars
  <2>3. CASE readable(m)
    <3>1. t \in Timings /\ \A f \in Fields : withDefaults(c)[f] > 0 => t[f] > 0
      BY <2>1, <2>3, MergeKeepsPositive, Zenon DEF readable
    <3>2. t["retryMin"] > 0 /\ t["heartbeat"] > 0
      <4>1. withDefaults(c)["retryMin"] > 0 /\ withDefaults(c)["heartbeat"] > 0
        <5>1. /\ withDefaults(c)["retryMin"] \in Int
              /\ withDefaults(c)["heartbeat"] \in Int
          BY SMTT(30), <2>1, <1>0 DEF Timings, Fields
        <5> QED
          BY SMTT(30), <5>1, DefaultsArePositive
      <4> QED
        BY SMTT(30), <3>1, <4>1 DEF Fields
    <3>3. node' = t
      BY <1>1, <2>3, Zenon DEF applyRuntimeTransportPolicy
    <3>4. waitVars' = waitVars /\ status = "new"
      BY <1>1, Zenon DEF applyRuntimeTransportPolicy
    <3>5. CASE ~consistent(t)
      <4>1. status' = "failed" /\ inForce' = inForce /\ installed' = installed
        BY <1>1, <2>3, <3>5, Zenon DEF applyRuntimeTransportPolicy
      <4> QED
        BY SMTT(30), <3>1, <3>3, <3>4, <4>1 DEF PInv, waitVars
    <3>6. CASE consistent(t)
      <4>1. status' = "running" /\ inForce' = t /\ installed' = {retryLimits(t)}
        BY <1>1, <2>3, <3>6, Zenon DEF applyRuntimeTransportPolicy
      <4>2. usable(t)
        BY SMTT(30), <1>0, <3>1, <3>2, <3>6 DEF usable, consistent, Timings, Fields
      <4>3. t["retryMax"] > 0
        BY SMTT(30), <1>0, <3>1, <4>2 DEF usable, Timings, Fields
      <4>4. [min |-> current("retryMin")', max |-> current("retryMax")'] \in installed'
        BY SMTT(30), <3>2, <4>1, <4>3 DEF current, retryLimits
      <4> HIDE DEF t
      <4> QED
        BY SMTT(30), <3>1, <3>3, <3>4, <4>1, <4>2, <4>4 DEF PInv, waitVars
    <3> QED
      BY <3>5, <3>6
  <2> QED
    BY <2>2, <2>3
<1>2. ASSUME NEW c \in Configs, startWithClient(c)
      PROVE  PInv'
  <2> DEFINE t == withDefaults(c)
  <2>1. t \in Timings /\ usable(t)
    <3>1. t["retryMin"] <= t["retryMax"]
      BY <1>2, Zenon DEF startWithClient
    <3> QED
      BY SMTT(30), <1>0, <3>1, DefaultsArePositive DEF usable, Timings, Fields
  <2>2. /\ status = "new" /\ status' = "running" /\ node' = t
        /\ installed' = {retryLimits(t)} /\ inForce' = inForce /\ waitVars' = waitVars
    BY <1>2, Zenon DEF startWithClient
  <2>3. inForce' = NoTiming
    BY SMTT(30), <2>2 DEF PInv
  <2>4. [min |-> current("retryMin")', max |-> current("retryMax")'] \in installed'
    BY SMTT(30), <2>2, <2>3 DEF current, retryLimits, NoTiming, Fields
  <2> HIDE DEF t
  <2> QED
    BY SMTT(30), <2>1, <2>2, <2>3, <2>4 DEF PInv, waitVars
<1>3. ASSUME NEW m \in Manifests, applyRecoveredRuntimeTransportPolicy(m)
      PROVE  PInv'
  <2> DEFINE t == merge(recoveryBase, m)
  <2>1. /\ status = "running" /\ status' = status /\ node' = node /\ waitVars' = waitVars
        /\ inForce # NoTiming /\ consistent(t) /\ inForce' = t /\ inRange(m)
        /\ installed' = installed \cup {retryLimits(t)}
    BY <1>3, Zenon DEF applyRecoveredRuntimeTransportPolicy, readable
  <2>2. usable(inForce)
    BY SMTT(30), <2>1 DEF PInv
  <2>3. recoveryBase \in Timings
    BY SMTT(30) DEF recoveryBase, PInv, Timings, Fields
  <2>4. recoveryBase["retryMin"] > 0 /\ recoveryBase["heartbeat"] > 0
    BY SMTT(30), <1>0, <2>1, <2>2 DEF recoveryBase, PInv, usable, Timings, Fields
  <2>5. t \in Timings /\ \A f \in Fields : recoveryBase[f] > 0 => t[f] > 0
    BY <2>1, <2>3, MergeKeepsPositive, Zenon
  <2>6. t["retryMin"] > 0 /\ t["heartbeat"] > 0
    BY SMTT(30), <2>4, <2>5 DEF Fields
  <2>7. usable(t)
    BY SMTT(30), <1>0, <2>1, <2>5, <2>6 DEF usable, consistent, Timings, Fields
  <2>8. t["retryMax"] > 0
    BY SMTT(30), <1>0, <2>5, <2>7 DEF usable, Timings, Fields
  <2>9. [min |-> current("retryMin")', max |-> current("retryMax")'] \in installed'
    BY SMTT(30), <2>1, <2>6, <2>8 DEF current, retryLimits
  <2> HIDE DEF t
  <2> QED
    BY SMTT(30), <2>1, <2>5, <2>7, <2>9 DEF PInv, waitVars
<1>4. ASSUME NEW w \in Waiters, runtimeRetryPolicy(w)
      PROVE  PInv'
  <2> DEFINE lo == current("retryMin")
             hi == current("retryMax")
  <2>1. lo \in 1 .. hi /\ hi \in 1 .. MaxDuration
    BY SMTT(30), <1>0, <1>4 DEF runtimeRetryPolicy, current, PInv, usable, Timings, Fields, NoTiming
  <2>2. /\ limits' = [limits EXCEPT ![w] = [min |-> lo, max |-> hi]]
        /\ delay' = [delay EXCEPT ![w] = lo]
        /\ pc' = [pc EXCEPT ![w] = "loop"]
        /\ policyVars' = policyVars /\ status = "running"
    BY <1>4, Zenon DEF runtimeRetryPolicy
  <2>3. [min |-> lo, max |-> hi] \in installed
    BY SMTT(30), <2>2 DEF PInv
  <2>4. current("retryMin")' = lo /\ current("retryMax")' = hi
    BY SMTT(30), <2>2 DEF policyVars, current
  <2> HIDE DEF lo, hi
  <2>5. lo \in Int /\ hi \in Int /\ 1 <= lo /\ lo <= hi /\ hi <= MaxDuration
    BY SMTT(30), <1>0, <2>1
  <2> QED
    BY SMTT(30), <1>0, <2>2, <2>3, <2>4, <2>5 DEF PInv, policyVars
<1>5. ASSUME NEW w \in Waiters, retryDelay(w)
      PROVE  PInv'
  <2>1. /\ policyVars' = policyVars /\ limits' = limits /\ pc[w] = "loop"
        /\ current("retryMin")' = current("retryMin") /\ current("retryMax")' = current("retryMax")
    BY <1>5, Zenon DEF retryDelay, policyVars, current
  <2>2. /\ limits[w] \in installed /\ limits[w].min \in Int /\ limits[w].max \in Int
        /\ 1 <= limits[w].min /\ limits[w].min <= delay[w]
        /\ delay[w] <= limits[w].max /\ limits[w].max <= MaxDuration /\ delay[w] \in Int
    BY SMTT(30), <1>0, <2>1 DEF PInv
  <2>3. PICK d \in Int : /\ limits[w].min <= d /\ d <= limits[w].max
                         /\ delay' = [delay EXCEPT ![w] = d]
                         /\ pc' \in {pc, [pc EXCEPT ![w] = "delay"]}
    BY SMTT(30), <1>0, <1>5, <2>2 DEF retryDelay, wrap
  <2> QED
    BY SMTT(30), <1>0, <2>1, <2>2, <2>3 DEF PInv, policyVars
<1>6. ASSUME NEW w \in Waiters, waitRetry(w) \/ wake(w)
      PROVE  PInv'
  <2>1. /\ policyVars' = policyVars /\ limits' = limits /\ delay' = delay
        /\ current("retryMin")' = current("retryMin") /\ current("retryMax")' = current("retryMax")
        /\ pc' \in {[pc EXCEPT ![w] = "sleep"], [pc EXCEPT ![w] = "idle"]}
        /\ pc[w] # "idle"
    BY SMTT(30), <1>6 DEF waitRetry, wake, policyVars, current
  <2> QED
    BY SMTT(30), <1>0, <2>1 DEF PInv, policyVars
<1>7. CASE UNCHANGED vars
  BY SMTT(30), <1>7 DEF vars, policyVars, waitVars, PInv, current
<1> QED
  BY <1>1, <1>2, <1>3, <1>4, <1>5, <1>6, <1>7, Zenon DEF Next

\* PInv is an invariant of every behaviour.
THEOREM PolicyInvariant == Spec => []PInv
<1> QED
  BY PolicyInit, PolicyStep, PTL DEF Spec

\* Whatever partial policies are discovered one after the other, the retry
\* limits in force are ordered and positive, and the heartbeat fits the stale
\* interval (applyRecoveredRuntimeTransportPolicy).
THEOREM UsableTiming == Spec => []TimingInForceIsUsable
<1>1. PInv => TimingInForceIsUsable
  <2> SUFFICES ASSUME PInv, status = "running" PROVE TimingInForceIsUsable
    BY Zenon DEF TimingInForceIsUsable
  <2>1. usable(node) /\ node \in Timings /\ inForce \in Timings /\ MaxDuration \in Nat
    BY PolicyAssumption, Zenon DEF PInv
  <2>2. CASE inForce = NoTiming
    BY SMTT(30), <2>1, <2>2 DEF TimingInForceIsUsable, current, usable, NoTiming, Timings, Fields
  <2>3. CASE usable(inForce)
    BY SMTT(30), <2>1, <2>3 DEF TimingInForceIsUsable, current, usable, Timings, Fields
  <2> QED
    BY <2>2, <2>3, Zenon DEF PInv
<1> QED
  BY <1>1, PolicyInvariant, PTL

\* A retry waits within the limits of a single policy that was in force, however
\* long the limits and however the policy changes meanwhile (retryDelay).
THEOREM BoundedDelay == Spec => []DelayWithinLimits
<1>1. PInv => DelayWithinLimits
  BY SMTT(30) DEF PInv, DelayWithinLimits
<1> QED
  BY <1>1, PolicyInvariant, PTL
=============================================================================
