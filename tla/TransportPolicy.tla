--------------------------- MODULE TransportPolicy ---------------------------
(***************************************************************************)
(* The transport policy of a Runtime Worker (runtime_worker_policy.go):    *)
(* how the discovery manifest is read, merged with the configuration when  *)
(* the worker starts and with the policy in force when it is rediscovered, *)
(* and how the goroutines that retry read it (retryDelay and waitRetry of  *)
(* runtime_worker_session.go).                                             *)
(*                                                                         *)
(* Durations are integers.  A duration the manifest gives lies between 1   *)
(* and MaxPeriod (24 hours); one the configuration gives may be any int64, *)
(* so arithmetic on it wraps at MaxDuration.                               *)
(***************************************************************************)
EXTENDS Integers, Sequences

CONSTANTS
  Waiters,       \* goroutines that retry
  Configs,       \* configured timings, [Fields -> Int]
  Manifests,     \* what discovery may return
  Legacy,        \* legacyRuntimeTransportPolicy and the worker's defaults
  MaxPeriod,     \* 24 hours
  MaxDuration,   \* the largest time.Duration
  MaxAttempt,    \* bound: attempts of one retry loop
  MaxRecoveries  \* bound: policies applied after the first

Fields == {"heartbeat", "stale", "retryMin", "retryMax", "probeInterval", "probeTimeout"}

ASSUME PolicyAssumption ==
  /\ MaxDuration \in Nat /\ MaxPeriod \in 1 .. MaxDuration
  /\ MaxAttempt \in Nat /\ MaxRecoveries \in Nat
  /\ Configs \subseteq [Fields -> Int]
  /\ \A c \in Configs : \A f \in Fields : c[f] <= MaxDuration
  /\ Legacy \in [Fields -> 0 .. MaxDuration]
  /\ Legacy["retryMin"] \in 1 .. Legacy["retryMax"] /\ Legacy["heartbeat"] > 0
  /\ \A m \in Manifests : m.given \subseteq Fields /\ m.value \in [Fields -> Int]

VARIABLES
  status,     \* "new", "running" or "failed"
  node,       \* the worker's own timing fields
  inForce,    \* the policy* fields under transportPolicyMu; 0 is unset
  order,      \* node.transportOrder
  allowed,    \* history: the allowlist of the manifest last applied
  installed,  \* history: the retry limits any policy in force has had
  recoveries,
  pc, limits, delay, attempt, index, slept  \* the retrying goroutines

policyVars == <<status, node, inForce, order, allowed, installed, recoveries>>
waitVars == <<pc, limits, delay, attempt, index, slept>>
vars == <<policyVars, waitVars>>

NoTiming == [f \in Fields |-> 0]

-----------------------------------------------------------------------------
(***************************************************************************)
(* Reading the manifest.                                                   *)
(***************************************************************************)

\* The names a manifest may use for a transport; others are skipped.
runtimeManifestTransportMode(value) ==
  CASE value \in {"websocket", "ws"} -> "ws"
    [] value \in {"long_poll", "pull"} -> "pull"
    [] OTHER -> "none"

\* The supported transports of a list, in its order, each once.
supported(transports) ==
  LET modes == [i \in DOMAIN transports |-> runtimeManifestTransportMode(transports[i])]
      first == {i \in DOMAIN modes :
                  modes[i] # "none" /\ \A j \in DOMAIN modes : j < i => modes[j] # modes[i]}
      other(i) == CHOOSE j \in first : j # i IN
  IF first = {} THEN <<>>
  ELSE LET i == CHOOSE i \in first : \A j \in first : i <= j IN
       IF first = {i} THEN <<modes[i]>> ELSE <<modes[i], modes[other(i)]>>

policyAllowed(m) == IF m.listed THEN supported(m.transports) ELSE <<"ws", "pull">>

modesOf(list) == {list[i] : i \in DOMAIN list}

\* The default: "auto" unless the manifest names a transport.
policyDefault(m) ==
  IF m.default \in {"", "auto"} THEN "auto" ELSE runtimeManifestTransportMode(m.default)

merge(base, m) == [f \in Fields |-> IF f \in m.given THEN m.value[f] ELSE base[f]]

\* The two relations every policy must keep.
consistent(t) ==
  /\ t["retryMin"] <= t["retryMax"]
  /\ t["stale"] > 0 => t["heartbeat"] < t["stale"]

\* policyDurationSeconds and policyDurationMilliseconds.
inRange(m) == \A f \in m.given : m.value[f] \in 1 .. MaxPeriod

\* runtimeTransportPolicyFromManifest succeeds.
readable(m) ==
  /\ policyAllowed(m) # <<>>
  /\ policyDefault(m) # "none"
  /\ policyDefault(m) \in {"auto"} \cup modesOf(policyAllowed(m))
  /\ m.version
  /\ inRange(m)
  /\ consistent(merge(Legacy, m))

-----------------------------------------------------------------------------
(***************************************************************************)
(* Starting and rediscovering.  The transport is configured as auto.       *)
(***************************************************************************)

Init ==
  /\ status = "new"
  /\ node = NoTiming
  /\ inForce = NoTiming
  /\ order = <<>>
  /\ allowed = {}
  /\ installed = {}
  /\ recoveries = 0
  /\ pc = [w \in Waiters |-> "idle"]
  /\ limits = [w \in Waiters |-> [min |-> 0, max |-> 0]]
  /\ delay = [w \in Waiters |-> 0]
  /\ attempt = [w \in Waiters |-> 0]
  /\ index = [w \in Waiters |-> 0]
  /\ slept = [w \in Waiters |-> 0]

\* applyDefaultsAndValidate: what is not positive takes its default.
withDefaults(c) ==
  [f \in Fields |-> IF f \in {"stale", "probeInterval"} THEN 0
                    ELSE IF c[f] <= 0 THEN Legacy[f] ELSE c[f]]

\* runtimeTransportOrder under the auto transport.
runtimeTransportOrder(m) ==
  IF policyDefault(m) = "auto" THEN policyAllowed(m) ELSE <<policyDefault(m)>>

retryLimits(t) == [min |-> t["retryMin"], max |-> t["retryMax"]]

\* Start with a manifest: the worker's own fields are overwritten first and
\* checked after; the policy in force is set only when they pass.
applyRuntimeTransportPolicy(c, m) ==
  /\ status = "new"
  /\ withDefaults(c)["retryMin"] <= withDefaults(c)["retryMax"]
  /\ IF readable(m)
       THEN LET t == merge(withDefaults(c), m) IN
            /\ node' = t
            /\ IF consistent(t)
                 THEN /\ status' = "running"
                      /\ inForce' = t
                      /\ order' = runtimeTransportOrder(m)
                      /\ allowed' = modesOf(policyAllowed(m))
                      /\ installed' = {retryLimits(t)}
                 ELSE /\ status' = "failed"
                      /\ UNCHANGED <<inForce, order, allowed, installed>>
       ELSE /\ status' = "failed"
            /\ node' = withDefaults(c)
            /\ UNCHANGED <<inForce, order, allowed, installed>>
  /\ UNCHANGED <<recoveries, waitVars>>

\* Start with a client of the caller's: no manifest is read and the getters
\* fall back to the worker's own fields.
startWithClient(c) ==
  /\ status = "new"
  /\ withDefaults(c)["retryMin"] <= withDefaults(c)["retryMax"]
  /\ status' = "running"
  /\ node' = withDefaults(c)
  /\ installed' = {retryLimits(withDefaults(c))}
  /\ UNCHANGED <<inForce, order, allowed, recoveries, waitVars>>

\* What a rediscovered policy leaves open: the policy in force.
recoveryBase ==
  [f \in Fields |-> IF inForce[f] <= 0 /\ f \notin {"stale", "probeInterval"}
                      THEN node[f] ELSE inForce[f]]

\* Mutant: a rediscovered policy starts from the configuration, and the merged
\* values are not checked again.
applyRecoveredUnchecked(m) ==
  /\ status = "running"
  /\ inForce # NoTiming
  /\ recoveries < MaxRecoveries
  /\ readable(m)
  /\ LET t == merge(recoveryBase, m) IN
       /\ inForce' = t
       /\ order' = runtimeTransportOrder(m)
       /\ allowed' = modesOf(policyAllowed(m))
       /\ installed' = installed \cup {retryLimits(t)}
  /\ recoveries' = recoveries + 1
  /\ UNCHANGED <<status, node, waitVars>>

\* A rediscovered policy, merged with the one in force; an inconsistent one is
\* refused and changes nothing.
applyRecoveredRuntimeTransportPolicy(m) ==
  /\ status = "running"
  /\ inForce # NoTiming
  /\ recoveries < MaxRecoveries
  /\ readable(m)
  /\ LET t == merge(recoveryBase, m) IN
       /\ consistent(t)
       /\ inForce' = t
       /\ order' = runtimeTransportOrder(m)
       /\ allowed' = modesOf(policyAllowed(m))
       /\ installed' = installed \cup {retryLimits(t)}
  /\ recoveries' = recoveries + 1
  /\ UNCHANGED <<status, node, waitVars>>

-----------------------------------------------------------------------------
(***************************************************************************)
(* The goroutines that retry.                                              *)
(***************************************************************************)

\* A field of the policy in force, or the worker's own.
current(f) == IF inForce[f] > 0 THEN inForce[f] ELSE node[f]

\* runtimeRetryPolicy reads both limits under one lock; the delay starts at
\* the minimum.
runtimeRetryPolicy(w) ==
  /\ status = "running"
  /\ pc[w] = "idle"
  /\ limits' = [limits EXCEPT ![w] = [min |-> current("retryMin"), max |-> current("retryMax")]]
  /\ delay' = [delay EXCEPT ![w] = current("retryMin")]
  /\ index' = [index EXCEPT ![w] = 0]
  /\ pc' = [pc EXCEPT ![w] = "loop"]
  /\ UNCHANGED <<policyVars, attempt, slept>>

\* int64 arithmetic.
wrap(d) == IF d > MaxDuration THEN d - 2 * (MaxDuration + 1) ELSE d

\* Mutant: the delay is doubled first and cut afterwards.
retryDelayUnguarded(w) ==
  /\ pc[w] = "loop"
  /\ IF index[w] < attempt[w] /\ delay[w] < limits[w].max
       THEN /\ delay' = [delay EXCEPT ![w] = wrap(2 * @)]
            /\ index' = [index EXCEPT ![w] = @ + 1]
            /\ UNCHANGED pc
       ELSE /\ delay' = [delay EXCEPT ![w] = IF @ > limits[w].max THEN limits[w].max ELSE @]
            /\ pc' = [pc EXCEPT ![w] = "delay"]
            /\ UNCHANGED index
  /\ UNCHANGED <<policyVars, limits, attempt, slept>>

\* One turn of retryDelay's loop, or its end.
retryDelay(w) ==
  /\ pc[w] = "loop"
  /\ IF index[w] < attempt[w] /\ delay[w] < limits[w].max
       THEN IF delay[w] > limits[w].max \div 2
              THEN /\ delay' = [delay EXCEPT ![w] = limits[w].max]
                   /\ pc' = [pc EXCEPT ![w] = "delay"]
                   /\ UNCHANGED index
              ELSE /\ delay' = [delay EXCEPT ![w] = wrap(2 * @)]
                   /\ index' = [index EXCEPT ![w] = @ + 1]
                   /\ UNCHANGED pc
       ELSE /\ delay' = [delay EXCEPT ![w] = IF @ > limits[w].max THEN limits[w].max ELSE @]
            /\ pc' = [pc EXCEPT ![w] = "delay"]
            /\ UNCHANGED index
  /\ UNCHANGED <<policyVars, limits, attempt, slept>>

\* jitterDuration: a factor between 0.8 and 1.2; here its two ends and 1.
jitterDuration(d) == IF d <= 0 THEN {d} ELSE {(8 * d) \div 10, d, (12 * d) \div 10}

waitRetry(w) ==
  /\ pc[w] = "delay"
  /\ \E d \in jitterDuration(delay[w]) : slept' = [slept EXCEPT ![w] = d]
  /\ pc' = [pc EXCEPT ![w] = "sleep"]
  /\ UNCHANGED <<policyVars, limits, delay, attempt, index>>

\* The call fails again, or succeeds and the count starts over.
wake(w) ==
  /\ pc[w] = "sleep"
  /\ attempt' \in {[attempt EXCEPT ![w] = 0],
                   [attempt EXCEPT ![w] = IF @ < MaxAttempt THEN @ + 1 ELSE @]}
  /\ pc' = [pc EXCEPT ![w] = "idle"]
  /\ UNCHANGED <<policyVars, limits, delay, index, slept>>

Next ==
  \/ \E c \in Configs, m \in Manifests : applyRuntimeTransportPolicy(c, m)
  \/ \E c \in Configs : startWithClient(c)
  \/ \E m \in Manifests : applyRecoveredRuntimeTransportPolicy(m)
  \/ \E w \in Waiters : runtimeRetryPolicy(w) \/ retryDelay(w) \/ waitRetry(w) \/ wake(w)

Spec == Init /\ [][Next]_vars

-----------------------------------------------------------------------------
(***************************************************************************)
(* Properties.                                                             *)
(***************************************************************************)

\* Every variable has its type.
TypeOK ==
  /\ status \in {"new", "running", "failed"}
  /\ node \in [Fields -> 0 .. MaxDuration]
  /\ inForce \in [Fields -> 0 .. MaxDuration]
  /\ installed \subseteq [min : 0 .. MaxDuration, max : 0 .. MaxDuration]
  /\ recoveries \in 0 .. MaxRecoveries
  /\ pc \in [Waiters -> {"idle", "loop", "delay", "sleep"}]
  /\ limits \in [Waiters -> [min : 0 .. MaxDuration, max : 0 .. MaxDuration]]
  /\ delay \in [Waiters -> Int]
  /\ attempt \in [Waiters -> 0 .. MaxAttempt]
  /\ index \in [Waiters -> 0 .. MaxAttempt]

\* Whatever sequence of partial policies is rediscovered, the timing in force
\* is usable: the retry limits are ordered and positive, and a Session that
\* Core calls stale has had time for a heartbeat.
TimingInForceIsUsable ==
  status = "running" =>
    /\ 0 < current("retryMin") /\ current("retryMin") <= current("retryMax")
    /\ 0 < current("heartbeat")
    /\ inForce["stale"] > 0 => inForce["heartbeat"] < inForce["stale"]

\* The transports a worker tries are those of one manifest it was given: never
\* none, never one twice, never one the manifest does not allow.
OrderIsAllowed ==
  inForce # NoTiming =>
    /\ order # <<>>
    /\ \A i, j \in DOMAIN order : order[i] = order[j] => i = j
    /\ modesOf(order) \subseteq allowed

\* The delay of a retry lies within the limits of a single policy, also when
\* the policy changes while it is computed and however large the limits are.
DelayWithinLimits ==
  \A w \in Waiters : pc[w] = "delay" =>
    \E p \in installed : p.min <= delay[w] /\ delay[w] <= p.max
=============================================================================
