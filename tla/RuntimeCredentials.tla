------------------------- MODULE RuntimeCredentials -------------------------
(***************************************************************************)
(* The automatic mTLS credential of a Runtime Worker: the file             *)
(* runtime-credential.json (runtime_worker_credentials.go), the policy     *)
(* that decides whether a start uses it                                    *)
(* (runtime_worker_security_policy.go, Start and configureRuntimeSecurity  *)
(* of runtime_worker.go), the renewal loop, the transport that renews on a *)
(* TLS failure (runtime_worker_client.go) and PrepareRuntimeCredential     *)
(* (runtime_credential_prepare.go).                                        *)
(*                                                                         *)
(* One data directory, one clock, one Core.  The store lock admits one     *)
(* process (phase # "down") at a time.  Inside it the actors "main" (the   *)
(* start), "loop" (the renewal goroutine) and one per Runtime request      *)
(* share the credential manager mgr; renewMu serialises Ensure.            *)
(*                                                                         *)
(* Left out: the bytes of keys, CSRs, PEM blocks and checksums, and the    *)
(* private CA (one for the whole history).  Core's certificate chain is    *)
(* taken to agree with the fields Core sends along with it.                *)
(***************************************************************************)
EXTENDS Naturals, FiniteSets

CONSTANTS
  Requests,     \* goroutines that send Runtime HTTP requests
  Configs,      \* worker configurations the operator may start with
  Platforms,    \* manifests and identity policies Core may serve
  Life,         \* certificate lifetime (24 hours), in ticks
  RenewOffsets, \* RenewAfter - NotBefore, as Core may choose it
  Margin,       \* runtimeCredentialExpiryMargin, in ticks
  MaxNow,       \* bound: the clock stops here
  MaxCrashes,   \* bound: process crashes
  MaxStops,     \* bound: graceful stops
  MaxChanges,   \* bound: operator changes at Core (policy, operation, revocation)
  MaxFaults     \* bound: failed calls, lost replies and failed writes

ASSUME BoundsAssumption ==
  /\ {Life, Margin, MaxNow, MaxCrashes, MaxStops, MaxChanges, MaxFaults} \subseteq Nat
  /\ RenewOffsets \subseteq 1 .. Life

NoCert == [serial |-> 0, from |-> 0, renew |-> 0]
NoDisk == [key |-> 0, node |-> "", agent |-> "", mtls |-> FALSE, cert |-> NoCert]
NoLate == [by |-> "none", disk |-> NoDisk]
NoConn == [policy |-> FALSE, mtls |-> FALSE, endpoint |-> FALSE, op |-> 0]

VARIABLES
  now,      \* wall clock
  disk,     \* runtime-credential.json; NoDisk when absent
  empty,    \* the durable spool holds nothing unacknowledged
  core,     \* Core: platform served, operation open, serials issued and revoked
  phase,    \* of the process that holds the store lock
  conf,     \* configuration of that process
  conn,     \* runtimeConnectionInformation of that process
  ident,    \* node.NodeID and node.AgentID
  mode,     \* how the running worker authenticates
  mgr,      \* runtimeCredentialManager: disk copy, loaded certificate, operationID
  renewMu,  \* holder of manager.renewMu
  pc, force, snap, failedWith, deadline,  \* the actors of the process
  late,     \* a write a stopped process's renewal goroutine has still to make
  keys,     \* private keys generated so far
  budget    \* what is left of the bounds

credVars == <<disk, keys>>
actorVars == <<renewMu, pc, force, snap, failedWith, deadline>>
nodeVars == <<phase, conf, conn, ident, mode, mgr>>
vars == <<now, credVars, empty, core, nodeVars, actorVars, late, budget>>

Actors == {"main", "loop"} \cup Requests

notAfter(c) == c.from + Life

\* leaf.NotAfter.Before(time.Now()); Core applies the same test to the peer.
expired(c) == notAfter(c) < now

spend(what) == budget[what] > 0 /\ budget' = [budget EXCEPT ![what] = @ - 1]

(***************************************************************************)
(* What the process is when it does not run.                               *)
(***************************************************************************)
NoManager == [disk |-> NoDisk, cert |-> NoCert, op |-> 0]
NoConfig == [token |-> "", agent |-> "", node |-> "", explicit |-> FALSE,
             tokenOnly |-> FALSE, platform |-> FALSE]

exitActors ==
  /\ renewMu' = "none"
  /\ pc' = [a \in Actors |-> "off"]
  /\ force' = [a \in Actors |-> FALSE]
  /\ snap' = [a \in Actors |-> NoDisk]
  /\ failedWith' = [a \in Actors |-> 0]
  /\ deadline' = 0

exitNode ==
  /\ phase' = "down"
  /\ conf' = NoConfig
  /\ conn' = NoConn
  /\ ident' = [node |-> "", agent |-> ""]
  /\ mode' = "none"
  /\ mgr' = NoManager

\* Start returns an error: the process gives the store lock back.
startFails == exitNode /\ exitActors

Init ==
  /\ now = 0
  /\ disk = NoDisk
  /\ empty = TRUE
  /\ core \in [platform : Platforms, op : {0}, ops : {0}, answered : {{}}, serial : {0}, revoked : {0}]
  /\ phase = "down"
  /\ conf = NoConfig
  /\ conn = NoConn
  /\ ident = [node |-> "", agent |-> ""]
  /\ mode = "none"
  /\ mgr = NoManager
  /\ renewMu = "none"
  /\ pc = [a \in Actors |-> "off"]
  /\ force = [a \in Actors |-> FALSE]
  /\ snap = [a \in Actors |-> NoDisk]
  /\ failedWith = [a \in Actors |-> 0]
  /\ deadline = 0
  /\ late = NoLate
  /\ keys = 0
  /\ budget = [crash |-> MaxCrashes, stop |-> MaxStops, change |-> MaxChanges, fault |-> MaxFaults]

-----------------------------------------------------------------------------
(***************************************************************************)
(* Start: discovery, then the identity policy under the store lock.        *)
(***************************************************************************)

\* resolveRuntimeConnection.  Without a platform address the Runtime address
\* is taken as configured, mTLS is assumed and nothing tells where to enroll.
resolveRuntimeConnection(c) ==
  IF c.platform
    THEN [policy |-> core.platform.policy, mtls |-> core.platform.global,
          endpoint |-> core.platform.global, op |-> 0]
    ELSE [policy |-> FALSE, mtls |-> TRUE, endpoint |-> FALSE, op |-> 0]

\* Start up to OpenFileRuntimeStore.
start(c) ==
  /\ phase = "down"
  /\ LET connection == resolveRuntimeConnection(c) IN
       /\ ~(c.tokenOnly /\ connection.mtls)
       /\ conn' = connection
  /\ phase' = "identity"
  /\ conf' = c
  /\ ident' = [node |-> c.node, agent |-> c.agent]
  /\ UNCHANGED <<now, credVars, empty, core, mode, mgr, actorVars, late, budget>>

\* Mutant: a key without a certificate does not count as pinned.
pinnedByCertificate(d) == d.cert.serial # 0

\* pinned: the stored identity has been told to use mTLS, or has enrolled.
pinned(d) == d.mtls \/ d.cert.serial # 0

\* The stored identity contradicts the configured one.
identityDiffers(d, id) ==
  /\ d.key # 0
  /\ \/ id.node # "" /\ id.node # d.node
     \/ id.agent # "" /\ d.agent # "" /\ id.agent # d.agent

\* The answer of POST /runtime-security-policy cannot be used: it names another
\* Agent or weakens the mTLS the manifest asks for.
policyRefused(id) ==
  /\ conn.policy
  /\ \/ id.agent # "" /\ id.agent # conf.token
     \/ conn.mtls /\ core.platform.mode # "mtls"

resolvedConnection ==
  IF ~conn.policy
    THEN conn
    ELSE LET mtls == core.platform.mode = "mtls" IN
         [conn EXCEPT !.mtls = mtls, !.endpoint = mtls, !.op = IF mtls THEN core.op ELSE 0]

resolvedIdentity ==
  LET stored == IF ident.node = "" /\ disk.key # 0 THEN disk.node ELSE ident.node IN
  IF conn.policy
    THEN [node |-> IF stored = "" THEN "token" ELSE stored,
          agent |-> IF ident.agent = "" THEN conf.token ELSE ident.agent]
    ELSE [ident EXCEPT !.node = stored]

\* resolveRuntimeIdentityPolicy and what Start checks after it.
identityRefused ==
  \/ identityDiffers(disk, ident)
  \/ policyRefused(ident)
  \/ pinned(disk) /\ ~resolvedConnection.mtls
  \/ resolvedConnection.op # 0 /\ ~empty
  \/ conf.tokenOnly /\ resolvedConnection.mtls

\* configureRuntimeSecurity without mTLS needs an Agent ID; with mTLS and no
\* explicit files it goes on to the credential manager.
configureRuntimeSecurity(connection, id) ==
  CASE ~connection.mtls /\ id.agent = "" -> "down"
    [] ~connection.mtls /\ id.agent # "" -> "token"
    [] connection.mtls /\ conf.explicit -> "explicit"
    [] OTHER -> "manager"

resolveRuntimeIdentityPolicy ==
  /\ phase = "identity"
  /\ LET id == resolvedIdentity
         next == IF identityRefused THEN "down"
                 ELSE configureRuntimeSecurity(resolvedConnection, id) IN
       \/ /\ next = "down"
          /\ startFails
       \/ /\ next = "manager"
          /\ phase' = "manager"
          /\ conn' = resolvedConnection
          /\ ident' = id
          /\ UNCHANGED <<conf, mode, mgr, actorVars>>
       \/ /\ next \in {"token", "explicit"}
          /\ phase' = "running"
          /\ mode' = next
          /\ conn' = resolvedConnection
          /\ ident' = [id EXCEPT !.node = IF @ = "" THEN "token" ELSE @]
          /\ UNCHANGED <<conf, mgr, actorVars>>
  /\ UNCHANGED <<now, credVars, empty, core, late, budget>>

\* Discovery or the policy request fails.
startRequestFails ==
  /\ phase = "identity"
  /\ spend("fault")
  /\ startFails
  /\ UNCHANGED <<now, credVars, empty, core, late>>

-----------------------------------------------------------------------------
(***************************************************************************)
(* The credential manager's start.                                         *)
(***************************************************************************)

\* The stored record, or a new key bound to the configured Node ID.
loadOrCreateRuntimeCredential(node) ==
  IF disk.key = 0
    THEN [NoDisk EXCEPT !.key = keys + 1, !.node = IF node = "" THEN "uuid" ELSE node]
    ELSE disk

created(d) ==
  /\ disk' = d
  /\ keys' = IF d.key > keys THEN d.key ELSE keys

\* The comparisons of newRuntimeCredentialManager.
conflicts(d, id) ==
  \/ id.node # "" /\ d.node # id.node
  \/ id.agent # "" /\ d.agent # "" /\ d.agent # id.agent

\* A certificate in the record must load: loadTLSStateLocked refuses one that
\* has expired, and the start with it.
newRuntimeCredentialManager ==
  /\ phase = "manager"
  /\ IF ~conn.endpoint /\ ~conf.platform
       THEN startFails /\ UNCHANGED credVars
       ELSE LET d == loadOrCreateRuntimeCredential(ident.node) IN
            /\ created(d)
            /\ IF conflicts(d, ident) \/ (d.cert.serial # 0 /\ expired(d.cert))
                 THEN startFails
                 ELSE /\ phase' = "pin"
                      /\ mgr' = [disk |-> d, cert |-> d.cert, op |-> conn.op]
                      /\ UNCHANGED <<conf, conn, ident, mode, actorVars>>
  /\ UNCHANGED <<now, empty, core, late, budget>>

\* The platform has an identity policy: the pin is durable before anything is
\* requested.  Then the start's own Ensure, forced for a controlled operation.
pin ==
  /\ phase = "pin"
  /\ LET d == [mgr.disk EXCEPT !.mtls = @ \/ conn.policy] IN
       /\ mgr' = [mgr EXCEPT !.disk = d]
       /\ disk' = IF conn.policy THEN d ELSE disk
  /\ phase' = "ensure"
  /\ pc' = [pc EXCEPT !["main"] = "ensure"]
  /\ force' = [force EXCEPT !["main"] = conn.op # 0]
  /\ UNCHANGED <<now, keys, empty, core, conf, conn, ident, mode, renewMu, snap, failedWith,
                 deadline, late, budget>>

\* PrepareRuntimeCredential on a stopped installation: the key exists and is
\* bound to the Agent afterwards; it needs an empty spool.
PrepareRuntimeCredential(node, agent) ==
  /\ phase = "down"
  /\ empty
  /\ LET d == loadOrCreateRuntimeCredential(node)
         bound == IF d.agent = "" THEN [d EXCEPT !.agent = agent] ELSE d IN
       created(IF d.node # node \/ (d.agent # "" /\ d.agent # agent) THEN d ELSE bound)
  /\ UNCHANGED <<now, empty, core, nodeVars, actorVars, late, budget>>

-----------------------------------------------------------------------------
(***************************************************************************)
(* Ensure, by any actor, and issue under renewMu.                          *)
(***************************************************************************)

needsIssue(f) ==
  \/ f
  \/ mgr.cert.serial = 0
  \/ now + Margin > notAfter(mgr.disk.cert)
  \/ now >= mgr.disk.cert.renew

\* Ensure returned nil: where the actor goes on.
ensured(a, f) ==
  CASE a = "main" -> "off"
    [] a = "loop" -> "wait"
    [] OTHER -> IF f THEN "retry" ELSE "trip"

\* The start's Ensure is done: Identity, TLSConfig, and the renewal loop runs.
mainContinues(m) ==
  /\ phase' = "running"
  /\ mode' = "mtls"
  /\ ident' = [node |-> m.disk.node, agent |-> m.disk.agent]
  /\ UNCHANGED <<conf, conn>>

continue(a, m) ==
  /\ pc' = IF a = "main" THEN [pc EXCEPT !["main"] = "off", !["loop"] = "wait"]
                         ELSE [pc EXCEPT ![a] = ensured(a, force[a])]
  /\ deadline' = IF a \in {"main", "loop"} THEN m.disk.cert.renew ELSE deadline
  /\ IF a = "main" THEN mainContinues(m) ELSE UNCHANGED <<phase, conf, conn, ident, mode>>

\* Ensure returned an error: the start fails, the loop pauses before it tries
\* again, a request fails.
giveUp(a) ==
  IF a = "main"
    THEN startFails
    ELSE /\ renewMu' = "none"
         /\ pc' = [pc EXCEPT ![a] = IF a = "loop" THEN "pause" ELSE "off"]
         /\ snap' = [snap EXCEPT ![a] = NoDisk]
         /\ UNCHANGED <<nodeVars, force, failedWith, deadline>>

\* Ensure takes renewMu and decides; issue copies the record and sends the
\* request with the manager's operation.
Ensure(a) ==
  /\ pc[a] = "ensure"
  /\ renewMu = "none"
  /\ IF needsIssue(force[a])
       THEN /\ renewMu' = a
            /\ pc' = [pc EXCEPT ![a] = "issue"]
            /\ snap' = [snap EXCEPT ![a] = mgr.disk]
            /\ UNCHANGED <<nodeVars, deadline>>
       ELSE /\ continue(a, mgr)
            /\ UNCHANGED <<mgr, renewMu, snap>>
  /\ UNCHANGED <<now, credVars, empty, core, force, failedWith, late, budget>>

\* Core issues a certificate for the key of the request: the next serial, valid
\* from now.  It answers the operation the request carries.
issuedBy(renew) == [serial |-> core.serial + 1, from |-> now, renew |-> now + renew]

coreIssues ==
  core' = [core EXCEPT !.serial = @ + 1,
                       !.answered = @ \cup ({mgr.op} \ {0}),
                       !.op = IF @ = mgr.op THEN 0 ELSE @]

\* The reply arrives and passes validateIssuedRuntimeCredential.
issue(a, renew) ==
  /\ pc[a] = "issue"
  /\ coreIssues
  /\ snap' = [snap EXCEPT ![a].agent = conf.token, ![a].cert = issuedBy(renew)]
  /\ pc' = [pc EXCEPT ![a] = "persist"]
  /\ UNCHANGED <<now, credVars, empty, nodeVars, renewMu, force, failedWith, deadline, late, budget>>

\* Core is unreachable or refuses, or its reply is lost after it issued.
issueFails(a) ==
  /\ pc[a] = "issue"
  /\ spend("fault")
  /\ coreIssues \/ UNCHANGED core
  /\ giveUp(a)
  /\ UNCHANGED <<now, credVars, empty, late>>

\* persistRuntimeCredential: the file is replaced atomically.
persist(a) ==
  /\ pc[a] = "persist"
  /\ disk' = snap[a]
  /\ pc' = [pc EXCEPT ![a] = "install"]
  /\ UNCHANGED <<now, keys, empty, core, nodeVars, renewMu, force, snap, failedWith, deadline,
                 late, budget>>

\* The write fails before the rename, or after it.
persistFails(a) ==
  /\ pc[a] = "persist"
  /\ spend("fault")
  /\ disk' \in {disk, snap[a]}
  /\ giveUp(a)
  /\ UNCHANGED <<now, keys, empty, core, late>>

\* m.disk = disk, operationID = "", loadTLSStateLocked, CloseIdleConnections.
install(a) ==
  /\ pc[a] = "install"
  /\ IF expired(snap[a].cert)
       THEN IF a = "main"
              THEN startFails
              ELSE /\ mgr' = [mgr EXCEPT !.disk = snap[a], !.op = 0]
                   /\ renewMu' = "none"
                   /\ pc' = [pc EXCEPT ![a] = IF a = "loop" THEN "pause" ELSE "off"]
                   /\ snap' = [snap EXCEPT ![a] = NoDisk]
                   /\ UNCHANGED <<phase, conf, conn, ident, mode, force, failedWith, deadline>>
       ELSE LET m == [disk |-> snap[a], cert |-> snap[a].cert, op |-> 0] IN
            /\ mgr' = m
            /\ continue(a, m)
            /\ renewMu' = "none"
            /\ snap' = [snap EXCEPT ![a] = NoDisk]
            /\ UNCHANGED <<force, failedWith>>
  /\ UNCHANGED <<now, credVars, empty, core, late, budget>>

-----------------------------------------------------------------------------
(***************************************************************************)
(* The renewal loop.                                                       *)
(***************************************************************************)

\* The timer armed from RenewAfter fires; the record may have been renewed
\* since, and Ensure looks again.
renewalTimer ==
  /\ pc["loop"] = "wait"
  /\ now >= deadline
  /\ needsIssue(FALSE)
  /\ pc' = [pc EXCEPT !["loop"] = "ensure"]
  /\ UNCHANGED <<now, credVars, empty, core, nodeVars, renewMu, force, snap, failedWith, deadline,
                 late, budget>>

\* The timer fires and nothing is due: Ensure returns at once and the timer is
\* armed again from the record.
renewalNotDue ==
  /\ pc["loop"] = "wait"
  /\ now >= deadline
  /\ ~needsIssue(FALSE)
  /\ renewMu = "none"
  /\ deadline # mgr.disk.cert.renew
  /\ deadline' = mgr.disk.cert.renew
  /\ UNCHANGED <<now, credVars, empty, core, nodeVars, renewMu, pc, force, snap, failedWith,
                 late, budget>>

\* Mutant: the loop ends at the first failure.
renewalRetryNever ==
  /\ pc["loop"] = "pause"
  /\ pc' = [pc EXCEPT !["loop"] = "off"]
  /\ UNCHANGED <<now, credVars, empty, core, nodeVars, renewMu, force, snap, failedWith, deadline,
                 late, budget>>

\* runtimeCredentialRetryAfter has passed.
renewalRetry ==
  /\ pc["loop"] = "pause"
  /\ pc' = [pc EXCEPT !["loop"] = "wait"]
  /\ deadline' = mgr.disk.cert.renew
  /\ UNCHANGED <<now, credVars, empty, core, nodeVars, renewMu, force, snap, failedWith, late, budget>>

-----------------------------------------------------------------------------
(***************************************************************************)
(* runtimeCredentialRenewingTransport.RoundTrip; the WebSocket dialer and  *)
(* its probe take the same steps around a handshake.                       *)
(***************************************************************************)

request(r) ==
  /\ phase = "running"
  /\ mode = "mtls"
  /\ pc[r] = "off"
  /\ pc' = [pc EXCEPT ![r] = "ensure"]
  /\ force' = [force EXCEPT ![r] = FALSE]
  /\ failedWith' = [failedWith EXCEPT ![r] = 0]
  /\ UNCHANGED <<now, credVars, empty, core, nodeVars, renewMu, snap, deadline, late, budget>>

\* GetClientCertificate gives the handshake the loaded certificate; Core takes
\* it unless it has expired or has been revoked.
accepted == ~expired(mgr.cert) /\ mgr.cert.serial > core.revoked

\* The server answers, or the one retry is over.
roundTripEnds(r) ==
  /\ pc[r] = "retry" \/ (pc[r] = "trip" /\ accepted)
  /\ pc' = [pc EXCEPT ![r] = "off"]
  /\ UNCHANGED <<now, credVars, empty, core, nodeVars, renewMu, force, snap, failedWith, deadline,
                 late, budget>>

\* A failure that is not of TLS is returned as it is.
roundTripFails(r) ==
  /\ pc[r] = "trip"
  /\ spend("fault")
  /\ pc' = [pc EXCEPT ![r] = "off"]
  /\ UNCHANGED <<now, credVars, empty, core, nodeVars, renewMu, force, snap, failedWith, deadline,
                 late>>

\* Mutant: the recovery asks for a renewal only when one is due.
roundTripTLSFailureUnforced(r) ==
  /\ pc[r] = "trip"
  /\ ~accepted
  /\ failedWith' = [failedWith EXCEPT ![r] = mgr.cert.serial]
  /\ pc' = [pc EXCEPT ![r] = IF needsIssue(FALSE) THEN "ensure" ELSE "retry"]
  /\ force' = [force EXCEPT ![r] = TRUE]
  /\ UNCHANGED <<now, credVars, empty, core, nodeVars, renewMu, snap, deadline, late, budget>>

\* runtimeCredentialTLSFailure: force a renewal, then one retry.
roundTripTLSFailure(r) ==
  /\ pc[r] = "trip"
  /\ ~accepted
  /\ failedWith' = [failedWith EXCEPT ![r] = mgr.cert.serial]
  /\ pc' = [pc EXCEPT ![r] = "ensure"]
  /\ force' = [force EXCEPT ![r] = TRUE]
  /\ UNCHANGED <<now, credVars, empty, core, nodeVars, renewMu, snap, deadline, late, budget>>

-----------------------------------------------------------------------------
(***************************************************************************)
(* The environment.                                                        *)
(***************************************************************************)

tick ==
  /\ now < MaxNow
  /\ now' = now + 1
  /\ UNCHANGED <<credVars, empty, core, nodeVars, actorVars, late, budget>>

\* The running worker takes work and settles it.
spoolChanges ==
  /\ phase = "running"
  /\ empty' = ~empty
  /\ UNCHANGED <<now, credVars, core, nodeVars, actorVars, late, budget>>

\* An operator changes what Core serves, opens a controlled credential
\* operation, or revokes what has been issued so far.
coreChanges ==
  /\ spend("change")
  /\ \/ \E p \in Platforms \ {core.platform} : core' = [core EXCEPT !.platform = p]
     \/ /\ core.platform.policy
        /\ core.platform.mode = "mtls"
        /\ core.op = 0
        /\ core' = [core EXCEPT !.op = core.ops + 1, !.ops = @ + 1]
     \/ /\ core.revoked < core.serial
        /\ core' = [core EXCEPT !.revoked = core.serial]
  /\ UNCHANGED <<now, credVars, empty, nodeVars, actorVars, late>>

crash ==
  /\ phase # "down"
  /\ spend("crash")
  /\ startFails
  /\ late' = NoLate
  /\ UNCHANGED <<now, credVars, empty, core>>

\* Start returns on a stop and its context ends.  Nobody waits for the renewal
\* goroutine: a reply it has already read is still written.
stop ==
  /\ phase = "running"
  /\ spend("stop")
  /\ startFails
  /\ late' = IF renewMu = "loop" /\ pc["loop"] = "persist"
               THEN [by |-> "loop", disk |-> snap["loop"]] ELSE late
  /\ UNCHANGED <<now, credVars, empty, core>>

latePersist ==
  /\ late # NoLate
  /\ disk' = late.disk
  /\ late' = NoLate
  /\ UNCHANGED <<now, keys, empty, core, nodeVars, actorVars, budget>>

-----------------------------------------------------------------------------
Starting ==
  \/ \E c \in Configs : start(c)
  \/ resolveRuntimeIdentityPolicy
  \/ newRuntimeCredentialManager
  \/ pin

Renewing(a) ==
  \/ Ensure(a)
  \/ \E renew \in RenewOffsets : issue(a, renew)
  \/ persist(a)
  \/ install(a)

RoundTrip(r) == request(r) \/ roundTripEnds(r) \/ roundTripFails(r) \/ roundTripTLSFailure(r)

Loop == renewalTimer \/ renewalNotDue \/ renewalRetry

Next ==
  \/ Starting
  \/ startRequestFails
  \/ \E c \in Configs, node \in {"token", "cfg"} : PrepareRuntimeCredential(node, c.token)
  \/ \E a \in Actors : Renewing(a) \/ issueFails(a) \/ persistFails(a)
  \/ Loop
  \/ \E r \in Requests : RoundTrip(r)
  \/ tick \/ spoolChanges \/ coreChanges \/ crash \/ stop \/ latePersist

Spec == Init /\ [][Next]_vars

\* Goroutines of the process go on; renewMu is a Go mutex, which a waiter gets
\* in the end although others keep taking it.
Fairness ==
  /\ WF_vars(Loop)
  /\ \A a \in Actors :
       /\ SF_vars(Ensure(a))
       /\ WF_vars(\E renew \in RenewOffsets : issue(a, renew))
       /\ WF_vars(persist(a))
       /\ WF_vars(install(a))
  /\ \A r \in Requests : WF_vars(roundTripEnds(r) \/ roundTripTLSFailure(r))

FairSpec == Spec /\ Fairness

-----------------------------------------------------------------------------
(***************************************************************************)
(* Properties.                                                             *)
(***************************************************************************)

Certs == [serial : Nat, from : Nat, renew : Nat]
Disks == [key : Nat, node : {"", "token", "cfg", "uuid"}, agent : {c.token : c \in Configs} \cup {""},
          mtls : BOOLEAN, cert : Certs]

\* Every variable has its type, and renewMu (runtime_worker_credentials.go:150)
\* is held by exactly the actor that is inside issue.
TypeOK ==
  /\ now \in 0 .. MaxNow
  /\ {disk, mgr.disk, late.disk} \subseteq Disks
  /\ \A a \in Actors : snap[a] \in Disks
  /\ mgr.cert \in Certs
  /\ phase \in {"down", "identity", "manager", "pin", "ensure", "running"}
  /\ mode \in {"none", "token", "explicit", "mtls"}
  /\ conf \in Configs \cup {NoConfig}
  /\ pc \in [Actors -> {"off", "wait", "pause", "ensure", "issue", "persist", "install", "trip", "retry"}]
  /\ \A a \in Actors : (pc[a] \in {"issue", "persist", "install"}) <=> (renewMu = a)
  /\ keys \in Nat
  /\ DOMAIN budget = {"crash", "stop", "change", "fault"}

boundToMTLS(d) == d.mtls \/ d.cert.serial # 0

\* Once the stored identity is pinned to mTLS it stays pinned, whatever is
\* written later and by whom, and no worker runs on the Agent Token alone over
\* a pinned identity (runtime_worker_security_policy.go:15-16).
PinnedNeverDowngrades ==
  [][/\ boundToMTLS(disk) => boundToMTLS(disk')
     /\ mode' = "token" => ~boundToMTLS(disk')]_vars

\* A request is only retried with a certificate issued after the one Core
\* refused, whoever renewed in between (runtime_worker_client.go:180-190).
RetryIsFresh ==
  \A r \in Requests : pc[r] = "retry" => mgr.cert.serial > failedWith[r]

\* A due certificate of a running worker is renewed in the end, after failed
\* requests and failed writes too, without any Runtime request to trigger it.
RenewalKeepsUp ==
  (mode = "mtls" /\ now >= mgr.disk.cert.renew)
    ~> (mode # "mtls" \/ now < mgr.disk.cert.renew)
=============================================================================
