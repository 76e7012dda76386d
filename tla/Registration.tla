---------------------------- MODULE Registration ----------------------------
(***************************************************************************)
(* The first registration of an Agent and its pending record: EnsureAgent, *)
(* the env file that holds the completed registration and the record, and  *)
(* the starts of one process that use that file.                           *)
(*                                                                         *)
(* A token stands for the Agent that it creates when it is redeemed.  file *)
(* is what a read sees; durable are the contents that a power loss may     *)
(* leave, more than one after a rename whose directory is not synced.      *)
(* OpenLinker mints and redeems tokens, and answers an exact replay with   *)
(* the original registration.                                              *)
(***************************************************************************)
EXTENDS Naturals, FiniteSets

CONSTANTS
  Starts,       \* goroutines that call EnsureAgent
  Deployments,  \* applications: kinds, how their starts call it (reuse, supplied,
                \* rotate, forceNew, validate; save: RegisterAgentViaToken, then
                \* SaveAgentRegistration), and requests, what they register (slug,
                \* name, endpoint auth, mint parameters)
  Oversized,    \* those whose record exceeds maxPendingRegistrationBytes
  NoStart,
  WriteAttempts, \* pendingRegistrationWriteAttempts
  MaxTokens, MaxFaults, MaxCrashes,
  MaxForeign    \* writes of other processes to the env file

VARIABLES
  deployment,   \* the application at hand
  file, durable,
  registrationLock, pathLock,
  st,           \* of every start: where it is and what it holds
  tokens,       \* OpenLinker: the state of every token
  minted,
  sent,         \* history: the requests that each token was sent with
  foreign, faults, crashes

vars == <<deployment, file, durable, registrationLock, pathLock, st, tokens, minted, sent, foreign, faults, crashes>>
diskVars == <<file, durable>>
lockVars == <<registrationLock, pathLock>>
coreVars == <<tokens, minted, sent>>
envVars == <<deployment, foreign, faults, crashes>>

Supplied == 0              \* the pending token that the application supplies
Tokens == 0..MaxTokens
NoReg == [agent |-> MaxTokens + 1, token |-> MaxTokens + 1]
NoRecord == [token |-> MaxTokens + 1, req |-> "none", mint |-> FALSE, created |-> FALSE]
NoFile == [exists |-> FALSE, reg |-> NoReg, pending |-> NoRecord, other |-> 0]
NoToken == [state |-> "none", req |-> "none", agent |-> MaxTokens + 1]

Idle == [pc |-> "idle", kind |-> "none", req |-> "none", stored |-> NoReg, before |-> NoFile,
         tries |-> 0, token |-> MaxTokens + 1, mint |-> FALSE, journal |-> FALSE, replay |-> FALSE,
         reply |-> "none", disturbed |-> FALSE]

Init ==
  /\ deployment \in Deployments
  /\ file = NoFile /\ durable = {NoFile}
  /\ registrationLock = NoStart /\ pathLock = NoStart
  /\ st = [s \in Starts |-> Idle]
  /\ tokens = [t \in Tokens |-> IF t = Supplied THEN [NoToken EXCEPT !.state = "pending"] ELSE NoToken]
  /\ minted = 0 /\ sent = [t \in Tokens |-> {}]
  /\ foreign = 0 /\ faults = 0 /\ crashes = 0

Fault == faults < MaxFaults /\ faults' = faults + 1
Goto(s, pc) == st' = [st EXCEPT ![s].pc = pc]

\* The call returns: its locks are released.
Free(lock, s) == IF lock = s THEN NoStart ELSE lock
Return(s) ==
  /\ st' = [st EXCEPT ![s] = Idle]
  /\ registrationLock' = Free(registrationLock, s) /\ pathLock' = Free(pathLock, s)
-----------------------------------------------------------------------------
(* EnsureAgent up to the choice of what to do.                             *)

\* The request as resolveEnsureAgentRequest and normalizeEnsureAgentRequest leave it.
Call(k, r) == [Idle EXCEPT !.pc = "lock", !.kind = k, !.req = r]

EnsureAgent(s) ==
  /\ st[s].pc = "idle"
  /\ \E k \in deployment.kinds \ {"save"}, r \in deployment.requests : st' = [st EXCEPT ![s] = Call(k, r)]
  /\ UNCHANGED <<diskVars, lockVars, coreVars, envVars>>

\* An application that redeems its own token and saves the registration itself.
RegisterAgentViaToken(s) ==
  /\ st[s].pc = "idle" /\ "save" \in deployment.kinds /\ tokens[Supplied].state = "pending"
  /\ \E r \in deployment.requests :
       /\ st' = [st EXCEPT ![s] = [Call("save", r) EXCEPT !.pc = "saveRead", !.token = Supplied]]
       /\ tokens' = [tokens EXCEPT ![Supplied] = [state |-> "redeemed", req |-> r, agent |-> Supplied]]
  /\ UNCHANGED <<diskVars, lockVars, minted, sent, envVars>>

lockFirstRegistration(s) ==
  /\ st[s].pc = "lock" /\ registrationLock = NoStart
  /\ registrationLock' = s /\ Goto(s, "load")
  /\ UNCHANGED <<diskVars, pathLock, coreVars, envVars>>

\* ctx ends while the call waits for the lock.
lockCanceled(s) ==
  /\ st[s].pc = "lock" /\ Fault /\ Return(s)
  /\ UNCHANGED <<diskVars, coreVars, deployment, foreign, crashes>>

\* Only a first registration is journaled.
firstRegistration(stored) == stored = NoReg

\* What the policy asks for once it is known whether a registration is stored.
Chosen(s, stored) ==
  CASE st[s].kind = "validate" -> IF stored = NoReg THEN "return" ELSE "validate"
    [] st[s].kind \in {"reuse", "supplied"} /\ stored # NoReg -> "return"
    [] st[s].kind = "supplied" -> "recordRead"
    [] stored = NoReg -> "loadPending"
    [] st[s].kind = "forceNew" -> "mint"
    [] OTHER -> "issue"

prepareEnsureAgentRequest(s) ==
  /\ st[s].pc = "load"
  /\ LET stored == file.reg IN
       /\ st' = [st EXCEPT ![s].stored = stored, ![s].journal = firstRegistration(stored),
                           ![s].mint = st[s].kind # "supplied",
                           ![s].token = Supplied,
                           ![s].pc = Chosen(s, stored)]
       /\ registrationLock' = IF stored = NoReg THEN registrationLock ELSE NoStart
  /\ UNCHANGED <<diskVars, pathLock, coreVars, envVars>>

\* ListAgentTokens finds the stored token active, finds it gone or fails.
validateStoredAgent(s) ==
  /\ st[s].pc = "validate" /\ Return(s)
  /\ UNCHANGED <<diskVars, coreVars, envVars>>

\* The stored registration is returned, or there is none to validate.
effectiveAgentRegistration(s) ==
  /\ st[s].pc = "return" /\ Return(s)
  /\ UNCHANGED <<diskVars, coreVars, envVars>>
-----------------------------------------------------------------------------
(* redeemNewAgentRegistration.                                             *)

matchesAnyRequest(s, record) == record # NoRecord /\ record.mint
pendingRegistrationMatches(s, record) ==
  /\ record # NoRecord /\ record.mint
  /\ record.req = st[s].req

\* loadPendingAgentRegistration: an exactly matching record is replayed.
loadPending(s) ==
  /\ st[s].pc = "loadPending"
  /\ IF pendingRegistrationMatches(s, file.pending)
     THEN st' = [st EXCEPT ![s].token = file.pending.token, ![s].replay = TRUE, ![s].pc = "recordSync"]
     ELSE Goto(s, "mint")
  /\ UNCHANGED <<diskVars, lockVars, coreVars, envVars>>

\* CreateAgentToken, for a new Agent or for the stored one.
Mint(s, t, pc) ==
  /\ tokens' = [tokens EXCEPT ![minted + 1] = t] /\ minted' = minted + 1
  /\ st' = [st EXCEPT ![s].token = minted + 1, ![s].pc = pc]
  /\ UNCHANGED <<diskVars, lockVars, sent, envVars>>

mint(s) ==
  /\ st[s].pc = "mint" /\ minted < MaxTokens
  /\ Mint(s, [NoToken EXCEPT !.state = "pending"], IF st[s].journal THEN "recordRead" ELSE "redeem")

issueRuntimeTokenForStoredAgent(s) ==
  /\ st[s].pc = "issue" /\ minted < MaxTokens
  /\ Mint(s, [NoToken EXCEPT !.state = "redeemed", !.agent = st[s].stored.agent], "saveRead")

mintFails(s) ==
  /\ st[s].pc \in {"mint", "issue"} /\ Fault /\ Return(s)
  /\ UNCHANGED <<diskVars, coreVars, deployment, foreign, crashes>>
-----------------------------------------------------------------------------
(* The env file.  Every change holds the path lock from its read through   *)
(* its rename or removal.                                                  *)

lockRegistrationEnvPath(s) == pathLock = NoStart /\ pathLock' = s

\* A rename: visible at once, durable when the directory has been synced.
Replace(f) == file' = f /\ durable' = durable \cup {f}
ReplaceAndSync(f) == file' = f /\ durable' \in {{f}, durable \cup {f}}

\* savePendingAgentRegistration.  An oversized record is not written: the
\* attempt goes on without one.
recordRead(s) ==
  /\ st[s].pc = "recordRead"
  /\ IF st[s].req \in Oversized
     THEN pathLock = NoStart /\ UNCHANGED pathLock /\ Goto(s, "redeem")
     ELSE /\ lockRegistrationEnvPath(s)
          /\ st' = [st EXCEPT ![s].before = file, ![s].disturbed = FALSE, ![s].pc = "recordGuard"]
  /\ UNCHANGED <<diskVars, registrationLock, coreVars, envVars>>

PendingRecord(s) ==
  LET before == st[s].before
  IN [token |-> st[s].token, req |-> st[s].req, mint |-> st[s].mint,
      created |-> ~before.exists \/ (before.pending # NoRecord /\ before.pending.created)]

registrationEnvUnchanged(s) == file = st[s].before

\* The re-read right before the rename; after the last attempt the record is given up.
recordGuard(s) ==
  /\ st[s].pc = "recordGuard"
  /\ IF registrationEnvUnchanged(s)
     THEN Goto(s, "recordRename") /\ UNCHANGED pathLock
     ELSE IF st[s].tries + 1 < WriteAttempts
     THEN /\ st' = [st EXCEPT ![s].tries = @ + 1, ![s].before = file, ![s].disturbed = FALSE]
          /\ UNCHANGED pathLock
     ELSE /\ st' = [st EXCEPT ![s].journal = FALSE, ![s].pc = "redeem"]
          /\ pathLock' = NoStart
  /\ UNCHANGED <<diskVars, registrationLock, coreVars, envVars>>

recordRename(s) ==
  /\ st[s].pc = "recordRename"
  /\ Replace([st[s].before EXCEPT !.exists = TRUE, !.pending = PendingRecord(s)])
  /\ Goto(s, "recordSync")
  /\ UNCHANGED <<lockVars, coreVars, envVars>>

recordSyncSkipped(s) ==
  /\ st[s].pc = "recordSync"
  /\ pathLock' = Free(pathLock, s) /\ Goto(s, "redeem")
  /\ UNCHANGED <<diskVars, registrationLock, coreVars, envVars>>
\* syncRecordDir: strict, before the token is redeemed, also for a replay.
recordSync(s) ==
  /\ st[s].pc = "recordSync"
  /\ durable' = {file} /\ pathLock' = Free(pathLock, s) /\ Goto(s, "redeem")
  /\ UNCHANGED <<file, registrationLock, coreVars, envVars>>

recordFails(s) ==
  /\ st[s].pc \in {"loadPending", "recordRead", "recordGuard", "recordRename", "recordSync"}
  /\ Fault /\ Return(s)
  /\ UNCHANGED <<diskVars, coreVars, deployment, foreign, crashes>>

\* SaveAgentRegistration: only the completed keys are rewritten.
saveRead(s) ==
  /\ st[s].pc = "saveRead" /\ lockRegistrationEnvPath(s)
  /\ st' = [st EXCEPT ![s].before = file, ![s].pc = "saveRename"]
  /\ UNCHANGED <<diskVars, registrationLock, coreVars, envVars>>

saveRename(s) ==
  /\ st[s].pc = "saveRename"
  /\ ReplaceAndSync([st[s].before EXCEPT !.exists = TRUE,
                       !.reg = [agent |-> tokens[st[s].token].agent, token |-> st[s].token]])
  /\ IF st[s].journal
     THEN Goto(s, "clearRead") /\ pathLock' = NoStart /\ UNCHANGED registrationLock
     ELSE Return(s)
  /\ UNCHANGED <<coreVars, envVars>>

\* The record stays, so that the next start can replay the redemption.
storeFails(s) ==
  /\ st[s].pc \in {"load", "saveRead", "saveRename"} /\ Fault /\ Return(s)
  /\ UNCHANGED <<diskVars, coreVars, deployment, foreign, crashes>>

\* What follows a cleanup, whether it succeeded or not: a refused replay goes
\* on with a fresh token, everything else returns.
AfterCleanup(s) ==
  IF st[s].reply = "rejected" /\ st[s].replay
  THEN /\ st' = [st EXCEPT ![s].pc = "mint", ![s].replay = FALSE]
       /\ pathLock' = Free(pathLock, s) /\ UNCHANGED registrationLock
  ELSE Return(s)

\* clearPendingAgentRegistration: only this attempt's record is removed.
clearRead(s) ==
  /\ st[s].pc = "clearRead" /\ pathLock = NoStart
  /\ IF file.exists /\ file.pending.token = st[s].token
     THEN /\ lockRegistrationEnvPath(s) /\ UNCHANGED registrationLock
          /\ st' = [st EXCEPT ![s].before = file, ![s].disturbed = FALSE, ![s].pc = "clearGuard"]
     ELSE AfterCleanup(s)
  /\ UNCHANGED <<diskVars, coreVars, envVars>>

clearGuard(s) ==
  /\ st[s].pc = "clearGuard"
  /\ IF registrationEnvUnchanged(s) THEN Goto(s, "clearMutate") /\ UNCHANGED lockVars ELSE AfterCleanup(s)
  /\ UNCHANGED <<diskVars, coreVars, envVars>>

hasNoRegistration(f) == f.reg = NoReg
registrationEnvHasOnlyKey(f) == f.reg = NoReg /\ f.other = 0

\* The file is removed only if the record created it and it holds nothing else.
Cleared(before) ==
  IF before.pending.created /\ registrationEnvHasOnlyKey(before)
  THEN NoFile ELSE [before EXCEPT !.pending = NoRecord]

clearMutate(s) ==
  /\ st[s].pc = "clearMutate" /\ ReplaceAndSync(Cleared(st[s].before)) /\ AfterCleanup(s)
  /\ UNCHANGED <<coreVars, envVars>>

clearFails(s) ==
  /\ st[s].pc \in {"clearGuard", "clearMutate"} /\ Fault /\ AfterCleanup(s)
  /\ UNCHANGED <<diskVars, coreVars, deployment, foreign, crashes>>
-----------------------------------------------------------------------------
(* redeemPendingAgentRegistration and OpenLinker.                          *)

\* What OpenLinker does with a token and a request.
CoreRedeems(t, r) ==
  IF tokens[t].state = "pending" THEN [state |-> "redeemed", req |-> r, agent |-> t] ELSE tokens[t]
CoreAnswer(t, r) ==
  IF CoreRedeems(t, r).state = "redeemed" /\ CoreRedeems(t, r).req = r THEN "registered" ELSE "rejected"

Answered(s, reply) == st' = [st EXCEPT ![s].reply = reply, ![s].pc = "answered"]
Sent(s) == sent' = [sent EXCEPT ![st[s].token] = @ \cup {st[s].req}]

registerAgentViaToken(s) ==
  /\ st[s].pc = "redeem"
  /\ tokens' = [tokens EXCEPT ![st[s].token] = CoreRedeems(st[s].token, st[s].req)]
  /\ Sent(s) /\ Answered(s, CoreAnswer(st[s].token, st[s].req))
  /\ UNCHANGED <<diskVars, lockVars, minted, envVars>>

\* OpenLinker refuses a token that is not redeemed yet; or the request or the
\* response is lost, the latter after a redemption.
CoreRefuses(s) ==
  /\ st[s].pc = "redeem" /\ tokens[st[s].token].state # "redeemed" /\ Fault
  /\ Sent(s) /\ Answered(s, "rejected")
  /\ UNCHANGED <<diskVars, lockVars, tokens, minted, deployment, foreign, crashes>>

ResponseLost(s) ==
  /\ st[s].pc = "redeem" /\ Fault
  /\ Sent(s) /\ Answered(s, "lost")
  /\ tokens' \in {tokens, [tokens EXCEPT ![st[s].token] = CoreRedeems(st[s].token, st[s].req)]}
  /\ UNCHANGED <<diskVars, lockVars, minted, deployment, foreign, crashes>>

CoreExpires(t) ==
  /\ tokens[t].state = "pending" /\ Fault
  /\ tokens' = [tokens EXCEPT ![t].state = "expired"]
  /\ UNCHANGED <<diskVars, lockVars, st, minted, sent, deployment, foreign, crashes>>

\* A definitive rejection drops the record, any other failure keeps it.
definitiveRegistrationRejection(reply) == reply = "rejected"

redeemPendingAgentRegistration(s) ==
  /\ st[s].pc = "answered"
  /\ CASE st[s].reply = "registered" -> Goto(s, "saveRead") /\ UNCHANGED lockVars
       [] st[s].journal /\ definitiveRegistrationRejection(st[s].reply) -> Goto(s, "clearRead") /\ UNCHANGED lockVars
       [] OTHER -> Return(s)
  /\ UNCHANGED <<diskVars, coreVars, envVars>>
-----------------------------------------------------------------------------
(* The environment: the process stops, the machine loses power, and other  *)
(* processes write other lines of the env file.                            *)

Stops ==
  /\ crashes < MaxCrashes /\ crashes' = crashes + 1
  /\ st' = [s \in Starts |-> Idle]
  /\ registrationLock' = NoStart /\ pathLock' = NoStart
  /\ UNCHANGED <<coreVars, deployment, foreign, faults>>
ProcessStops == Stops /\ UNCHANGED diskVars
PowerLoss == Stops /\ file' \in durable /\ durable' = {file'}

Mutating == {"recordRename", "clearMutate"}
ForeignWrite ==
  /\ foreign < MaxForeign /\ foreign' = foreign + 1
  /\ ReplaceAndSync([file EXCEPT !.exists = TRUE, !.other = foreign'])
  /\ st' = [s \in Starts |-> [st[s] EXCEPT !.disturbed = @ \/ st[s].pc \in Mutating]]
  /\ UNCHANGED <<lockVars, coreVars, deployment, faults, crashes>>

Step(s) ==
  \/ lockFirstRegistration(s) \/ prepareEnsureAgentRequest(s) \/ validateStoredAgent(s) \/ effectiveAgentRegistration(s)
  \/ loadPending(s) \/ mint(s) \/ issueRuntimeTokenForStoredAgent(s)
  \/ recordRead(s) \/ recordGuard(s) \/ recordRename(s) \/ recordSync(s)
  \/ saveRead(s) \/ saveRename(s) \/ clearRead(s) \/ clearGuard(s) \/ clearMutate(s)
  \/ registerAgentViaToken(s) \/ redeemPendingAgentRegistration(s)
Fails(s) ==
  \/ lockCanceled(s) \/ mintFails(s) \/ recordFails(s) \/ storeFails(s) \/ clearFails(s)
  \/ CoreRefuses(s) \/ ResponseLost(s)

Next ==
  \/ \E s \in Starts : EnsureAgent(s) \/ RegisterAgentViaToken(s) \/ Step(s) \/ Fails(s)
  \/ \E t \in Tokens : CoreExpires(t)
  \/ ProcessStops \/ PowerLoss \/ ForeignWrite

Spec == Init /\ [][Next]_vars

\* The application starts again, a call that is not stopped goes on, and a
\* call that waits for a lock gets it in turn.
FairSpec ==
  /\ Spec
  /\ \A s \in Starts : WF_vars(EnsureAgent(s)) /\ WF_vars(Step(s))
  /\ \A s \in Starts : SF_vars(lockFirstRegistration(s)) /\ SF_vars(saveRead(s)) /\ SF_vars(recordRead(s))
  /\ \A s \in Starts : SF_vars(clearRead(s))
-----------------------------------------------------------------------------
Contents == [exists : BOOLEAN, reg : [agent : 0..MaxTokens + 1, token : 0..MaxTokens + 1],
             pending : [token : 0..MaxTokens + 1, req : deployment.requests \cup {"none"}, mint : BOOLEAN, created : BOOLEAN],
             other : 0..MaxForeign]

\* Types; no content of the file, now or after a power loss, holds lines while
\* the file is missing, and a stored token belongs to the stored Agent.
TypeOK ==
  /\ file \in Contents /\ durable \subseteq Contents /\ file \in durable
  /\ registrationLock \in Starts \cup {NoStart} /\ pathLock \in Starts \cup {NoStart}
  /\ \A f \in durable :
       /\ ~f.exists => f = NoFile
       /\ f.reg # NoReg => tokens[f.reg.token].state = "redeemed" /\ tokens[f.reg.token].agent = f.reg.agent

FirstRedeemed == {t \in Tokens : tokens[t].state = "redeemed" /\ tokens[t].agent = t}

\* Starts that agree on the request, and do not ask for a new Agent.
OneRequest ==
  /\ deployment.kinds \subseteq {"reuse", "rotate", "validate"}
  /\ Cardinality(deployment.requests) = 1 /\ deployment.requests \cap Oversized = {}

\* From the moment OpenLinker has redeemed a recorded token, every content that
\* a power loss can leave names its Agent or holds its record: the sync before
\* the redemption, the save before the cleanup.  A record is given up when
\* another process keeps writing the file.
RedeemedIsRecoverable ==
  OneRequest /\ foreign < WriteAttempts =>
    \A t \in FirstRedeemed, f \in durable : f.reg.agent = t \/ f.pending.token = t

\* OpenLinker never sees a minted token with two different requests: a record
\* is replayed only by a start that would make exactly the same attempt.
ReplayIsExact == \A t \in Tokens \ {Supplied} : Cardinality(sent[t]) <= 1

\* Starts in one process do not undo each other's save: the stored registration
\* changes only to that of the start whose save renames the file.
OnlySavesChangeRegistration ==
  [][file'.reg # file.reg =>
       \/ crashes' # crashes
       \/ \E s \in Starts : st[s].pc = "saveRename" /\ file'.reg.token = st[s].token]_vars

\* Writing or clearing a record loses no line of another process, unless that
\* process writes between the last re-read and the rename.
RecordKeepsOtherLines ==
  [][file'.other < file.other =>
       \/ crashes' # crashes
       \/ \E s \in Starts : st[s].pc \in Mutating /\ st[s].disturbed
       \/ \E s \in Starts : st[s].pc = "saveRename"]_vars

\* A refused first registration does not leave a file behind that holds
\* nothing, and never removes one that holds a registration or other lines:
\* the file disappears only when its only content is the record of that start.
RemovesOnlyItsOwnFile ==
  [][file.exists /\ ~file'.exists /\ crashes' = crashes =>
       \E s \in Starts : /\ st[s].pc = "clearMutate" /\ st[s].reply = "rejected"
                         /\ file.pending.token = st[s].token \/ st[s].disturbed
                         /\ (file.reg = NoReg /\ file.other = 0) \/ st[s].disturbed]_vars
=============================================================================
