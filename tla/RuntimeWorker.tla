---------------------------- MODULE RuntimeWorker ----------------------------
(***************************************************************************)
(* RuntimeWorker: one worker process after another on one data directory.  *)
(* A process resumes the durable attempts of its predecessors, then runs   *)
(* its loops side by side: claim, spool, cancellation, lease and command   *)
(* handling, transport reconnection, and one executor per attempt it       *)
(* starts.  They meet in the store, in node.active and in spoolAllowed.    *)
(*                                                                         *)
(* A step is one call of the store, one call of Core, or one section under *)
(* stateMu; everything else a goroutine does is private to it.  A store    *)
(* call is atomic and durable: that is what RuntimeStore is shown to       *)
(* implement.  Core, the server, is external: an attempt is none, offered, *)
(* leased or terminal there, and its answers are the ones that the code    *)
(* distinguishes.                                                          *)
(***************************************************************************)
EXTENDS AssignmentJournal, FiniteSetsExt

CONSTANTS
  Attempts,   \* attempts Core ever offers
  NoAttempt,
  Capacity,   \* node.Capacity
  MaxEvents,  \* bound: events one attempt emits
  MaxEpoch,   \* bound: processes started on the data directory
  MaxGens,    \* bound: active entries one process makes for an attempt
  Faults,     \* the kinds of fault that may happen
  MaxFaults   \* bound: faults in one behaviour

ASSUME RuntimeWorkerAssumption ==
  /\ NoAttempt \notin Attempts /\ NoResult \notin (1..MaxEpoch) \X (1..MaxGens)
  /\ Capacity \in Nat \ {0} /\ MaxEvents \in Nat /\ MaxEpoch \in Nat /\ MaxGens \in Nat
  /\ MaxFaults \in Nat
  /\ Faults \subseteq {"reconnect", "reoffer", "cancel", "expire", "lost", "drain", "full"}

VARIABLES
  store,     \* durable: the record and the spool of each attempt
  core,      \* external: what Core knows of each attempt
  proc,      \* down, starting (resume before the loops run), up
  epoch,     \* session epoch of the running or last process
  mode,      \* open, draining, stopping
  fatal,     \* reportFatal was called
  gate,      \* a transport is published
  active,    \* node.active: the generation registered for each attempt, 0 for none
  gens,      \* generations made for each attempt by this process
  exec,      \* the executor goroutine of each generation
  allowed,   \* node.spoolAllowed
  th,        \* the loops: where each one is and what it has read
  launches,  \* history: handlers launched, by attempt and process
  faults     \* faults so far

memory == <<mode, fatal, gate, active, gens, exec, allowed, th>>
vars == <<store, core, proc, epoch, mode, fatal, gate, active, gens, exec, allowed,
          th, launches, faults>>

Seqs == 1..MaxEvents
Epochs == 1..MaxEpoch
Gens == 1..MaxGens
Results == Epochs \X Gens
Threads == {"claim", "resume", "spool", "cancel", "renew", "command"}

-----------------------------------------------------------------------------
(* The store: the ledger record, the event files and the result file.      *)

NoRecord ==
  [state |-> "absent", last |-> 0, acked |-> {}, result |-> NoResult, deleted |-> FALSE,
   payload |-> FALSE, events |-> {}, spooled |-> FALSE]

\* AdvanceAssignment(next) returns no error; advancing to the present state is a no-op.
Advances(e, next) == Live(e) /\ (e.state = next \/ next \in AllowedNext(e.state))
AdvanceTo(e, next) == IF Advances(e, next) THEN [e EXCEPT !.state = next] ELSE e

PendingEvents(e) == e.events \ e.acked

\* AckEvent: a terminal attempt loses the file, any other one keeps it for replay.
AckEvent(e, n) ==
  [e EXCEPT !.acked = @ \cup {n},
            !.events = IF HoldsSpool(e.state) THEN @ \ {n} ELSE @]

\* AckResult: the spool of the attempt goes with the result.
AckResult(e) ==
  [e EXCEPT !.state = IF @ = "finished" THEN "result_acked" ELSE @,
            !.spooled = FALSE, !.events = {}]

Deletable(e) ==
  Live(e) /\ isAssignmentTerminal(e.state) /\ e.events = {} /\ ~e.spooled
Deleted(e) == [e EXCEPT !.deleted = TRUE, !.payload = FALSE]

Put(a, e) == store' = [store EXCEPT ![a] = e]

-----------------------------------------------------------------------------
(* Core.  It has asked for a cancellation; it holds its stopped ACK.       *)

NoLease == [status |-> "none", session |-> 0, events |-> {}, result |-> NoResult,
            asked |-> FALSE, stopped |-> FALSE]
Open(a) == core[a].status \in {"offered", "leased"}
Terminal(a) == core[a].status = "terminal"

Fault(kind) == kind \in Faults /\ faults < MaxFaults /\ faults' = faults + 1

\* The lease or the offer expires at Core, or Core ends the run.
CoreExpires(a) ==
  /\ Open(a) /\ Fault("expire")
  /\ core' = [core EXCEPT ![a].status = "terminal"]
  /\ UNCHANGED <<store, proc, epoch, memory, launches>>

-----------------------------------------------------------------------------
(* Threads.  A thread's record holds the attempt it works on, the journal  *)
(* state st it has read, the generation act it has looked up, the events   *)
(* todo and the result res it is to upload, its permission perm, flags of  *)
(* the call it is in, and where to go on after a subroutine.               *)

NoPermission == [events |-> FALSE, result |-> FALSE]
FullPermission == [events |-> TRUE, result |-> TRUE]

Idle ==
  [pc |-> "idle", a |-> NoAttempt, st |-> "absent", act |-> 0, todo |-> {},
   res |-> NoResult, perm |-> NoPermission, flag |-> FALSE, ret |-> "idle",
   recs |-> [a \in Attempts |-> "absent"], decs |-> [a \in Attempts |-> "none"]]

At(t, pc) == th[t].pc = pc
Become(t, r) == th' = [th EXCEPT ![t] = IF r.pc = "idle" THEN Idle ELSE r]
Goto(t, pc) == Become(t, [th[t] EXCEPT !.pc = pc])
Finish(t) == Become(t, Idle)

\* An error that its loop treats as fatal: reportFatal, and the loop returns.
Dies(t) == fatal' = TRUE /\ Become(t, [Idle EXCEPT !.pc = "dead"])

Running == proc # "down"

\* retireActiveAttempt: removes the entry if it is still this generation's.
Retired(a, g) == IF g # 0 /\ active[a] = g THEN [active EXCEPT ![a] = 0] ELSE active

Inflight ==
  Cardinality({a \in Attempts : active[a] # 0 \/ (th["claim"].flag /\ th["claim"].a = a)})

\* What a step of a loop leaves alone: a store call (which may fail fatally), a
\* call of Core, and a section under stateMu.
StoreCall == UNCHANGED <<core, proc, epoch, mode, gate, active, gens, exec, allowed,
                         launches, faults>>
CoreCall == UNCHANGED <<store, proc, epoch, mode, fatal, gate, active, gens, exec,
                        allowed, launches>>
Locked == UNCHANGED <<store, core, proc, epoch, mode, gate, launches, faults>>

\* A call whose answer reached the caller, and one whose answer was lost.
Answered == UNCHANGED faults
Lost == Fault("lost")

-----------------------------------------------------------------------------
(* startConfirmedAttempt, called by the claim loop and by resume.          *)

\* Mutant: an attempt that is active already is registered again.
StartRegisterAgain(t) ==
  LET a == th[t].a g == gens[a] + 1 IN
  /\ At(t, "start") /\ th[t].st = "confirmed" /\ mode # "stopping" /\ gens[a] < MaxGens
  /\ gens' = [gens EXCEPT ![a] = g] /\ active' = [active EXCEPT ![a] = g]
  /\ exec' = [exec EXCEPT ![a][g].pc = "starting"]
  /\ Become(t, [th[t] EXCEPT !.pc = "started", !.act = g])
  /\ Locked /\ UNCHANGED <<fatal, allowed>>

\* Registers the attempt under stateMu.  The record read before must say
\* confirmed; a stopping worker and an attempt already active start nothing.
StartRegister(t) ==
  LET a == th[t].a g == gens[a] + 1 IN
  /\ At(t, "start") /\ th[t].st = "confirmed"
  /\ IF mode = "stopping" \/ active[a] # 0
     THEN Goto(t, th[t].ret) /\ UNCHANGED <<active, gens, exec>>
     ELSE /\ gens[a] < MaxGens
          /\ gens' = [gens EXCEPT ![a] = g]
          /\ active' = [active EXCEPT ![a] = g]
          /\ exec' = [exec EXCEPT ![a][g].pc = "starting"]
          /\ Become(t, [th[t] EXCEPT !.pc = "started", !.act = g])
  /\ Locked /\ UNCHANGED <<fatal, allowed>>

StartRefused(t) ==
  /\ At(t, "start") /\ th[t].st # "confirmed"
  /\ Goto(t, "failed")
  /\ StoreCall /\ UNCHANGED <<store, fatal>>

\* Mutant: the handler is launched and the journal does not say so.
StartAdvanceNotDurable(t) ==
  /\ At(t, "started")
  /\ exec' = [exec EXCEPT ![th[t].a][th[t].act].pc = "run"]
  /\ launches' = [launches EXCEPT ![th[t].a][epoch] = @ + 1]
  /\ Become(t, [th[t] EXCEPT !.pc = th[t].ret, !.act = 0])
  /\ UNCHANGED <<store, core, proc, epoch, mode, fatal, gate, active, gens, allowed, faults>>

\* The durable started boundary, and only then the handler.
StartAdvance(t) ==
  LET a == th[t].a g == th[t].act IN
  /\ At(t, "started")
  /\ IF Advances(store[a], "started")
     THEN /\ Put(a, AdvanceTo(store[a], "started"))
          /\ exec' = [exec EXCEPT ![a][g].pc = "run"]
          /\ launches' = [launches EXCEPT ![a][epoch] = @ + 1]
          /\ Become(t, [th[t] EXCEPT !.pc = th[t].ret, !.act = 0])
          /\ UNCHANGED active
     ELSE /\ active' = Retired(a, g)
          /\ exec' = [exec EXCEPT ![a][g].pc = "aborted"]
          /\ Become(t, [th[t] EXCEPT !.pc = "failed", !.act = 0])
          /\ UNCHANGED <<store, launches>>
  /\ UNCHANGED <<core, proc, epoch, mode, fatal, gate, gens, allowed, faults>>

-----------------------------------------------------------------------------
(* claimLoop and handleClaimedAssignment.  flag: the attempt is reserved;  *)
(* going back to idle is endAssignment and the next turn of the loop.      *)

\* Core has a new attempt for this session, or may repeat an offer it made to it.
Offerable(a) ==
  \/ core[a].status = "none"
  \/ Open(a) /\ core[a].session = epoch /\ "reoffer" \in Faults /\ faults < MaxFaults

\* The loop polls only when capacitySnapshot leaves room; a poll that returns
\* nothing is a turn of the loop that changes nothing.
Poll ==
  /\ At("claim", "idle") /\ proc = "up" /\ mode = "open" /\ Inflight < Capacity
  /\ \E a \in Attempts : Offerable(a)
  /\ Goto("claim", "polling")
  /\ StoreCall /\ UNCHANGED <<store, fatal>>

\* Core offers a new attempt, or the same one again to the session that holds
\* the offer; beginAssignment reserves room for it.
Offer(a) ==
  /\ At("claim", "polling") /\ gate
  /\ \/ /\ core[a].status = "none" /\ UNCHANGED faults
        /\ core' = [core EXCEPT ![a].status = "offered", ![a].session = epoch]
     \/ /\ Open(a) /\ core[a].session = epoch /\ Fault("reoffer") /\ UNCHANGED core
  /\ Become("claim", [Idle EXCEPT !.pc = "create", !.a = a,
        !.flag = mode = "open" /\ active[a] = 0 /\ Inflight < Capacity])
  /\ CoreCall

\* A record that exists is left as it is; a deleted one is an error.
ClaimCreate ==
  LET a == th["claim"].a IN
  /\ At("claim", "create")
  /\ IF store[a].deleted
     THEN Goto("claim", "failed") /\ UNCHANGED store
     ELSE /\ Goto("claim", "read")
          /\ Put(a, IF store[a].state = "absent" THEN [NoRecord EXCEPT !.state = "received"]
                     ELSE store[a])
  /\ StoreCall /\ UNCHANGED fatal

\* A fresh offer that was not admitted, or that meets a drain, is rejected.
ClaimRead ==
  LET c == th["claim"] e == store[c.a] IN
  /\ At("claim", "read")
  /\ Become("claim", [th["claim"] EXCEPT !.st = e.state, !.pc =
       IF ~Live(e) THEN "failed"
       ELSE IF e.state = "received" /\ (mode # "open" \/ ~c.flag) THEN "rejecting"
       ELSE "payload"])
  /\ StoreCall /\ UNCHANGED <<store, fatal>>

\* Where handleClaimedAssignment goes with the record in state st.
Dispatch(st) ==
  CASE st = "received"                -> "acksent"
    [] st = "ack_sent"                -> "ack"
    [] st = "confirmed"               -> "allow"
    [] st \in {"started", "finished"} -> "reack"
    [] OTHER                          -> "idle"

ClaimPayload ==
  LET c == th["claim"] e == store[c.a] IN
  /\ At("claim", "payload")
  /\ \/ /\ IF Live(e) /\ ~isAssignmentTerminal(e.state) /\ e.state # "reject_sent"
           THEN Goto("claim", Dispatch(c.st)) /\ Put(c.a, [e EXCEPT !.payload = TRUE])
           ELSE Goto("claim", "failed") /\ UNCHANGED store
        /\ UNCHANGED faults
     \/ /\ ~e.payload /\ Fault("full") /\ Goto("claim", "idle") /\ UNCHANGED store
  /\ UNCHANGED <<core, proc, epoch, mode, fatal, gate, active, gens, exec, allowed, launches>>

ClaimAckSent ==
  LET a == th["claim"].a IN
  /\ At("claim", "acksent")
  /\ IF Advances(store[a], "ack_sent")
     THEN Put(a, AdvanceTo(store[a], "ack_sent")) /\ Goto("claim", "reread")
     ELSE Goto("claim", "failed") /\ UNCHANGED store
  /\ StoreCall /\ UNCHANGED fatal

ClaimReread ==
  LET e == store[th["claim"].a] st == IF Live(e) THEN e.state ELSE "absent" IN
  /\ At("claim", "reread")
  /\ Become("claim", [th["claim"] EXCEPT !.st = st, !.pc = Dispatch(st)])
  /\ StoreCall /\ UNCHANGED <<store, fatal>>

\* ackAssignmentWithRetry: Core confirms the lease, or the lease is stale.  An
\* answer that is lost and a transport in transition are retried.
ClaimAck ==
  LET a == th["claim"].a again == At("claim", "reack") IN
  /\ th["claim"].pc \in {"ack", "reack"} /\ gate
  /\ \/ /\ Open(a)
        /\ core' = [core EXCEPT ![a].status = "leased"]
        /\ \/ Goto("claim", IF again THEN "reallow" ELSE "confirm") /\ Answered
           \/ Lost /\ UNCHANGED th
     \/ /\ Terminal(a) /\ Answered /\ UNCHANGED core
        /\ Goto("claim", IF again THEN "idle" ELSE "stale")
  /\ CoreCall

\* The error of this AdvanceAssignment is ignored.
ClaimStale ==
  LET a == th["claim"].a IN
  /\ At("claim", "stale")
  /\ Put(a, AdvanceTo(store[a], "revoked")) /\ Goto("claim", "idle")
  /\ StoreCall /\ UNCHANGED fatal

ClaimConfirm ==
  LET a == th["claim"].a IN
  /\ At("claim", "confirm")
  /\ IF Advances(store[a], "confirmed")
     THEN Put(a, AdvanceTo(store[a], "confirmed")) /\ Goto("claim", "allowread")
     ELSE Goto("claim", "failed") /\ UNCHANGED store
  /\ StoreCall /\ UNCHANGED fatal

\* allowSpool; after a confirmation the record is read again for the start.
ClaimAllow ==
  LET c == th["claim"] e == store[c.a] IN
  /\ c.pc \in {"allow", "allowread", "reallow"}
  /\ allowed' = [allowed EXCEPT ![c.a] = FullPermission]
  /\ Become("claim", [th["claim"] EXCEPT !.ret = "idle",
       !.pc = IF c.pc = "reallow" THEN "idle" ELSE "start",
       !.st = IF c.pc # "allowread" THEN c.st
                       ELSE IF Live(e) THEN e.state ELSE "absent"])
  /\ Locked /\ UNCHANGED <<fatal, active, gens, exec>>

RejectSent ==
  LET a == th["claim"].a IN
  /\ At("claim", "rejecting")
  /\ IF Advances(store[a], "reject_sent")
     THEN Put(a, AdvanceTo(store[a], "reject_sent")) /\ Goto("claim", "reject")
     ELSE Goto("claim", "failed") /\ UNCHANGED store
  /\ StoreCall /\ UNCHANGED fatal

\* Mutant: the rejection is given up after an error of the call.
RejectCallOnce ==
  /\ At("claim", "reject") /\ Goto("claim", "rejected")
  /\ UNCHANGED <<core, faults>> /\ CoreCall

RejectCall ==
  LET a == th["claim"].a IN
  /\ At("claim", "reject") /\ gate
  /\ \/ /\ Open(a)
        /\ core' = [core EXCEPT ![a].status = "terminal"]
        /\ (Goto("claim", "rejected") /\ Answered) \/ (Lost /\ UNCHANGED th)
     \/ Terminal(a) /\ Answered /\ UNCHANGED core /\ Goto("claim", "stale")
  /\ CoreCall

RejectDone ==
  LET a == th["claim"].a IN
  /\ At("claim", "rejected")
  /\ Put(a, AdvanceTo(store[a], "rejected")) /\ Goto("claim", "drop")
  /\ StoreCall /\ UNCHANGED fatal

RejectDelete ==
  LET a == th["claim"].a IN
  /\ At("claim", "drop")
  /\ IF Deletable(store[a])
     THEN Put(a, Deleted(store[a])) /\ Goto("claim", "idle")
     ELSE Goto("claim", "failed") /\ UNCHANGED store
  /\ StoreCall /\ UNCHANGED fatal

ClaimFails ==
  /\ At("claim", "failed") /\ Dies("claim")
  /\ StoreCall /\ UNCHANGED store

-----------------------------------------------------------------------------
(* The executor goroutine of generation g of attempt a: executeAttempt.    *)

Moves(a, g, pc) == exec' = [exec EXCEPT ![a][g].pc = pc]
ExecStep == UNCHANGED <<core, proc, epoch, mode, gate, active, gens, allowed, th,
                        launches, faults>>

\* emit refuses after a cancellation; then AppendEvent runs without the check.
EmitCheck(a, g) ==
  /\ exec[a][g].pc = "run" /\ ~exec[a][g].canceled /\ store[a].last < MaxEvents
  /\ Moves(a, g, "emit")
  /\ ExecStep /\ UNCHANGED <<store, fatal>>

\* persistRuntimeEvent: an event is appended only to a started attempt; any
\* other outcome is fatal.  A final event is appended after the handler
\* returned, without looking at canceled, and its failure ends the executor.
AppendEvent(a, g) ==
  LET e == store[a] final == exec[a][g].pc = "persist" IN
  /\ exec[a][g].pc \in {"emit", "persist"}
  /\ IF Live(e) /\ e.state = "started"
     THEN /\ e.last < MaxEvents
          /\ Put(a, [e EXCEPT !.last = @ + 1, !.events = @ \cup {e.last + 1}])
          /\ Moves(a, g, IF final THEN "persist" ELSE "run")
          /\ UNCHANGED fatal
     ELSE /\ fatal' = TRUE /\ UNCHANGED store
          /\ Moves(a, g, IF final THEN "done" ELSE "run")
  /\ ExecStep

HandlerReturns(a, g) ==
  /\ exec[a][g].pc = "run"
  /\ Moves(a, g, "returned")
  /\ ExecStep /\ UNCHANGED <<store, fatal>>

CanceledCheck(a, g) ==
  /\ exec[a][g].pc = "returned"
  /\ Moves(a, g, IF exec[a][g].canceled THEN "done" ELSE "persist")
  /\ ExecStep /\ UNCHANGED <<store, fatal>>

\* persistRunResult draws a new result ID: one per executor.
StoreResult(a, g) ==
  LET e == store[a] IN
  /\ exec[a][g].pc = "persist"
  /\ IF Live(e) /\ e.state = "started"
     THEN /\ Put(a, [e EXCEPT !.state = "finished", !.result = <<epoch, g>>, !.spooled = TRUE])
          /\ UNCHANGED fatal
     ELSE fatal' = TRUE /\ UNCHANGED store
  /\ Moves(a, g, "done")
  /\ ExecStep

Execute ==
  \E a \in Attempts, g \in Gens :
    \/ EmitCheck(a, g) \/ AppendEvent(a, g) \/ HandlerReturns(a, g)
    \/ CanceledCheck(a, g) \/ StoreResult(a, g)

-----------------------------------------------------------------------------
(* revokeLocalAttempt, called by the spool loop, a lease renewal and the   *)
(* lease.revoked command.  Its errors are fatal but do not stop it.        *)

Cancel(a, g) == IF g = 0 THEN exec ELSE [exec EXCEPT ![a][g].canceled = TRUE]

RevokeStop(t) ==
  LET a == th[t].a IN
  /\ At(t, "revoke")
  /\ exec' = Cancel(a, active[a])
  /\ Become(t, [th[t] EXCEPT !.pc = "revoke_read", !.act = active[a]])
  /\ Locked /\ UNCHANGED <<fatal, active, gens, allowed>>

RevokeRead(t) ==
  LET a == th[t].a e == store[a] IN
  /\ At(t, "revoke_read")
  /\ IF Live(e)
     THEN /\ Goto(t, IF isAssignmentTerminal(e.state) THEN "revoke_retire" ELSE "revoke_advance")
          /\ UNCHANGED active
     ELSE active' = Retired(a, th[t].act) /\ Finish(t)
  /\ Locked /\ UNCHANGED <<fatal, gens, exec, allowed>>

RevokeAdvance(t) ==
  LET a == th[t].a IN
  /\ At(t, "revoke_advance")
  /\ Put(a, AdvanceTo(store[a], "revoked"))
  /\ fatal' = (fatal \/ ~Advances(store[a], "revoked"))
  /\ Goto(t, "revoke_retire")
  /\ StoreCall

RevokeRetire(t) ==
  LET a == th[t].a IN
  /\ At(t, "revoke_retire")
  /\ allowed' = [allowed EXCEPT ![a] = NoPermission]
  /\ active' = Retired(a, th[t].act)
  /\ Finish(t)
  /\ Locked /\ UNCHANGED <<fatal, gens, exec>>

RevokeLocal(t) == RevokeStop(t) \/ RevokeRead(t) \/ RevokeAdvance(t) \/ RevokeRetire(t)

\* renewAttemptLease: the lease ran out on the worker's clock, or Core answered
\* STALE_LEASE, LEASE_EXPIRED or RUN_CANCEL_REQUESTED.
RenewEnds(a) ==
  LET g == active[a] IN
  /\ At("renew", "idle") /\ g # 0 /\ exec[a][g].pc # "starting"
  /\ Live(store[a])
  /\ \/ gate /\ (Terminal(a) \/ core[a].asked) /\ UNCHANGED faults
     \/ Fault("expire")
  /\ exec' = Cancel(a, g)
  /\ Become("renew", [Idle EXCEPT !.pc = "revoke", !.a = a])
  /\ UNCHANGED <<store, core, proc, epoch, mode, fatal, gate, active, gens, allowed, launches>>

\* A renewal that finds no record is fatal while the handler runs.
RenewOrphan(a) ==
  LET g == active[a] IN
  /\ At("renew", "idle") /\ g # 0 /\ exec[a][g].pc \in {"run", "emit"}
  /\ ~Live(store[a])
  /\ fatal' = TRUE
  /\ StoreCall /\ UNCHANGED <<store, th>>

\* handleLeaseRevoke: Core tells the worker that the lease is gone.
LeaseRevoked(a) ==
  /\ At("command", "idle") /\ proc = "up" /\ gate
  /\ Terminal(a) /\ Live(store[a])
  /\ Become("command", [Idle EXCEPT !.pc = "revoke", !.a = a])
  /\ StoreCall /\ UNCHANGED <<store, fatal>>

\* A drain command of Core, or Drain.
DrainRequested ==
  /\ proc = "up" /\ mode = "open" /\ Fault("drain")
  /\ mode' = "draining"
  /\ UNCHANGED <<store, core, proc, epoch, fatal, gate, active, gens, exec, allowed, th, launches>>

-----------------------------------------------------------------------------
(* spoolLoop: the flush of one attempt of flushDurableSpool's list.        *)
(* flag: EVENTS_MISSING has been repaired once.                            *)

FlushBegin(a) ==
  /\ At("spool", "idle") /\ proc = "up" /\ Live(store[a]) /\ allowed[a] # NoPermission
  /\ Become("spool", [Idle EXCEPT !.a = a, !.perm = allowed[a],
                                  !.pc = IF allowed[a].events THEN "pending" ELSE "remaining"])
  /\ StoreCall /\ UNCHANGED <<store, fatal>>

\* After the last event, the result if the permission covers it.
AfterEvents(s) == IF s.perm.result THEN "remaining" ELSE "idle"

FlushPending ==
  LET s == th["spool"] e == store[s.a] IN
  /\ At("spool", "pending")
  /\ IF ~Live(e) THEN Goto("spool", "failed")
     ELSE Become("spool", [th["spool"] EXCEPT !.todo = PendingEvents(e),
                           !.pc = IF PendingEvents(e) = {} THEN AfterEvents(s) ELSE "send"])
  /\ StoreCall /\ UNCHANGED <<store, fatal>>

\* AppendRuntimeEvent of the next event; an error ends this flush, and one that
\* says the run is over revokes the attempt locally.
FlushSend ==
  LET s == th["spool"] a == s.a n == Min(s.todo) IN
  /\ At("spool", "send")
  /\ \/ /\ gate /\ ~Terminal(a)
        /\ core' = [core EXCEPT ![a].events = @ \cup {n}]
        /\ (Goto("spool", "ack") /\ Answered) \/ (Lost /\ Goto("spool", "idle"))
     \/ gate /\ Terminal(a) /\ Goto("spool", "revoke") /\ UNCHANGED core /\ Answered
     \/ ~gate /\ Goto("spool", "idle") /\ UNCHANGED core /\ Answered
  /\ CoreCall

\* An acknowledged sequence stays acknowledged; one with no file is an error
\* the loop retries.
FlushAck ==
  LET s == th["spool"] e == store[s.a] n == Min(s.todo) left == s.todo \ {n} IN
  /\ At("spool", "ack")
  /\ IF Live(e) /\ n \in e.events \cup e.acked
     THEN /\ Put(s.a, AckEvent(e, n))
          /\ Become("spool", [th["spool"] EXCEPT !.todo = left, !.pc =
               IF left # {} THEN "send" ELSE IF s.flag THEN "finalize" ELSE AfterEvents(s)])
     ELSE Goto("spool", IF Live(e) THEN "idle" ELSE "failed") /\ UNCHANGED store
  /\ StoreCall /\ UNCHANGED fatal

\* Mutant: events that are acknowledged and kept for replay count as remaining.
FlushRemainingKept ==
  LET e == store[th["spool"].a] IN
  /\ At("spool", "remaining")
  /\ Goto("spool", IF ~Live(e) THEN "failed" ELSE IF e.events # {} THEN "idle" ELSE "result")
  /\ StoreCall /\ UNCHANGED <<store, fatal>>

FlushRemaining ==
  LET e == store[th["spool"].a] IN
  /\ At("spool", "remaining")
  /\ Goto("spool", IF ~Live(e) THEN "failed"
                   ELSE IF PendingEvents(e) # {} THEN "idle" ELSE "result")
  /\ StoreCall /\ UNCHANGED <<store, fatal>>

FlushResult ==
  LET e == store[th["spool"].a] IN
  /\ At("spool", "result")
  /\ Become("spool", [th["spool"] EXCEPT !.res = e.result, !.pc =
       IF ~Live(e) THEN "failed" ELSE IF e.spooled THEN "finalize" ELSE "idle"])
  /\ StoreCall /\ UNCHANGED <<store, fatal>>

\* Mutant: a run that is already over counts as an acknowledgement.
FlushFinalizeOver ==
  LET s == th["spool"] a == s.a IN
  /\ At("spool", "finalize") /\ gate
  /\ core' = [core EXCEPT ![a].status = "terminal",
                          ![a].result = IF Terminal(a) THEN @ ELSE s.res]
  /\ Goto("spool", "retire") /\ Answered
  /\ CoreCall

\* FinalizeRuntimeResult: Core accepts the result once it has every event up to
\* its final sequence, repeats its answer for the same result, and otherwise
\* names what is missing.  The loop repairs that once.
FlushFinalize ==
  LET s == th["spool"] a == s.a missing == (1..store[a].last) \ core[a].events IN
  /\ At("spool", "finalize")
  /\ \/ /\ gate /\ ~Terminal(a) /\ missing = {}
        /\ core' = [core EXCEPT ![a].status = "terminal", ![a].result = s.res]
        /\ (Goto("spool", "retire") /\ Answered) \/ (Lost /\ Goto("spool", "idle"))
     \/ /\ gate /\ ~Terminal(a) /\ missing # {} /\ Answered /\ UNCHANGED core
        /\ Become("spool", [th["spool"] EXCEPT !.todo = missing, !.flag = TRUE,
                            !.pc = IF s.flag THEN "failed" ELSE "repair"])
     \/ /\ gate /\ Terminal(a) /\ Answered /\ UNCHANGED core
        /\ Goto("spool", IF core[a].result = s.res THEN "retire" ELSE "revoke")
     \/ ~gate /\ Goto("spool", "idle") /\ Answered /\ UNCHANGED core
  /\ CoreCall

\* EventsInRanges: the acknowledged events of a live attempt are still on disk.
FlushRepair ==
  LET s == th["spool"] e == store[s.a] IN
  /\ At("spool", "repair")
  /\ Goto("spool", IF Live(e) /\ s.todo \subseteq e.events THEN "send" ELSE "failed")
  /\ StoreCall /\ UNCHANGED <<store, fatal>>

FlushRetire ==
  LET a == th["spool"].a IN
  /\ At("spool", "retire")
  /\ active' = Retired(a, active[a]) /\ Goto("spool", "ack_result")
  /\ Locked /\ UNCHANGED <<fatal, gens, exec, allowed>>

\* AckResult accepts the pending result, or one it has acknowledged before.
AckResultAccepts(e, r) ==
  /\ Live(e) /\ e.result = r
  /\ e.state = "result_acked" \/ (e.spooled /\ e.state \in {"finished", "revoked"})

FlushAckResult ==
  LET s == th["spool"] e == store[s.a] IN
  /\ At("spool", "ack_result")
  /\ IF AckResultAccepts(e, s.res)
     THEN Put(s.a, AckResult(e)) /\ Goto("spool", "delete")
     ELSE Goto("spool", IF Live(e) THEN "idle" ELSE "failed") /\ UNCHANGED store
  /\ StoreCall /\ UNCHANGED fatal

FlushDelete ==
  LET a == th["spool"].a IN
  /\ At("spool", "delete")
  /\ IF Deletable(store[a])
     THEN Put(a, Deleted(store[a])) /\ Goto("spool", "forget")
     ELSE Goto("spool", "failed") /\ UNCHANGED store
  /\ StoreCall /\ UNCHANGED fatal

FlushForget ==
  /\ At("spool", "forget")
  /\ allowed' = [allowed EXCEPT ![th["spool"].a] = NoPermission] /\ Goto("spool", "idle")
  /\ Locked /\ UNCHANGED <<fatal, active, gens, exec>>

FlushFails ==
  /\ At("spool", "failed") /\ Dies("spool")
  /\ StoreCall /\ UNCHANGED store

Flush ==
  \/ \E a \in Attempts : FlushBegin(a)
  \/ FlushPending \/ FlushSend \/ FlushAck \/ FlushRemaining
  \/ FlushResult \/ FlushFinalize \/ FlushRepair \/ FlushRetire \/ FlushAckResult
  \/ FlushDelete \/ FlushForget \/ FlushFails

-----------------------------------------------------------------------------
(* retireTerminalAttempt, called by resume and by a cancellation.          *)
(* flag: the attempt is to be revoked first.                               *)

\* A missing record means that an earlier cleanup completed.
RetireRead(t) ==
  LET e == store[th[t].a] IN
  /\ At(t, "retire_read")
  /\ Become(t, [th[t] EXCEPT !.st = e.state, !.pc =
       IF ~Live(e) THEN th[t].ret
       ELSE IF th[t].flag /\ ~isAssignmentTerminal(e.state) THEN "retire_advance"
       ELSE "retire_pending"])
  /\ StoreCall /\ UNCHANGED <<store, fatal>>

RetireAdvance(t) ==
  LET a == th[t].a IN
  /\ At(t, "retire_advance")
  /\ IF Advances(store[a], "revoked")
     THEN /\ Put(a, AdvanceTo(store[a], "revoked"))
          /\ Become(t, [th[t] EXCEPT !.st = "revoked", !.pc = "retire_pending"])
     ELSE Goto(t, "failed") /\ UNCHANGED store
  /\ StoreCall /\ UNCHANGED fatal

\* Mutant: the pending events are dropped without being acknowledged.
RetirePendingDropped(t) ==
  /\ At(t, "retire_pending")
  /\ Goto(t, IF Live(store[th[t].a]) THEN "retire_result" ELSE "failed")
  /\ StoreCall /\ UNCHANGED <<store, fatal>>

RetirePending(t) ==
  LET e == store[th[t].a] IN
  /\ At(t, "retire_pending")
  /\ IF ~Live(e) THEN Goto(t, "failed")
     ELSE Become(t, [th[t] EXCEPT !.todo = PendingEvents(e), !.pc =
                   IF PendingEvents(e) = {} THEN "retire_result" ELSE "retire_ack"])
  /\ StoreCall /\ UNCHANGED <<store, fatal>>

RetireAck(t) ==
  LET a == th[t].a e == store[a] n == Min(th[t].todo) left == th[t].todo \ {n} IN
  /\ At(t, "retire_ack")
  /\ IF Live(e) /\ n \in e.events \cup e.acked
     THEN /\ Put(a, AckEvent(e, n))
          /\ Become(t, [th[t] EXCEPT !.todo = left, !.pc =
               IF left = {} THEN "retire_result" ELSE "retire_ack"])
     ELSE Goto(t, "failed") /\ UNCHANGED store
  /\ StoreCall /\ UNCHANGED fatal

RetireResult(t) ==
  LET e == store[th[t].a] IN
  /\ At(t, "retire_result")
  /\ Become(t, [th[t] EXCEPT !.res = e.result, !.pc =
       IF ~Live(e) THEN "failed" ELSE IF e.spooled THEN "retire_ack_result" ELSE "retire_clear"])
  /\ StoreCall /\ UNCHANGED <<store, fatal>>

RetireAckResult(t) ==
  LET a == th[t].a IN
  /\ At(t, "retire_ack_result")
  /\ IF AckResultAccepts(store[a], th[t].res)
     THEN /\ Put(a, AckResult(store[a]))
          /\ Become(t, [th[t] EXCEPT !.pc = "retire_reread", !.res = NoResult])
     ELSE Goto(t, "failed") /\ UNCHANGED store
  /\ StoreCall /\ UNCHANGED fatal

RetireReread(t) ==
  LET e == store[th[t].a] IN
  /\ At(t, "retire_reread")
  /\ Become(t, [th[t] EXCEPT !.st = IF Live(e) THEN e.state ELSE "absent", !.pc = "retire_clear"])
  /\ StoreCall /\ UNCHANGED <<store, fatal>>

\* ClearTerminalEvents drops the event files, acknowledged or not.
RetireClear(t) ==
  LET a == th[t].a e == store[a] IN
  /\ At(t, "retire_clear")
  /\ IF ~HoldsSpool(th[t].st) THEN Goto(t, "retire_delete") /\ UNCHANGED store
     ELSE IF Live(e) /\ HoldsSpool(e.state)
     THEN Put(a, [e EXCEPT !.events = {}]) /\ Goto(t, "retire_delete")
     ELSE Goto(t, "failed") /\ UNCHANGED store
  /\ StoreCall /\ UNCHANGED fatal

RetireDelete(t) ==
  LET a == th[t].a e == store[a] IN
  /\ At(t, "retire_delete")
  /\ IF Deletable(e) THEN Put(a, Deleted(e)) /\ Goto(t, th[t].ret)
     ELSE Goto(t, IF Live(e) THEN "failed" ELSE th[t].ret) /\ UNCHANGED store
  /\ StoreCall /\ UNCHANGED fatal

RetireTerminal(t) ==
  \/ RetireRead(t) \/ RetireAdvance(t) \/ RetirePending(t) \/ RetireAck(t) \/ RetireResult(t)
  \/ RetireAckResult(t) \/ RetireReread(t) \/ RetireClear(t) \/ RetireDelete(t)

-----------------------------------------------------------------------------
(* handleCancelCommand.  beginCancellation drops a repeated command while  *)
(* the first one is handled; an attempt that the journal does not hold is  *)
(* answered with a failure.                                                *)

CancelCommand(a) ==
  /\ At("cancel", "idle") /\ proc = "up" /\ gate
  /\ Open(a) /\ Fault("cancel")
  /\ core' = [core EXCEPT ![a].asked = TRUE]
  /\ IF Live(store[a]) THEN Become("cancel", [Idle EXCEPT !.pc = "stopping", !.a = a])
     ELSE UNCHANGED th
  /\ CoreCall

CancelStopping ==
  LET a == th["cancel"].a IN
  /\ At("cancel", "stopping")
  /\ exec' = Cancel(a, active[a])
  /\ Become("cancel", [th["cancel"] EXCEPT !.act = active[a],
                      !.pc = IF active[a] = 0 THEN "stopped" ELSE "wait"])
  /\ Locked /\ UNCHANGED <<fatal, active, gens, allowed>>

\* The executor is done, or the command's deadline has passed.
CancelWait ==
  LET c == th["cancel"] IN
  /\ At("cancel", "wait")
  /\ \/ exec[c.a][c.act].pc = "done" /\ Goto("cancel", "stopped")
     \/ Goto("cancel", "idle")
  /\ StoreCall /\ UNCHANGED <<store, fatal>>

\* The stopped acknowledgement makes the run terminal at Core.  It is repeated
\* until it is answered or the deadline passes; Core refuses it for a run that
\* ended otherwise.
CancelStopped ==
  LET a == th["cancel"].a IN
  /\ At("cancel", "stopped")
  /\ \/ /\ gate /\ (Open(a) \/ core[a].stopped)
        /\ core' = [core EXCEPT ![a].status = "terminal", ![a].stopped = TRUE]
        /\ (Goto("cancel", "unallow") /\ Answered) \/ (Lost /\ UNCHANGED th)
     \/ Goto("cancel", "idle") /\ Answered /\ UNCHANGED core
  /\ CoreCall

CancelUnallow ==
  LET a == th["cancel"].a IN
  /\ At("cancel", "unallow")
  /\ allowed' = [allowed EXCEPT ![a] = NoPermission]
  /\ Become("cancel", [th["cancel"] EXCEPT !.pc = "retire_read", !.flag = TRUE,
                      !.ret = "retire_active"])
  /\ Locked /\ UNCHANGED <<fatal, active, gens, exec>>

\* The entry found at the start is retired whether or not the cleanup failed.
CancelEnd ==
  LET c == th["cancel"] IN
  /\ c.pc \in {"retire_active", "failed"}
  /\ active' = Retired(c.a, c.act)
  /\ fatal' = (fatal \/ c.pc = "failed")
  /\ Finish("cancel")
  /\ Locked /\ UNCHANGED <<gens, exec, allowed>>

CancelHandling ==
  \/ \E a \in Attempts : CancelCommand(a)
  \/ CancelStopping \/ CancelWait \/ CancelStopped \/ CancelUnallow
  \/ RetireTerminal("cancel") \/ CancelEnd

-----------------------------------------------------------------------------
(* resumeDurableStateWithClient: at the start of a process, before the     *)
(* loops run, and on a transport that replaces another, while they run.    *)

Reconnecting == proc = "up"

\* beginTransition takes the transport away; the new one is not published
\* before it has resumed.
Reconnect ==
  /\ At("resume", "idle") /\ proc = "up" /\ gate /\ Fault("reconnect")
  /\ gate' = FALSE
  /\ Become("resume", [Idle EXCEPT !.pc = "snapshot"])
  /\ UNCHANGED <<store, core, proc, epoch, mode, fatal, active, gens, exec, allowed, launches>>

ResumeSnapshot ==
  LET recs == [a \in Attempts |-> IF Live(store[a]) THEN store[a].state ELSE "absent"] IN
  /\ At("resume", "snapshot")
  /\ Become("resume", [Idle EXCEPT !.recs = recs, !.pc =
       IF \A a \in Attempts : recs[a] = "absent" THEN "publish" ELSE "ask"])
  /\ StoreCall /\ UNCHANGED <<store, fatal>>

\* What Core may decide about an attempt the worker reports: a lease it still
\* holds goes on, is left to upload what is spooled, or is ended.
Decisions(a) ==
  IF core[a].result # NoResult THEN {"RESULT_ACKED"}
  ELSE IF core[a].status # "leased" THEN {"REVOKED"}
  ELSE {"CONTINUE", "UPLOAD_SPOOL", "UPLOAD_EVENTS", "REVOKED"}

\* The pending events and results are read record by record, and a record that
\* has gone by then is an error; the answer holds one decision per record.
ResumeAsk ==
  LET r == th["resume"] reported == {a \in Attempts : r.recs[a] # "absent"} IN
  /\ At("resume", "ask")
  /\ \/ /\ \E a \in reported : ~Live(store[a])
        /\ Goto("resume", "failed") /\ UNCHANGED core
     \/ /\ \A a \in reported : Live(store[a])
        /\ \E d \in [reported -> UNION {Decisions(a) : a \in reported}] :
             /\ \A a \in reported : d[a] \in Decisions(a)
             /\ core' = [a \in Attempts |->
                  IF a \in reported /\ d[a] = "REVOKED"
                  THEN [core[a] EXCEPT !.status = "terminal"] ELSE core[a]]
             /\ Become("resume", [th["resume"] EXCEPT !.pc = "next", !.decs =
                  [a \in Attempts |-> IF a \in reported THEN d[a] ELSE "none"]])
  /\ Answered /\ CoreCall

\* The loop over the decisions; publish when none is left.
ResumeNext ==
  LET r == th["resume"] left == {a \in Attempts : r.decs[a] # "none"} IN
  /\ At("resume", "next")
  /\ IF left = {} THEN Goto("resume", "publish")
     ELSE \E a \in left :
       Become("resume", [r EXCEPT !.a = a, !.ret = "next",
         !.recs[a] = "absent", !.decs[a] = "none", !.todo = {}, !.act = 0, !.res = NoResult,
         !.st = IF r.decs[a] = "CONTINUE" THEN r.recs[a] ELSE "absent",
         !.flag = r.decs[a] = "REVOKED",
         !.perm = [events |-> r.decs[a] \in {"UPLOAD_SPOOL", "UPLOAD_EVENTS"},
                   result |-> r.decs[a] = "UPLOAD_SPOOL"],
         !.pc = IF r.decs[a] = "CONTINUE" THEN "continue"
                ELSE IF Reconnecting THEN "stop" ELSE "settle"])
  /\ StoreCall /\ UNCHANGED <<store, fatal>>

\* CONTINUE.  A started or finished attempt goes on only in the process that
\* runs it; one that was acknowledged or confirmed is started now.
ResumeContinue ==
  LET r == th["resume"] a == r.a e == store[a] IN
  /\ At("resume", "continue")
  /\ IF Reconnecting /\ (r.st = "finished" \/ (r.st = "started" /\ active[a] # 0))
     THEN /\ allowed' = [allowed EXCEPT ![a] = FullPermission]
          /\ Goto("resume", "next") /\ UNCHANGED store
     ELSE /\ UNCHANGED allowed
          /\ IF r.st = "ack_sent" /\ Advances(e, "confirmed")
             THEN Put(a, AdvanceTo(e, "confirmed")) /\ Goto("resume", "continue_read")
             ELSE /\ UNCHANGED store
                  /\ Goto("resume", IF r.st = "confirmed" THEN "continue_payload" ELSE "failed")
  /\ UNCHANGED <<core, proc, epoch, mode, fatal, gate, active, gens, exec, launches, faults>>

ResumeContinueRead ==
  LET e == store[th["resume"].a] IN
  /\ At("resume", "continue_read")
  /\ Become("resume", [th["resume"] EXCEPT !.st = e.state, !.pc =
       IF Live(e) /\ e.state = "confirmed" THEN "continue_payload" ELSE "failed"])
  /\ StoreCall /\ UNCHANGED <<store, fatal>>

ResumePayload ==
  LET a == th["resume"].a IN
  /\ At("resume", "continue_payload")
  /\ IF store[a].payload
     THEN allowed' = [allowed EXCEPT ![a] = FullPermission] /\ Goto("resume", "start")
     ELSE Goto("resume", "failed") /\ UNCHANGED allowed
  /\ Locked /\ UNCHANGED <<fatal, active, gens, exec>>

\* stopActiveAttemptForResume: cancel the handler and wait for its executor.
ResumeStop ==
  LET a == th["resume"].a IN
  /\ At("resume", "stop")
  /\ exec' = Cancel(a, active[a])
  /\ Become("resume", [th["resume"] EXCEPT !.act = active[a],
                      !.pc = IF active[a] = 0 THEN "settle" ELSE "stop_wait"])
  /\ Locked /\ UNCHANGED <<fatal, active, gens, allowed>>

ResumeStopWait ==
  LET r == th["resume"] IN
  /\ At("resume", "stop_wait") /\ exec[r.a][r.act].pc = "done"
  /\ active' = Retired(r.a, r.act)
  /\ Become("resume", [r EXCEPT !.pc = "settle", !.act = 0])
  /\ Locked /\ UNCHANGED <<fatal, gens, exec, allowed>>

\* UPLOAD_SPOOL sets the permission; the other two decisions retire the attempt.
ResumeSettle ==
  LET r == th["resume"] IN
  /\ At("resume", "settle")
  /\ IF r.perm # NoPermission
     THEN allowed' = [allowed EXCEPT ![r.a] = r.perm] /\ Goto("resume", "next")
     ELSE Goto("resume", "retire_read") /\ UNCHANGED allowed
  /\ Locked /\ UNCHANGED <<fatal, active, gens, exec>>

\* The transport is published; at the start of a process the loops begin.
ResumePublish ==
  /\ At("resume", "publish")
  /\ gate' = TRUE /\ proc' = "up" /\ Finish("resume")
  /\ UNCHANGED <<store, core, epoch, mode, fatal, active, gens, exec, allowed, launches, faults>>

\* An error at the start ends the process.  On a reconnect the WebSocket
\* transport dials and resumes again; the pull transport gives up fatally.
ResumeFails ==
  /\ At("resume", "failed")
  /\ \/ Reconnecting /\ Goto("resume", "snapshot") /\ UNCHANGED fatal
     \/ Dies("resume")
  /\ StoreCall /\ UNCHANGED store

Resume ==
  \/ Reconnect \/ ResumeSnapshot \/ ResumeAsk \/ ResumeNext \/ ResumeContinue
  \/ ResumeContinueRead \/ ResumePayload \/ ResumeStop \/ ResumeStopWait \/ ResumeSettle
  \/ RetireTerminal("resume") \/ ResumePublish \/ ResumeFails

-----------------------------------------------------------------------------
(* The process.                                                            *)

NoExec == [pc |-> "none", canceled |-> FALSE]

Forgotten ==
  /\ mode' = "open" /\ fatal' = FALSE
  /\ active' = [a \in Attempts |-> 0]
  /\ gens' = [a \in Attempts |-> 0]
  /\ exec' = [a \in Attempts |-> [g \in Gens |-> NoExec]]
  /\ allowed' = [a \in Attempts |-> NoPermission]

\* A fatal error, or Stop.
StopRequested ==
  /\ proc = "up" /\ mode # "stopping"
  /\ (fatal /\ UNCHANGED faults) \/ Fault("drain")
  /\ mode' = "stopping"
  /\ UNCHANGED <<store, core, proc, epoch, fatal, gate, active, gens, exec, allowed, th, launches>>

\* shutdown lets the executors finish until its timeout, then cancels them.
ShutdownCancels ==
  /\ mode = "stopping"
  /\ exec' = [a \in Attempts |-> [g \in Gens |->
       IF active[a] = g THEN [exec[a][g] EXCEPT !.canceled = TRUE] ELSE exec[a][g]]]
  /\ Locked /\ UNCHANGED <<fatal, active, gens, allowed, th>>

\* A crash at any step, or the end of shutdown, whose waits are bounded.
ProcessEnds ==
  /\ Running
  /\ proc' = "down" /\ gate' = FALSE /\ Forgotten
  /\ th' = [t \in Threads |-> Idle]
  /\ UNCHANGED <<store, core, epoch, launches, faults>>

\* The store opens under a new session epoch and the first transport is up.
ProcessStarts ==
  /\ proc = "down" /\ epoch < MaxEpoch
  /\ proc' = "starting" /\ epoch' = epoch + 1 /\ gate' = TRUE
  /\ Become("resume", [th["resume"] EXCEPT !.pc = "snapshot"])
  /\ UNCHANGED <<store, core, mode, fatal, active, gens, exec, allowed, launches, faults>>

-----------------------------------------------------------------------------
Init ==
  /\ store = [a \in Attempts |-> NoRecord]
  /\ core = [a \in Attempts |-> NoLease]
  /\ proc = "down" /\ epoch = 0 /\ gate = FALSE
  /\ mode = "open" /\ fatal = FALSE
  /\ active = [a \in Attempts |-> 0]
  /\ gens = [a \in Attempts |-> 0]
  /\ exec = [a \in Attempts |-> [g \in Gens |-> NoExec]]
  /\ allowed = [a \in Attempts |-> NoPermission]
  /\ th = [t \in Threads |-> Idle]
  /\ launches = [a \in Attempts |-> [p \in Epochs |-> 0]]
  /\ faults = 0

Claim ==
  \/ Poll \/ (\E a \in Attempts : Offer(a))
  \/ ClaimCreate \/ ClaimRead \/ ClaimPayload \/ ClaimAckSent \/ ClaimReread
  \/ ClaimAck \/ ClaimStale \/ ClaimConfirm \/ ClaimAllow
  \/ RejectSent \/ RejectCall \/ RejectDone \/ RejectDelete \/ ClaimFails

Start(t) == StartRegister(t) \/ StartRefused(t) \/ StartAdvance(t)

Lease ==
  \/ \E a \in Attempts : RenewEnds(a) \/ RenewOrphan(a) \/ LeaseRevoked(a)
  \/ \E t \in {"renew", "command", "spool"} : RevokeLocal(t)

Process == StopRequested \/ ShutdownCancels \/ ProcessEnds \/ ProcessStarts

Next ==
  \/ Claim
  \/ \E t \in {"claim", "resume"} : Start(t)
  \/ Execute
  \/ Flush
  \/ Lease
  \/ CancelHandling
  \/ Resume
  \/ DrainRequested
  \/ Process
  \/ \E a \in Attempts : CoreExpires(a)

Spec == Init /\ [][Next]_vars

SpoolLoop == Flush \/ RevokeLocal("spool")
Supervisor == Resume \/ Start("resume")

\* The spool loop has a ticker and the supervisor drives a reconnect to its end:
\* neither goroutine of a process that stays up stops running.
FairSpec == Spec /\ WF_vars(SpoolLoop) /\ WF_vars(Supervisor)

-----------------------------------------------------------------------------
(* Properties.                                                             *)

Record ==
  [state : AssignmentStates, last : 0..MaxEvents, acked : SUBSET Seqs,
   result : Results \cup {NoResult}, deleted : BOOLEAN, payload : BOOLEAN,
   events : SUBSET Seqs, spooled : BOOLEAN]

CoreRecord ==
  [status : {"none", "offered", "leased", "terminal"}, session : 0..MaxEpoch,
   events : SUBSET Seqs, result : Results \cup {NoResult}, asked : BOOLEAN, stopped : BOOLEAN]

Executor ==
  [canceled : BOOLEAN,
   pc : {"none", "starting", "aborted", "run", "emit", "returned", "persist", "done"}]

Permission == [events : BOOLEAN, result : BOOLEAN]

Pcs ==
  {"idle", "dead", "failed", "polling", "create", "read", "payload", "acksent", "ack", "reread",
   "reack", "confirm", "allow", "allowread", "reallow", "start", "started", "stale",
   "rejecting", "reject", "rejected", "drop", "pending", "send", "remaining", "result",
   "finalize", "repair", "retire", "ack_result", "delete", "forget", "revoke", "revoke_read",
   "revoke_advance", "revoke_retire", "stopping", "wait", "stopped", "unallow",
   "retire_active", "retire_read", "retire_advance", "retire_pending", "retire_ack",
   "retire_result", "retire_ack_result", "retire_reread", "retire_clear", "retire_delete",
   "snapshot", "ask", "next", "continue", "continue_read", "continue_payload", "stop",
   "stop_wait", "settle", "publish"}

Thread ==
  [pc : Pcs, a : Attempts \cup {NoAttempt}, st : AssignmentStates, act : 0..MaxGens,
   todo : SUBSET Seqs, res : Results \cup {NoResult}, perm : Permission, flag : BOOLEAN,
   ret : {"idle", "next", "retire_active"}, recs : [Attempts -> AssignmentStates],
   decs : [Attempts -> {"none", "CONTINUE", "UPLOAD_SPOOL", "UPLOAD_EVENTS", "REVOKED",
                        "RESULT_ACKED"}]]

\* Every variable has its type.
TypeOK ==
  /\ store \in [Attempts -> Record] /\ core \in [Attempts -> CoreRecord]
  /\ proc \in {"down", "starting", "up"} /\ epoch \in 0..MaxEpoch
  /\ mode \in {"open", "draining", "stopping"} /\ fatal \in BOOLEAN /\ gate \in BOOLEAN
  /\ active \in [Attempts -> 0..MaxGens] /\ gens \in [Attempts -> 0..MaxGens]
  /\ exec \in [Attempts -> [Gens -> Executor]]
  /\ allowed \in [Attempts -> Permission] /\ th \in [Threads -> Thread]
  /\ launches \in [Attempts -> [Epochs -> Nat]] /\ faults \in 0..MaxFaults

\* A handler that one process launched is never launched again by a later one,
\* whatever was lost, resumed or replayed between the two.
NoRerunAfterRestart ==
  \A a \in Attempts : Cardinality({p \in Epochs : launches[a][p] > 0}) <= 1

\* Two handlers of one attempt are never running at the same time.
OneLiveHandler ==
  \A a \in Attempts : Cardinality({g \in Gens : exec[a][g].pc \in {"run", "emit"}}) <= 1

\* A result leaves the journal only when Core has it, with every event before it.
ResultReachedCore ==
  \A a \in Attempts : store[a].state = "result_acked" =>
    core[a].result = store[a].result /\ 1..store[a].last \subseteq core[a].events

\* A record is deleted only when Core is through with its attempt.
DeletedMeansTerminal == \A a \in Attempts : store[a].deleted => Terminal(a)

\* A result in the spool that may be uploaded does not stay there while the
\* process is healthy: lost answers, missing events and a change of transport
\* only delay it.
Delivering(a) ==
  /\ proc = "up" /\ ~fatal /\ allowed[a] = FullPermission
  /\ Live(store[a]) /\ store[a].state = "finished"
ResultDelivered == \A a \in Attempts : Delivering(a) ~> ~Delivering(a)

Ledger == INSTANCE AssignmentLedger WITH
  ledger <- [a \in Attempts |->
    [state |-> store[a].state, last |-> store[a].last, acked |-> store[a].acked,
     result |-> store[a].result, deleted |-> store[a].deleted, payload |-> store[a].payload]]

\* Every step of the worker keeps the obligations AssignmentLedger puts on the
\* callers of the store: a result is acknowledged and a record is deleted only
\* after every event of the attempt.
UsesLedger == Ledger!Spec

-----------------------------------------------------------------------------
(* What the documentation says and the code does not do.                   *)

\* "never run a handler twice after it has crossed the durable started boundary"
HandlerRunsOnce ==
  \A a \in Attempts : \A p \in Epochs : launches[a][p] <= 1
=============================================================================
