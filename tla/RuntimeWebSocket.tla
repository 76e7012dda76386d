-------------------------- MODULE RuntimeWebSocket --------------------------
(***************************************************************************)
(* One attached WebSocket session: the goroutine of readLoop, the one of   *)
(* writeLoop, the dialer that says hello, the callers of the client's      *)
(* methods and a caller of Close.                                          *)
(*                                                                         *)
(* A call registers in pending, hands its frame to the writer and waits    *)
(* for its replies; the reader claims a reply under pendingMu and          *)
(* publishes it to the call after the unlock.  finish runs once, in        *)
(* whichever goroutine comes first, and in steps.  OpenLinker is the       *)
(* environment.                                                            *)
(***************************************************************************)
EXTENDS Naturals, Sequences, FiniteSets

CONSTANTS
  Callers, Dialer,  \* the goroutines that call methods, and the one that dials
  Attempts,         \* attempts, and the cancellations of attempts
  ResumeCount,      \* the attempts that ResumeRuntimeRuns carries
  WriteQueue,       \* runtimeWSWriteQueueSize
  PushQueue,        \* runtimeWSPushQueueSize
  LateReplyLimit,   \* runtimeWSLateReplyLimit
  Sessions,         \* the sessions explored: the methods that Callers use, what
                    \* OpenLinker sends on its own, the message IDs drawn, the faults
  MaxIds, MaxInbound

ASSUME WebSocketAssumption ==
  /\ Dialer \notin Callers
  /\ WriteQueue \in Nat \ {0} /\ PushQueue \in Nat \ {0} /\ ResumeCount \in Nat \ {0}

VARIABLES
  session,          \* the session at hand, one of Sessions
  ready,            \* the dial has returned the session
  ctl,              \* where reader, writer, dialer and closer are
  frame,            \* the frame in the reader's hands
  queue,            \* writes
  results,          \* the result channels of the messages written: none, ok or failed
  controls,         \* the same of the control frames of each goroutine
  pending,          \* of every request: replies to come, replies buffered
  abandoned,        \* abandoned: the requests whose late replies are ignored
  calls,            \* the call each caller is in
  offers, cancellations,
  assignments, commands,
  held,             \* the attempts that the application has claimed
  settled,          \* history: of every attempt, the newest offer answered
  stage, finisher,  \* how far finish has come, and who runs it
  peer,             \* OpenLinker's end is up
  inbound,          \* frames on their way to the reader
  owed,             \* the replies that OpenLinker still has to send
  used,             \* message IDs drawn
  faults

vars == <<session, ready, ctl, frame, queue, results, controls, pending, abandoned, calls, offers, cancellations,
          assignments, commands, held, settled, stage, finisher, peer, inbound, owed, used, faults>>

writeVars == <<queue, results, controls>>
callVars == <<pending, abandoned, calls>>
pushVars == <<offers, cancellations, assignments, commands, held, settled>>
coreVars == <<peer, inbound, owed, used, faults>>
onceVars == <<stage, finisher>>

NoId == 0
Ids == 1..MaxIds
MayFail == faults < session.faults
Users == Callers \cup {Dialer}
Goroutines == {"reader", "writer", "dialer", "closer"}
NoFrame == [type |-> "none", re |-> NoId, id |-> NoId, att |-> "none"]
NoRequest == [left |-> 0, size |-> 0, replies |-> <<>>]
NoCall == [pc |-> "idle", op |-> "none", id |-> NoId, att |-> "none", re |-> NoId, got |-> 0]

\* The replies that a method asks for; AckRuntimeCancel only writes.
replyCount(op) == IF op = "resume" THEN ResumeCount ELSE IF op = "cancelAck" THEN 0 ELSE 1

CtxDone == stage # "open"
ConnClosed == stage \in {"disconnected", "drained", "done"}
Done == stage = "done"

Init ==
  /\ session \in Sessions /\ ready = FALSE
  /\ ctl = [g \in Goroutines |-> CASE g = "reader" -> "read" [] g = "writer" -> "run"
                                   [] g = "dialer" -> "dial" [] OTHER -> "idle"]
  /\ frame = NoFrame /\ queue = <<>> /\ results = [i \in Ids |-> "none"]
  /\ controls = [g \in Goroutines |-> "none"]
  /\ pending = [i \in Ids |-> NoRequest] /\ abandoned = {}
  /\ calls = [c \in Users |-> NoCall]
  /\ offers = [a \in Attempts |-> NoId] /\ cancellations = [a \in Attempts |-> NoId]
  /\ assignments = <<>> /\ commands = <<>> /\ held = {}
  /\ settled = [a \in Attempts |-> NoId]
  /\ stage = "open" /\ finisher = "none"
  /\ peer = TRUE /\ inbound = <<>> /\ owed = [i \in Ids |-> 0] /\ used = 0 /\ faults = 0
-----------------------------------------------------------------------------
(* finish: sync.Once runs the body in one goroutine; the others wait for   *)
(* it.  It cancels ctx, closes the connection, fails what is pending under *)
(* pendingMu and closes done.                                              *)

DrainPending ==
  [i \in Ids |-> IF pending[i].left = 0 THEN pending[i]
                 ELSE [pending[i] EXCEPT !.left = 0,
                         !.replies = IF Len(@) < pending[i].size THEN Append(@, "closed") ELSE @]]

finishBegins(g) ==
  /\ ctl[g] = "finish"
  /\ IF stage = "open"
     THEN stage' = "canceled" /\ finisher' = g /\ ctl' = [ctl EXCEPT ![g] = "finishing"]
     ELSE Done /\ UNCHANGED onceVars /\ ctl' = [ctl EXCEPT ![g] = "end"]
  /\ UNCHANGED <<ready, frame, writeVars, callVars, pushVars, coreVars>>

finishDisconnects(g) ==
  /\ ctl[g] = "finishing" /\ stage = "canceled"
  /\ stage' = "disconnected"
  /\ UNCHANGED <<ready, ctl, frame, writeVars, callVars, pushVars, coreVars, finisher>>

finishDrains(g) ==
  /\ ctl[g] = "finishing" /\ stage = "disconnected"
  /\ stage' = "drained" /\ pending' = DrainPending
  /\ UNCHANGED <<ready, ctl, frame, writeVars, abandoned, calls, pushVars, coreVars, finisher>>

finishCloses(g) ==
  /\ ctl[g] = "finishing" /\ stage = "drained"
  /\ stage' = "done" /\ ctl' = [ctl EXCEPT ![g] = "end"]
  /\ UNCHANGED <<ready, frame, writeVars, callVars, pushVars, coreVars, finisher>>

finish(g) == finishBegins(g) \/ finishDisconnects(g) \/ finishDrains(g) \/ finishCloses(g)

(* writeMessage and writeControl: hand the frame to the writer and wait    *)
(* for its result or for done.                                             *)

Enqueue(kind, by, id) ==
  /\ Len(queue) < WriteQueue
  /\ queue' = Append(queue, [kind |-> kind, by |-> by, id |-> id])

\* What the goroutine does after its control frame: a pong resumes reading,
\* unless the write failed; a close goes on to finish.
AfterControl(g, ok) == IF ctl[g] = "pongWait" /\ ok THEN "read" ELSE "finish"

writeControl(g) ==
  /\ ctl[g] \in {"pong", "close"}
  /\ \/ /\ Enqueue(ctl[g], g, NoId)
        /\ ctl' = [ctl EXCEPT ![g] = IF @ = "pong" THEN "pongWait" ELSE "closeWait"]
     \/ /\ Done /\ UNCHANGED queue
        /\ ctl' = [ctl EXCEPT ![g] = "finish"]
  /\ UNCHANGED <<ready, frame, results, controls, callVars, pushVars, coreVars, onceVars>>

writeControlResult(g) ==
  /\ ctl[g] \in {"pongWait", "closeWait"}
  /\ controls[g] # "none" \/ Done
  /\ ctl' = [ctl EXCEPT ![g] = AfterControl(g, controls[g] = "ok")]
  /\ controls' = [controls EXCEPT ![g] = "none"]
  /\ UNCHANGED <<ready, frame, queue, results, callVars, pushVars, coreVars, onceVars>>
-----------------------------------------------------------------------------
(* writeLoop: the one writer.  It stops when ctx is done, after a close    *)
(* frame, or with finish when a write fails.  A result that nobody waits   *)
(* for stays in its channel and is left out.                               *)

\* A write fails when the connection is closed, may fail when the peer has
\* gone, and fails by its deadline.
WriteOutcomes ==
  (IF ConnClosed THEN {} ELSE {"ok"})
    \cup (IF ConnClosed \/ ~peer \/ MayFail THEN {"failed"} ELSE {})
CountFault(failed) == faults' = IF failed /\ ~ConnClosed /\ peer THEN faults + 1 ELSE faults

Waiting(w) == \E c \in Users : calls[c].pc = "written" /\ calls[c].id = w.id

\* OpenLinker reads the request and owes the replies to it.
Receive(w) == owed' = IF peer THEN [owed EXCEPT ![w.id] = pending[w.id].size] ELSE owed

writeMessage(w, out) ==
  /\ w.kind = "message"
  /\ results' = IF Waiting(w) THEN [results EXCEPT ![w.id] = out] ELSE results
  /\ IF out = "ok" THEN Receive(w) ELSE UNCHANGED owed
  /\ UNCHANGED controls

writeControlFrame(w, out) ==
  /\ w.kind # "message"
  /\ controls' = IF ctl[w.by] \in {"pongWait", "closeWait"} THEN [controls EXCEPT ![w.by] = out]
                 ELSE controls
  /\ UNCHANGED <<results, owed>>

writeLoopWrites ==
  /\ ctl["writer"] = "run" /\ queue # <<>> /\ queue' = Tail(queue)
  /\ \E out \in WriteOutcomes :
       /\ writeMessage(Head(queue), out) \/ writeControlFrame(Head(queue), out)
       /\ CountFault(out = "failed")
       /\ ctl' = [ctl EXCEPT !["writer"] = CASE out = "failed" -> "finish"
                                             [] out = "ok" /\ Head(queue).kind = "close" -> "end"
                                             [] OTHER -> @]
  /\ UNCHANGED <<ready, frame, callVars, pushVars, onceVars, peer, inbound, used>>

writeLoopPings ==
  /\ ctl["writer"] = "run" /\ "failed" \in WriteOutcomes
  /\ ctl' = [ctl EXCEPT !["writer"] = "finish"] /\ CountFault(TRUE)
  /\ UNCHANGED <<ready, frame, writeVars, callVars, pushVars, onceVars, peer, inbound, owed, used>>

writeLoopStops ==
  /\ ctl["writer"] = "run" /\ CtxDone
  /\ ctl' = [ctl EXCEPT !["writer"] = "end"]
  /\ UNCHANGED <<ready, frame, writeVars, callVars, pushVars, coreVars, onceVars>>

writeLoop == writeLoopWrites \/ writeLoopPings \/ writeLoopStops
-----------------------------------------------------------------------------
(* readLoop.                                                               *)

readLoopEnds ==
  /\ ctl["reader"] = "read"
  /\ ConnClosed \/ (~peer /\ inbound = <<>>)
  /\ ctl' = [ctl EXCEPT !["reader"] = "finish"]
  /\ UNCHANGED <<ready, frame, writeVars, callVars, pushVars, coreVars, onceVars>>

\* The read deadline passes without a pong, or the network fails.
readLoopFails ==
  /\ ctl["reader"] = "read" /\ ~ConnClosed
  /\ MayFail /\ faults' = faults + 1
  /\ ctl' = [ctl EXCEPT !["reader"] = "finish"]
  /\ UNCHANGED <<ready, frame, writeVars, callVars, pushVars, onceVars, peer, inbound, owed, used>>

Replies == {"expected", "mismatch", "error", "other"}

\* pruneAbandonedLocked beyond the limit: the map gives up any of its entries.
Pruned(S) ==
  {T \in SUBSET S : Cardinality(T) = IF Cardinality(S) > LateReplyLimit THEN LateReplyLimit
                                     ELSE Cardinality(S)}

\* routeReply under pendingMu: where the reader goes, and what is left pending.
Claimed(f) ==
  /\ pending[f.re].left > 0
  /\ f.type # "other"
routeReplyOutcome(f) ==
  CASE Claimed(f) -> "publish"
    [] pending[f.re].left = 0 /\ f.re \in abandoned -> "read"
    [] OTHER -> "close"

routeReply(f) ==
  /\ f.type \in Replies
  /\ ctl' = [ctl EXCEPT !["reader"] = routeReplyOutcome(f)]
  /\ pending' = IF Claimed(f)
                THEN [pending EXCEPT ![f.re].left = IF f.type = "error" THEN 0 ELSE @ - 1]
                ELSE pending
  /\ UNCHANGED <<abandoned, offers, cancellations>>

\* routeEnvelope of a push, up to the send on the channel; a frame that does
\* not decode or validate closes the connection.
routePush(f) ==
  /\ f.type \notin Replies
  /\ ctl' = [ctl EXCEPT !["reader"] = CASE f.type = "ping" -> "pong"
                                        [] f.type = "assigned" -> "pushOffer"
                                        [] f.type \in {"cancel", "notice"} -> "pushCommand"
                                        [] OTHER -> "close"]
  /\ offers' = IF f.type = "assigned" THEN [offers EXCEPT ![f.att] = f.id] ELSE offers
  /\ cancellations' = IF f.type = "cancel" THEN [cancellations EXCEPT ![f.att] = f.id]
                      ELSE cancellations
  /\ UNCHANGED <<pending, abandoned>>

routeEnvelope ==
  /\ ctl["reader"] = "read" /\ inbound # <<>>
  /\ frame' = Head(inbound) /\ inbound' = Tail(inbound)
  /\ routeReply(Head(inbound)) \/ routePush(Head(inbound))
  /\ UNCHANGED <<ready, writeVars, calls, assignments, commands, held, settled, onceVars, peer, owed,
                 used, faults>>

publish ==
  /\ ctl["reader"] = "publish"
  /\ Len(pending[frame.re].replies) < pending[frame.re].size
  /\ pending' = [pending EXCEPT ![frame.re].replies = Append(@, frame.type)]
  /\ ctl' = [ctl EXCEPT !["reader"] = "read"] /\ frame' = NoFrame
  /\ UNCHANGED <<ready, writeVars, abandoned, calls, pushVars, coreVars, onceVars>>

Pushed == [id |-> frame.id, att |-> frame.att]

pushOffer ==
  /\ ctl["reader"] = "pushOffer" /\ Len(assignments) < PushQueue
  /\ assignments' = Append(assignments, Pushed)
  /\ ctl' = [ctl EXCEPT !["reader"] = "read"] /\ frame' = NoFrame
  /\ UNCHANGED <<ready, writeVars, callVars, offers, cancellations, commands, held, settled, coreVars,
                 onceVars>>

pushCommand ==
  /\ ctl["reader"] = "pushCommand" /\ Len(commands) < PushQueue
  /\ commands' = Append(commands, Pushed)
  /\ ctl' = [ctl EXCEPT !["reader"] = "read"] /\ frame' = NoFrame
  /\ UNCHANGED <<ready, writeVars, callVars, offers, cancellations, assignments, held, settled,
                 coreVars, onceVars>>

pushCanceled ==
  /\ ctl["reader"] \in {"pushOffer", "pushCommand"} /\ CtxDone
  /\ ctl' = [ctl EXCEPT !["reader"] = "close"] /\ frame' = NoFrame
  /\ UNCHANGED <<ready, writeVars, callVars, pushVars, coreVars, onceVars>>

readLoop == \/ readLoopEnds \/ readLoopFails \/ routeEnvelope \/ publish \/ pushOffer
            \/ pushCommand \/ pushCanceled
-----------------------------------------------------------------------------
(* request: register, write, wait for the replies.                         *)

request(c, op, a, re) ==
  /\ calls[c].pc = "idle" /\ used < session.ids
  /\ used' = used + 1
  /\ calls' = [calls EXCEPT ![c] = [pc |-> "write", op |-> op, id |-> used + 1, att |-> a, re |-> re,
                                    got |-> 0]]
  /\ pending' = [pending EXCEPT ![used + 1] =
                   [left |-> replyCount(op), size |-> replyCount(op), replies |-> <<>>]]
  /\ UNCHANGED <<ready, ctl, frame, writeVars, abandoned, pushVars, onceVars, peer, inbound, owed, faults>>

\* The call returns; the dialer goes on with the session or with finish.
Return(c, ok) ==
  /\ calls' = [calls EXCEPT ![c] = NoCall]
  /\ ready' = (ready \/ (c = Dialer /\ ok))
  /\ ctl' = IF c = Dialer THEN [ctl EXCEPT !["dialer"] = IF ok THEN "up" ELSE "finish"] ELSE ctl

abandonPending(c) ==
  /\ pending' = [pending EXCEPT ![calls[c].id].left = 0]
  /\ abandoned' \in Pruned(abandoned \cup {calls[c].id})
Registered(c) == replyCount(calls[c].op) > 0
Abandon(c) == IF Registered(c) THEN abandonPending(c) ELSE UNCHANGED <<pending, abandoned>>

requestWrites(c) ==
  /\ calls[c].pc = "write"
  /\ Enqueue("message", "call", calls[c].id)
  /\ calls' = [calls EXCEPT ![c].pc = "written"]
  /\ UNCHANGED <<ready, ctl, frame, results, controls, pending, abandoned, pushVars, coreVars, onceVars>>

\* A bug to be caught: a call waits for the result of its write only.
requestWriteFailsByResult(c) ==
  /\ \/ calls[c].pc = "write" /\ Done
     \/ calls[c].pc = "written" /\ results[calls[c].id] = "failed"
  /\ Abandon(c) /\ Return(c, FALSE)
  /\ results' = [results EXCEPT ![calls[c].id] = "none"]
  /\ UNCHANGED <<frame, queue, controls, pushVars, coreVars, onceVars>>

requestWriteFails(c) ==
  /\ \/ calls[c].pc = "write" /\ Done
     \/ calls[c].pc = "written" /\ results[calls[c].id] = "failed"
     \/ calls[c].pc = "written" /\ results[calls[c].id] = "none" /\ Done
  /\ Abandon(c) /\ Return(c, FALSE)
  /\ results' = [results EXCEPT ![calls[c].id] = "none"]
  /\ UNCHANGED <<frame, queue, controls, pushVars, coreVars, onceVars>>

requestWritten(c) ==
  /\ calls[c].pc = "written" /\ results[calls[c].id] = "ok" /\ Registered(c)
  /\ calls' = [calls EXCEPT ![c].pc = "drain"]
  /\ results' = [results EXCEPT ![calls[c].id] = "none"]
  /\ UNCHANGED <<ready, ctl, frame, queue, controls, pending, abandoned, pushVars, coreVars, onceVars>>

\* A bug to be caught: whichever offer is correlated is removed.
removeOfferAny(c) == offers' = [offers EXCEPT ![calls[c].att] = NoId]

\* removeOffer: only the offer that the answer was about.
removeOffer(c) ==
  offers' = [offers EXCEPT ![calls[c].att] = IF @ = calls[c].re THEN NoId ELSE @]

\* The last reply has been consumed: the methods check that it is about their
\* request, and the answer to an offer settles it.
Answers(c) == calls[c].op \in {"ack", "reject"}
Succeeds(c, reply) ==
  /\ Return(c, reply = "expected")
  /\ IF Answers(c) /\ reply = "expected"
     THEN /\ removeOffer(c) /\ held' = held \ {calls[c].att}
          /\ settled' = [settled EXCEPT ![calls[c].att] = IF @ < calls[c].re THEN calls[c].re ELSE @]
     ELSE UNCHANGED <<offers, held, settled>>

\* A bug to be caught: the error of finish counts as a reply.
consumeReplyAny(c) ==
  LET id == calls[c].id
      last == calls[c].got + 1 = pending[id].size
  IN /\ pending[id].replies # <<>>
     /\ pending' = [pending EXCEPT ![id].replies = Tail(@)]
     /\ IF last
        THEN Succeeds(c, "expected")
        ELSE /\ calls' = [calls EXCEPT ![c].got = @ + 1, ![c].pc = "drain"]
             /\ UNCHANGED <<ready, ctl, offers, held, settled>>
     /\ UNCHANGED <<frame, writeVars, abandoned, cancellations, assignments, commands, coreVars, onceVars>>

\* consumeReply.  A ready that does not validate closes the connection.
consumeReply(c) ==
  LET id == calls[c].id
      reply == Head(pending[id].replies)
      last == calls[c].got + 1 = pending[id].size
  IN /\ pending[id].replies # <<>>
     /\ pending' = [pending EXCEPT ![id].replies = Tail(@)]
     /\ IF reply \in {"error", "closed"}
        THEN Return(c, FALSE) /\ UNCHANGED <<offers, held, settled>>
        ELSE IF last
        THEN Succeeds(c, reply)
        ELSE /\ calls' = [calls EXCEPT ![c].got = @ + 1, ![c].pc = "drain"]
             /\ UNCHANGED <<ready, ctl, offers, held, settled>>
     /\ UNCHANGED <<frame, writeVars, abandoned, cancellations, assignments, commands, coreVars, onceVars>>

requestDrains(c) ==
  /\ calls[c].pc = "drain"
  /\ \/ consumeReply(c)
     \/ /\ pending[calls[c].id].replies = <<>>
        /\ calls' = [calls EXCEPT ![c].pc = "select"]
        /\ UNCHANGED <<ready, ctl, frame, writeVars, pending, abandoned, pushVars, coreVars, onceVars>>

requestSelects(c) == calls[c].pc = "select" /\ consumeReply(c)

requestCanceled(c) ==
  /\ calls[c].pc = "select"
  /\ abandonPending(c) /\ Return(c, FALSE)
  /\ UNCHANGED <<frame, writeVars, pushVars, coreVars, onceVars>>

requestClosed(c) ==
  /\ calls[c].pc = "select" /\ Done /\ pending[calls[c].id].replies = <<>>
  /\ Return(c, FALSE)
  /\ UNCHANGED <<frame, writeVars, pending, abandoned, pushVars, coreVars, onceVars>>

CallProceeds(c) == \/ requestWrites(c) \/ requestWriteFails(c) \/ requestWritten(c)
                   \/ requestDrains(c) \/ requestSelects(c) \/ requestClosed(c)
-----------------------------------------------------------------------------
(* The methods of the session.                                             *)

Usable(c, op) == c \in Callers /\ ready /\ op \in session.ops

\* DialRuntimeWebSocket: hello, then runtime.ready.
dialRuntimeWebSocket ==
  ctl["dialer"] = "dial" /\ calls[Dialer].pc = "idle" /\ request(Dialer, "hello", "none", NoId)

AckRuntimeAssignment(c) ==
  /\ Usable(c, "ack")
  /\ \E a \in held : offers[a] # NoId /\ request(c, "ack", a, offers[a])

RejectRuntimeAssignment(c) ==
  /\ Usable(c, "reject")
  /\ \E a \in held : offers[a] # NoId /\ request(c, "reject", a, offers[a])

\* The methods with one reply and no correlation to keep.
CallOnce(c, op) == Usable(c, op) /\ request(c, "call", "none", NoId)
RenewRuntimeLease(c) == CallOnce(c, "renew")
AppendRuntimeEvent(c) == CallOnce(c, "event")
FinalizeRuntimeResult(c) == CallOnce(c, "result")
DrainRuntimeSession(c) == CallOnce(c, "drain")
PublishRuntimeExtension(c) == CallOnce(c, "extension")

ResumeRuntimeRuns(c) == Usable(c, "resume") /\ request(c, "resume", "none", NoId)

AckRuntimeCancel(c) ==
  /\ Usable(c, "cancelAck")
  /\ \E a \in Attempts :
       cancellations[a] # NoId /\ request(c, "cancelAck", a, cancellations[a])

\* AckRuntimeCancel once its frame is written: a terminal state ends the correlation.
ackRuntimeCancelWritten(c) ==
  /\ calls[c].pc = "written" /\ results[calls[c].id] = "ok" /\ ~Registered(c)
  /\ \E terminal \in BOOLEAN :
       cancellations' = IF terminal THEN [cancellations EXCEPT ![calls[c].att] = NoId] ELSE cancellations
  /\ Return(c, TRUE)
  /\ results' = [results EXCEPT ![calls[c].id] = "none"]
  /\ UNCHANGED <<frame, queue, controls, pending, abandoned, offers, assignments, commands, held, settled,
                 coreVars, onceVars>>

ClaimRuntimeRun ==
  /\ ready /\ assignments # <<>>
  /\ assignments' = Tail(assignments) /\ held' = held \cup {Head(assignments).att}
  /\ UNCHANGED <<ready, ctl, frame, writeVars, callVars, offers, cancellations, commands, settled,
                 coreVars, onceVars>>

PollRuntimeCommands ==
  /\ ready /\ commands # <<>> /\ commands' = Tail(commands)
  /\ UNCHANGED <<ready, ctl, frame, writeVars, callVars, offers, cancellations, assignments, held,
                 settled, coreVars, onceVars>>

\* CloseRuntimeSession and Close, of a session that the dial has returned.
Close ==
  /\ ready /\ ctl["closer"] = "idle"
  /\ ctl' = [ctl EXCEPT !["closer"] = "close"]
  /\ UNCHANGED <<ready, frame, writeVars, callVars, pushVars, coreVars, onceVars>>
-----------------------------------------------------------------------------
(* OpenLinker.                                                             *)

Deliver(f) ==
  /\ peer /\ Len(inbound) < MaxInbound /\ inbound' = Append(inbound, f)
  /\ UNCHANGED <<ready, ctl, frame, writeVars, callVars, pushVars, onceVars, peer>>

\* A reply that was asked for: an error is the last one.
CoreReplies ==
  \E i \in Ids, t \in {"expected", "error"} :
    /\ owed[i] > 0 /\ Deliver([NoFrame EXCEPT !.type = t, !.re = i])
    /\ owed' = [owed EXCEPT ![i] = IF t = "error" THEN 0 ELSE @ - 1]
    /\ UNCHANGED <<used, faults>>

CorePushes ==
  \E t \in session.pushes \ {"ping"}, a \in Attempts :
    /\ ready /\ used < session.ids /\ used' = used + 1
    /\ Deliver([NoFrame EXCEPT !.type = t, !.id = used + 1,
                        !.att = IF t = "notice" THEN @ ELSE a])
    /\ UNCHANGED <<owed, faults>>

CorePings ==
  /\ "ping" \in session.pushes /\ Deliver([NoFrame EXCEPT !.type = "ping"])
  /\ UNCHANGED <<owed, used, faults>>

\* A frame outside the protocol: undecodable, a reply of another type or about
\* something else, or one that nobody asked for.
CoreErrs ==
  \E t \in {"invalid", "expected", "mismatch", "other"}, i \in 1..used :
    /\ MayFail /\ faults' = faults + 1
    /\ t \in {"mismatch", "other"} => owed[i] > 0 /\ i # calls[Dialer].id
    /\ t = "expected" => owed[i] = 0 /\ pending[i].left = 0
    /\ owed' = [owed EXCEPT ![i] = IF t \in {"mismatch", "other"} THEN @ - 1 ELSE @]
    /\ Deliver([NoFrame EXCEPT !.type = t, !.re = i])
    /\ UNCHANGED used

CoreCloses ==
  /\ peer /\ peer' = FALSE
  /\ UNCHANGED <<ready, ctl, frame, writeVars, callVars, pushVars, onceVars, inbound, owed, used, faults>>

\* runtimeWSLateReplyTTL has passed since the request was abandoned.
Expire ==
  /\ MayFail /\ faults' = faults + 1
  /\ \E i \in abandoned : abandoned' = abandoned \ {i}
  /\ UNCHANGED <<ready, ctl, frame, writeVars, pending, calls, pushVars, onceVars, peer, inbound, owed, used>>
-----------------------------------------------------------------------------
Goroutine(g) == finish(g) \/ writeControl(g) \/ writeControlResult(g)

Methods(c) == \/ AckRuntimeAssignment(c) \/ RejectRuntimeAssignment(c) \/ RenewRuntimeLease(c)
              \/ AppendRuntimeEvent(c) \/ FinalizeRuntimeResult(c) \/ DrainRuntimeSession(c)
              \/ PublishRuntimeExtension(c) \/ ResumeRuntimeRuns(c) \/ AckRuntimeCancel(c)

Step ==
  \/ \E g \in Goroutines : Goroutine(g)
  \/ writeLoop \/ readLoop \/ dialRuntimeWebSocket
  \/ \E c \in Users : CallProceeds(c) \/ requestCanceled(c) \/ ackRuntimeCancelWritten(c)
  \/ \E c \in Callers : Methods(c)
  \/ ClaimRuntimeRun \/ PollRuntimeCommands \/ Close
  \/ CoreReplies \/ CorePushes \/ CorePings \/ CoreErrs \/ CoreCloses \/ Expire

Within(A) == A /\ UNCHANGED session
Next == Within(Step)

Spec == Init /\ [][Next]_vars

\* The goroutines run and a write ends by its deadline.  Nothing is assumed of
\* OpenLinker, of the application or of the contexts of the calls.
Fairness ==
  /\ \A g \in Goroutines : WF_vars(Within(Goroutine(g)))
  /\ WF_vars(Within(dialRuntimeWebSocket))
  /\ WF_vars(Within(writeLoopWrites \/ writeLoopStops))
  /\ WF_vars(Within(readLoopEnds \/ routeEnvelope \/ publish \/ pushCanceled))
  /\ \A c \in Users : WF_vars(Within(CallProceeds(c) \/ ackRuntimeCancelWritten(c)))
FairSpec == Spec /\ Fairness
-----------------------------------------------------------------------------
TypeOK ==
  /\ ready \in BOOLEAN /\ peer \in BOOLEAN
  /\ DOMAIN ctl = Goroutines /\ DOMAIN calls = Users
  /\ Len(queue) <= WriteQueue /\ Len(assignments) <= PushQueue /\ Len(commands) <= PushQueue
  /\ \A i \in Ids : pending[i].left \in 0..pending[i].size
  /\ abandoned \subseteq Ids /\ Cardinality(abandoned) <= LateReplyLimit
  /\ \A a \in Attempts : offers[a] \in 0..used /\ cancellations[a] \in 0..used
  /\ stage \in {"open", "canceled", "disconnected", "drained", "done"}

\* The comment of routeReply: "The channel is sized to the request's exact reply
\* count, and remaining prevents more than that many replies from reaching it."
\* Also with the error that finish puts into the channel, the reader finds room
\* for the reply that it has claimed, and so never blocks outside its selects.
PublishNeverBlocks ==
  ctl["reader"] = "publish" => Len(pending[frame.re].replies) < pending[frame.re].size

\* What is in pending belongs to a call that is under way, also for a call that
\* registers while finish runs: nothing is left behind by calls that have returned.
PendingHasCaller ==
  \A i \in Ids : pending[i].left > 0 => \E c \in Users : calls[c].id = i

\* An offer that waits in assignments can be answered: its correlation, or that of
\* a newer offer of the same attempt, is there until an answer settled it.  An answer
\* to an old offer does not take the correlation of the offer that replaced it.
OfferCanBeAnswered ==
  \A k \in DOMAIN assignments :
    LET o == assignments[k] IN offers[o.att] >= o.id \/ settled[o.att] >= o.id

\* A session or a result is handed out only when OpenLinker has sent every reply
\* to that request: an error that finish left in the channel is not taken for one.
SuccessIsAnswered ==
  [][\A c \in Users :
       (calls[c].pc \in {"drain", "select"} /\ calls'[c].pc = "idle"
          /\ (settled' # settled \/ ready' # ready)) => owed[calls[c].id] = 0]_vars

\* Once finish has begun, in whichever goroutine, both loops end, every call
\* returns and Close returns: nobody waits for a writer that has gone.
Stopped ==
  /\ ctl["reader"] = "end" /\ ctl["writer"] = "end"
  /\ ctl["dialer"] \in {"up", "end"} /\ ctl["closer"] \in {"idle", "end"}
  /\ \A c \in Users : calls[c].pc = "idle"
CloseCompletes == CtxDone ~> Stopped
=============================================================================
