------------------------- MODULE RuntimeAttachment -------------------------
(***************************************************************************)
(* The Pull client of the Runtime (runtime_http.go, runtime_client.go) and *)
(* the WebSocket dial that shares its attachment: one durable attachment   *)
(* generation per Session, cached in attachmentID under the RWMutex        *)
(* attachmentMu.  create, close and dial take the lock for writing,        *)
(* heartbeat and every other Pull call for reading, each through its whole *)
(* request.  The lock is modelled as Go's: a writer that waits keeps new   *)
(* readers out, and its unlock lets the blocked readers in.                *)
(*                                                                         *)
(* Callers are goroutines of the worker; a caller whose context ends       *)
(* returns an error while its request may still reach Core.  OpenLinker    *)
(* (external) gives every create and every WebSocket hello a new           *)
(* generation and refuses a Pull call that carries another one.            *)
(***************************************************************************)
EXTENDS Naturals, FiniteSets

CONSTANTS Callers,        \* goroutines that use the client
          Operations,     \* the operations an instance explores
          MaxRequests,    \* bound on the requests sent
          MaxAbandoned,   \* bound on callers whose context ends
          MaxBadReplies   \* bound on replies that do not fit their request

None == "none"
Writers == {"create", "close", "dial"}
PullCalls == {"drain", "claim", "ack", "reject", "renew", "event", "result", "resume",
              "poll", "cancelAck"}

ASSUME AttachmentAssumption ==
    /\ MaxRequests \in Nat /\ None \notin Callers
    /\ Operations \subseteq Writers \cup {"heartbeat"} \cup PullCalls

VARIABLES attachmentID,   \* the cached generation, 0 for none
          readers, writer, announced, blocked,   \* attachmentMu
          pc, op, req,    \* per caller: step, operation, its request's number
          net,            \* requests on their way to Core
          replies,        \* per request number: Core's reply, or NoReply
          core,           \* Core: current generation, its kind, last generation
          taken,          \* requests Core accepted (history)
          confirmed,      \* the requests whose calls succeeded (history)
          retired,        \* generations cached when a dial was sent (history)
          lostTrack,      \* a create, close or dial was abandoned (history)
          sent, abandoned, badReplies

vars == <<attachmentID, readers, writer, announced, blocked, pc, op, req, net, replies,
          core, taken, confirmed, retired, lostTrack, sent, abandoned, badReplies>>
lock == <<readers, writer, announced, blocked>>
history == <<taken, confirmed, retired, lostTrack>>
budgets == <<sent, abandoned, badReplies>>

NoReply == [kind |-> "none", gen |-> 0, subject |-> 0, valid |-> FALSE]

Init == /\ attachmentID = 0
        /\ readers = {} /\ writer = None /\ announced = None /\ blocked = {}
        /\ pc = [p \in Callers |-> "idle"] /\ op = [p \in Callers |-> None]
        /\ req = [p \in Callers |-> 0]
        /\ net = {} /\ replies = [r \in 1..MaxRequests |-> NoReply]
        /\ core = [gen |-> 0, kind |-> "none", last |-> 0]
        /\ taken = {} /\ confirmed = {} /\ retired = {} /\ lostTrack = FALSE
        /\ sent = 0 /\ abandoned = 0 /\ badReplies = 0

-----------------------------------------------------------------------------
(* attachmentMu *)

(* A writer inside, or waiting, keeps a new reader out. *)
readerMayEnter == writer = None /\ announced = None

(* The lock an operation takes. *)
locksShared(o) == o \notin Writers
exclusive(o) == ~locksShared(o)

(* An operation begins: its argument check passed, it asks for the lock. *)
begin(p) ==
    /\ pc[p] = "idle"
    /\ \E o \in Operations :
          /\ op' = [op EXCEPT ![p] = o]
          /\ pc' = [pc EXCEPT ![p] = IF exclusive(o) THEN "wantLock" ELSE "wantRLock"]
    /\ UNCHANGED <<attachmentID, lock, req, net, replies, core, history, budgets>>

RLock(p) ==
    /\ pc[p] = "wantRLock" /\ p \notin blocked
    /\ \/ /\ readerMayEnter
          /\ readers' = readers \cup {p} /\ pc' = [pc EXCEPT ![p] = "locked"]
          /\ UNCHANGED blocked
       \/ /\ ~readerMayEnter
          /\ blocked' = blocked \cup {p} /\ UNCHANGED <<readers, pc>>
    /\ UNCHANGED <<attachmentID, writer, announced, op, req, net, replies, core, history, budgets>>

(* Lock: one writer at a time announces itself and waits for the readers. *)
announce(p) ==
    /\ pc[p] = "wantLock" /\ announced = None /\ writer = None
    /\ announced' = p
    /\ UNCHANGED <<attachmentID, readers, writer, blocked, pc, op, req, net, replies, core,
                   history, budgets>>

Lock(p) ==
    /\ announced = p /\ readers = {}
    /\ announced' = None /\ writer' = p
    /\ pc' = [pc EXCEPT ![p] = "locked"]
    /\ UNCHANGED <<attachmentID, readers, blocked, op, req, net, replies, core, history, budgets>>

(* The deferred Unlock or RUnlock, and the return to the caller. *)
unlocked(p) ==
    /\ op' = [op EXCEPT ![p] = None]
    /\ req' = [req EXCEPT ![p] = 0]
    /\ \/ /\ p \in readers
          /\ readers' = readers \ {p}
          /\ pc' = [pc EXCEPT ![p] = "idle"]
          /\ UNCHANGED <<writer, blocked>>
       \/ /\ p \notin readers
          /\ writer' = IF writer = p THEN None ELSE writer
          /\ readers' = IF writer = p THEN readers \cup blocked ELSE readers
          /\ blocked' = IF writer = p THEN {} ELSE blocked
          /\ pc' = [q \in Callers |-> CASE q = p -> "idle"
                                        [] q # p /\ writer = p /\ q \in blocked -> "locked"
                                        [] OTHER -> pc[q]]
    /\ UNCHANGED announced

-----------------------------------------------------------------------------
(* The request *)

dialInvalidatesLate(o) == FALSE

(* dialRuntimeWebSocketWithExtensions clears the cached generation before
   any byte of the upgrade leaves. *)
dialInvalidates(o) == o = "dial"

(* A Pull call keeps its read lock until the reply. *)
holdThrough(p) == UNCHANGED lock

(* doRuntimeWithAttachment: without a generation only create and the dial
   get to Core. *)
send(p) ==
    /\ pc[p] = "locked" /\ sent < MaxRequests
    /\ op[p] \in {"create", "dial"} \/ attachmentID # 0
    /\ sent' = sent + 1
    /\ req' = [req EXCEPT ![p] = sent + 1]
    /\ net' = net \cup {[id |-> sent + 1, op |-> op[p], gen |-> attachmentID]}
    /\ pc' = [pc EXCEPT ![p] = "waiting"]
    /\ attachmentID' = IF dialInvalidates(op[p]) THEN 0 ELSE attachmentID
    /\ retired' = IF op[p] = "dial" THEN (retired \cup {attachmentID}) \ {0} ELSE retired
    /\ holdThrough(p)
    /\ UNCHANGED <<op, replies, core, taken, confirmed, lostTrack, abandoned, badReplies>>

notEstablished(p) ==
    /\ pc[p] = "locked" /\ op[p] \notin {"create", "dial"} /\ attachmentID = 0
    /\ unlocked(p)
    /\ UNCHANGED <<attachmentID, net, replies, core, history, budgets>>

outOfRequests(p) ==       \* only the bound: nothing is sent any more
    /\ pc[p] = "locked" /\ sent = MaxRequests
    /\ op[p] \in {"create", "dial"} \/ attachmentID # 0
    /\ unlocked(p)
    /\ UNCHANGED <<attachmentID, net, replies, core, history, budgets>>

(* Core takes a request off the network.  create and the WebSocket hello
   rotate the attachment, every other request must carry the current one. *)
CoreHandles(r) ==
    /\ r \in net
    /\ net' = net \ {r}
    /\ LET rotated == [gen |-> core.last + 1, last |-> core.last + 1,
                       kind |-> IF r.op = "dial" THEN "ws" ELSE "pull"]
           current == core.kind = "pull" /\ r.gen = core.gen
           reply(k, g) == [replies EXCEPT ![r.id] = [kind |-> k, gen |-> g, subject |-> r.id,
                                                       valid |-> TRUE]]
       IN \/ /\ r.op \in {"create", "dial"}
             /\ core' = rotated
             /\ replies' = reply("ok", rotated.gen) /\ taken' = taken \cup {r.id}
          \/ /\ r.op \notin {"create", "dial"} /\ current
             /\ core' = IF r.op = "close" THEN [core EXCEPT !.kind = "none"] ELSE core
             /\ replies' = reply("ok", core.gen) /\ taken' = taken \cup {r.id}
          \/ /\ r.op \notin {"create", "dial"} /\ ~current
             /\ replies' = reply("error", 0) /\ UNCHANGED <<core, taken>>
    /\ UNCHANGED <<attachmentID, lock, pc, op, req, confirmed, retired, lostTrack, budgets>>

(* A reply that does not fit: about another identity, generation or number
   of decisions, or not valid at all. *)
CoreRepliesWrongly(r) ==
    /\ r \in net /\ badReplies < MaxBadReplies /\ r.op \notin Writers
    /\ net' = net \ {r} /\ badReplies' = badReplies + 1
    /\ \E other \in {[subject |-> 0, valid |-> TRUE], [subject |-> r.id, valid |-> FALSE]} :
          replies' = [replies EXCEPT ![r.id] = [kind |-> "ok", gen |-> core.last + 1,
                                                subject |-> other.subject, valid |-> other.valid]]
    /\ UNCHANGED <<attachmentID, lock, pc, op, req, core, history, sent, abandoned>>

-----------------------------------------------------------------------------
(* The reply.  What each operation compares before it reports success. *)

(* ClaimRuntimeRun: nothing offered, or an assignment of the Session. *)
claimAccepts(id, reply) == reply.valid /\ reply.subject = id

(* AckRuntimeAssignment, RejectRuntimeAssignment and RenewRuntimeLease: the
   Attempt identity of the request. *)
assignmentAccepts(id, reply) == reply.valid /\ reply.subject = id

spoolAcceptsAny(id, reply) == reply.valid

(* AppendRuntimeEvent and FinalizeRuntimeResult: the record's own id. *)
spoolAccepts(id, reply) == reply.valid /\ reply.subject = id

(* ResumeRuntimeRuns: one decision per Attempt, in the order sent. *)
resumeAccepts(id, reply) == reply.subject = id /\ reply.valid

(* AckRuntimeCancel: the cancellation's id. *)
cancelAccepts(id, reply) == reply.subject = id /\ reply.valid

(* DrainRuntimeSession: Core's persisted state, which an earlier drain may
   have written. *)
drainAccepts(id, reply) == reply.valid

(* PollRuntimeCommands: every command decodes. *)
pollAccepts(id, reply) == reply.valid

callAccepts(o, id, reply) ==
    /\ reply.kind = "ok"
    /\ CASE o = "claim"                        -> claimAccepts(id, reply)
         [] o \in {"ack", "reject", "renew"}   -> assignmentAccepts(id, reply)
         [] o \in {"event", "result"}          -> spoolAccepts(id, reply)
         [] o = "resume"                       -> resumeAccepts(id, reply)
         [] o = "cancelAck"                    -> cancelAccepts(id, reply)
         [] o = "drain"                        -> drainAccepts(id, reply)
         [] o = "poll"                         -> pollAccepts(id, reply)

(* HeartbeatRuntimeSession: the generation in the reply is the one it sent. *)
heartbeatAccepts(reply) == reply.kind = "ok" /\ reply.valid /\ reply.gen = attachmentID

answered(p) == pc[p] = "waiting" /\ replies[req[p]] # NoReply

createReturns(p) ==
    /\ answered(p) /\ op[p] = "create"
    /\ attachmentID' = IF replies[req[p]].kind = "ok" THEN replies[req[p]].gen ELSE attachmentID
    /\ unlocked(p)
    /\ UNCHANGED <<net, replies, core, history, budgets>>

heartbeatReturns(p) ==
    /\ answered(p) /\ op[p] = "heartbeat"
    /\ confirmed' = IF heartbeatAccepts(replies[req[p]])
                    THEN confirmed \cup {[id |-> req[p], op |-> op[p]]}
                    ELSE confirmed
    /\ unlocked(p)
    /\ UNCHANGED <<attachmentID, net, replies, core, taken, retired, lostTrack, budgets>>

closeReturns(p) ==
    /\ answered(p) /\ op[p] = "close"
    /\ attachmentID' = IF replies[req[p]].kind = "ok" THEN 0 ELSE attachmentID
    /\ unlocked(p)
    /\ UNCHANGED <<net, replies, core, history, budgets>>

dialReturns(p) ==
    /\ answered(p) /\ op[p] = "dial"
    /\ unlocked(p)
    /\ UNCHANGED <<attachmentID, net, replies, core, history, budgets>>

callReturns(p) ==
    /\ answered(p) /\ op[p] \in PullCalls
    /\ confirmed' = IF callAccepts(op[p], req[p], replies[req[p]])
                    THEN confirmed \cup {[id |-> req[p], op |-> op[p]]}
                    ELSE confirmed
    /\ unlocked(p)
    /\ UNCHANGED <<attachmentID, net, replies, core, taken, retired, lostTrack, budgets>>

(* The caller's context ends before the reply, or the connection breaks. *)
abandon(p) ==
    /\ pc[p] = "waiting" /\ abandoned < MaxAbandoned
    /\ abandoned' = abandoned + 1
    /\ lostTrack' = (lostTrack \/ op[p] \in Writers)
    /\ unlocked(p)
    /\ UNCHANGED <<attachmentID, net, replies, core, taken, confirmed, retired, sent, badReplies>>

Next == \/ \E p \in Callers :
              \/ begin(p) \/ RLock(p) \/ announce(p) \/ Lock(p) \/ send(p)
              \/ notEstablished(p) \/ outOfRequests(p)
              \/ createReturns(p) \/ heartbeatReturns(p) \/ closeReturns(p)
              \/ dialReturns(p) \/ callReturns(p) \/ abandon(p)
        \/ \E r \in net : CoreHandles(r) \/ CoreRepliesWrongly(r)

Spec == Init /\ [][Next]_vars

-----------------------------------------------------------------------------
(* Properties *)

waitsFor(r) == \E p \in Callers : pc[p] = "waiting" /\ req[p] = r.id

(* Type invariant. *)
TypeOK ==
    /\ attachmentID \in 0..MaxRequests /\ core.gen \in 0..MaxRequests
    /\ readers \subseteq Callers /\ blocked \subseteq Callers
    /\ writer \in Callers \cup {None} /\ announced \in Callers \cup {None}
    /\ writer # None => readers = {}
    /\ sent \in 0..MaxRequests

(* A reattach cannot rotate a Pull call's generation midway: a call Core is
   about to receive from a caller that still waits carries Core's current
   generation, unless an earlier create, close or dial was abandoned. *)
CallKeepsGeneration ==
    \A r \in net : (waitsFor(r) /\ r.op \notin Writers /\ ~lostTrack)
                      => r.gen = core.gen /\ core.kind = "pull"

(* Once a dial has been sent, no Pull call uses the generation that was
   cached before it, whatever became of the handshake. *)
DialRetiresGeneration ==
    \A r \in net : (waitsFor(r) /\ r.op # "dial") => r.gen \notin retired

(* An older reply never overwrites a newer generation, nor brings back one
   that a dial has retired. *)
GenerationsAdvance ==
    [][attachmentID' # 0 => attachmentID' >= attachmentID /\ attachmentID' \notin retired]_attachmentID

(* A call about an Attempt, a record or a cancellation, and a heartbeat,
   report success only when Core accepted that very request. *)
SuccessIsForRequest == \A c \in confirmed : c.op \notin {"drain", "poll"} => c.id \in taken
=============================================================================
