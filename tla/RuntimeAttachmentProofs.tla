---------------------- MODULE RuntimeAttachmentProofs ----------------------
(***************************************************************************)
(* The properties of RuntimeAttachment for any number of callers, requests *)
(* abandoned calls and bad replies.                                        *)
(***************************************************************************)
EXTENDS RuntimeAttachment, TLAPS

Ops == Writers \cup {"heartbeat"} \cup PullCalls
Ids == 1..MaxRequests
Requests == [id : Ids, op : Ops, gen : Nat]
Replies == [kind : {"none", "ok", "error"}, gen : Nat, subject : Nat, valid : BOOLEAN]

Holds(p) == pc[p] \in {"locked", "waiting"}
Waiting(p) == pc[p] = "waiting"

\* The type of every variable.
TypesOK ==
  /\ attachmentID \in Nat
  /\ readers \subseteq Callers /\ blocked \subseteq Callers
  /\ writer \in Callers \cup {None} /\ announced \in Callers \cup {None}
  /\ pc \in [Callers -> {"idle", "wantLock", "wantRLock", "locked", "waiting"}]
  /\ op \in [Callers -> Ops \cup {None}]
  /\ req \in [Callers -> 0..MaxRequests]
  /\ net \subseteq Requests
  /\ replies \in [Ids -> Replies]
  /\ core \in [gen : Nat, kind : {"none", "ws", "pull"}, last : Nat]
  /\ retired \subseteq Nat
  /\ sent \in 0..MaxRequests

\* attachmentMu: who holds it, and for which kind of operation.
CallerOK(p) ==
  /\ Holds(p) => p \in readers \/ writer = p
  /\ p \in readers => Holds(p) /\ op[p] \in Ops \ Writers
  /\ writer = p => Holds(p) /\ op[p] \in Writers
  /\ p \in blocked => pc[p] = "wantRLock"
  /\ pc[p] = "wantRLock" => op[p] \in Ops \ Writers
  /\ pc[p] = "wantLock" => op[p] \in Writers
LockOK ==
  /\ writer # None => readers = {}
  /\ announced # None => writer = None /\ pc[announced] = "wantLock"
  /\ \A p \in Callers : CallerOK(p)

\* A request has one number and one sender; its reply comes when it has left the
\* network.
RequestOK ==
  /\ \A p \in Callers : Waiting(p) => req[p] \in 1..sent
  /\ \A p, q \in Callers : Waiting(p) /\ Waiting(q) /\ req[p] = req[q] => p = q
  /\ \A r \in net : r.id \in 1..sent /\ replies[r.id] = NoReply
  /\ \A r, s \in net : r.id = s.id => r = s
  /\ \A i \in Ids : i > sent => replies[i] = NoReply
  /\ \A p \in Callers, r \in net : Waiting(p) /\ req[p] = r.id =>
       /\ r.op = op[p]
       /\ r.op # "dial" => r.gen = attachmentID
       /\ r.op \notin {"create", "dial"} => r.gen # 0

\* Generations grow, and the cached one has not been retired.
GenOK ==
  /\ retired \subseteq 1..core.last /\ attachmentID \notin retired
  /\ attachmentID <= core.last /\ core.gen <= core.last

\* What a reply says of the request with its number.
ReplyOK ==
  /\ \A i \in Ids : replies[i].kind = "ok" /\ replies[i].valid /\ replies[i].subject = i
                      => i \in taken
  /\ \A p \in Callers : Waiting(p) /\ replies[req[p]].kind = "ok" =>
       /\ op[p] = "create" => /\ replies[req[p]].gen \in 1..core.last \ retired
                              /\ replies[req[p]].gen >= attachmentID
       /\ op[p] = "heartbeat" => (replies[req[p]].valid /\ replies[req[p]].gen = attachmentID
                                    => req[p] \in taken)

\* Unless a create, close or dial was abandoned, the cached generation is the one
\* Core serves, or the writer that changes it has its reply.
TrackOK ==
  ~lostTrack =>
    /\ \A r \in net : r.op \in Writers => waitsFor(r)
    /\ attachmentID # 0 =>
         \/ attachmentID = core.gen /\ core.kind = "pull"
         \/ \E p \in Callers : /\ Waiting(p) /\ op[p] \in {"create", "close"}
                               /\ replies[req[p]].kind = "ok"
    /\ \A p \in Callers : Waiting(p) /\ op[p] = "dial" => attachmentID = 0
    /\ \A p \in Callers : Waiting(p) /\ op[p] = "create" /\ replies[req[p]].kind = "ok" =>
         replies[req[p]].gen = core.gen /\ core.kind = "pull"
    /\ \A p \in Callers : Waiting(p) /\ op[p] = "close" /\ replies[req[p]] # NoReply =>
         replies[req[p]].kind = "ok"

AInv == /\ TypesOK /\ LockOK /\ RequestOK /\ GenOK /\ ReplyOK /\ TrackOK
        /\ SuccessIsForRequest

-----------------------------------------------------------------------------
(* The lock.                                                               *)

\* A caller that holds the lock for writing is the only one that holds it.
LEMMA SoleWriter ==
  ASSUME TypesOK, LockOK, NEW p \in Callers, NEW q \in Callers,
         Holds(p), op[p] \in Writers, Holds(q)
  PROVE  q = p
<1>1. CallerOK(p) /\ CallerOK(q) /\ (writer # None => readers = {})
  BY Zenon DEF LockOK
<1>2. writer = p /\ p # None
  BY Zenon, <1>1, AttachmentAssumption DEF CallerOK
<1> QED
  BY Zenon, <1>1, <1>2 DEF CallerOK

\* The initial states.
LEMMA InitOK == Init => AInv
<1> SUFFICES ASSUME Init PROVE AInv
  BY Zenon
<1> USE AttachmentAssumption DEF Init
<1>1. TypesOK
  BY DEF TypesOK, Ids, Replies, NoReply, Ops
<1>2. LockOK
  <2>1. ASSUME NEW p \in Callers PROVE CallerOK(p)
    BY Zenon DEF CallerOK, Holds
  <2> QED
    BY Zenon, <2>1 DEF LockOK
<1>3. RequestOK
  BY Zenon DEF RequestOK, Waiting, Ids
<1>4. GenOK
  BY DEF GenOK
<1>5. TrackOK
  BY Zenon DEF TrackOK, Waiting
<1>6. ReplyOK
  BY Zenon DEF ReplyOK, Waiting, NoReply, Ids
<1> QED
  BY Zenon, <1>1, <1>2, <1>3, <1>4, <1>5, <1>6 DEF AInv, SuccessIsForRequest

\* Unlock and RUnlock: the caller is idle, those it kept out may go on, and
\* nobody else's request is touched.
LEMMA UnlockedOK ==
  ASSUME TypesOK, LockOK, NEW p \in Callers, Holds(p), unlocked(p)
  PROVE  /\ LockOK'
         /\ readers' \subseteq Callers /\ blocked' \subseteq Callers
         /\ writer' \in Callers \cup {None} /\ announced' \in Callers \cup {None}
         /\ pc' \in [Callers -> {"idle", "wantLock", "wantRLock", "locked", "waiting"}]
         /\ op' \in [Callers -> Ops \cup {None}]
         /\ req' \in [Callers -> 0..MaxRequests]
         /\ pc'[p] = "idle"
         /\ \A q \in Callers \ {p} : /\ op'[q] = op[q] /\ req'[q] = req[q]
                                     /\ pc'[q] = "waiting" <=> pc[q] = "waiting"
<1> USE AttachmentAssumption
<1>1. /\ op' = [op EXCEPT ![p] = None] /\ req' = [req EXCEPT ![p] = 0]
      /\ announced' = announced
  BY Zenon DEF unlocked
<1>2. CASE p \in readers
  <2>1. /\ readers' = readers \ {p} /\ pc' = [pc EXCEPT ![p] = "idle"]
        /\ writer' = writer /\ blocked' = blocked
    BY Zenon, <1>2 DEF unlocked
  <2>2. writer = None
    BY Zenon, <1>2 DEF LockOK
  <2>3. LockOK'
    BY Zenon, <1>1, <2>1, <2>2 DEF LockOK, CallerOK, Holds, TypesOK
  <2> QED
    BY <1>1, <2>1, <2>3 DEF TypesOK
<1>3. CASE p \notin readers
  <2>1. writer = p /\ readers = {} /\ announced = None
    BY Zenon, <1>3 DEF LockOK, CallerOK
  <2>2. /\ readers' = blocked /\ blocked' = {} /\ writer' = None
        /\ pc' = [q \in Callers |-> CASE q = p -> "idle"
                                      [] q # p /\ writer = p /\ q \in blocked -> "locked"
                                      [] OTHER -> pc[q]]
    BY Zenon, <1>3, <2>1 DEF unlocked
  <2>3. /\ pc'[p] = "idle"
        /\ \A q \in blocked : pc[q] = "wantRLock" /\ q # p /\ pc'[q] = "locked"
        /\ \A q \in Callers : q # p /\ q \notin blocked => pc'[q] = pc[q]
    BY Zenon, <2>1, <2>2 DEF LockOK, CallerOK, Holds, TypesOK
  <2>4. LockOK'
    BY <1>1, <2>1, <2>2, <2>3 DEF LockOK, CallerOK, Holds, TypesOK
  <2>5. pc' \in [Callers -> {"idle", "wantLock", "wantRLock", "locked", "waiting"}]
    BY Zenon, <2>2 DEF TypesOK
  <2>6. /\ readers' \subseteq Callers /\ blocked' \subseteq Callers
        /\ writer' \in Callers \cup {None} /\ announced' \in Callers \cup {None}
    BY Zenon, <1>1, <2>2 DEF TypesOK
  <2>7. op' \in [Callers -> Ops \cup {None}] /\ req' \in [Callers -> 0..MaxRequests]
    BY <1>1 DEF TypesOK
  <2>8. \A q \in Callers \ {p} : op'[q] = op[q] /\ req'[q] = req[q]
    BY Zenon, <1>1 DEF TypesOK
  <2>9. \A q \in Callers \ {p} : pc'[q] = "waiting" <=> pc[q] = "waiting"
    BY Zenon, <2>3
  <2> QED
    BY Zenon, <2>3, <2>4, <2>5, <2>6, <2>7, <2>8, <2>9
<1> QED
  BY Zenon, <1>2, <1>3

-----------------------------------------------------------------------------
(* The steps of a call.                                                    *)

\* A call that ends and leaves the cached generation alone.  If it is a create
\* or a close that waits, or a dial without its reply, track is lost.
LEMMA ReleaseOK ==
  ASSUME AInv, NEW p \in Callers, Holds(p), unlocked(p),
         UNCHANGED <<attachmentID, net, replies, core, taken, retired, sent>>,
         lostTrack => lostTrack',
         Waiting(p) => \/ op[p] \notin Writers
                       \/ op[p] = "dial" /\ replies[req[p]] # NoReply
                       \/ lostTrack'
  PROVE  TypesOK' /\ LockOK' /\ RequestOK' /\ GenOK' /\ ReplyOK' /\ TrackOK'
<1> USE AttachmentAssumption
<1>1. TypesOK /\ LockOK /\ RequestOK /\ GenOK /\ ReplyOK /\ TrackOK
  BY Zenon DEF AInv
<1>2. /\ LockOK' /\ pc'[p] = "idle"
      /\ \A q \in Callers \ {p} : /\ op'[q] = op[q] /\ req'[q] = req[q]
                                  /\ pc'[q] = "waiting" <=> pc[q] = "waiting"
  BY Zenon, <1>1, UnlockedOK
<1>3. TypesOK'
  BY Zenon, <1>1, UnlockedOK DEF TypesOK
<1>4. \A q \in Callers : Waiting(q)' => q # p /\ Waiting(q) /\ op'[q] = op[q] /\ req'[q] = req[q]
  BY Zenon, <1>2 DEF Waiting
<1>5. \A q \in Callers : Waiting(q) /\ q # p => Waiting(q)' /\ op'[q] = op[q] /\ req'[q] = req[q]
  BY Zenon, <1>2 DEF Waiting
<1>6. RequestOK'
  BY <1>1, <1>4 DEF RequestOK
<1>7. GenOK'
  BY Zenon, <1>1 DEF GenOK
<1>8. ReplyOK'
  BY Zenon, <1>1, <1>4 DEF ReplyOK
<1>9. TrackOK'
  <2> SUFFICES ASSUME ~lostTrack' PROVE TrackOK'
    BY Zenon DEF TrackOK
  <2>1. /\ ~lostTrack
        /\ Waiting(p) => op[p] \notin {"create", "close"}
        /\ Waiting(p) /\ op[p] \in Writers => replies[req[p]] # NoReply
    BY Zenon DEF Writers
  <2>2. \A r \in net' : r.op \in Writers => waitsFor(r)'
    <3> SUFFICES ASSUME NEW r \in net, r.op \in Writers PROVE waitsFor(r)'
      BY Zenon
    <3>1. PICK q \in Callers : Waiting(q) /\ req[q] = r.id
      BY Zenon, <1>1, <2>1 DEF TrackOK, waitsFor, Waiting
    <3>2. q # p
      BY <1>1, <2>1, <3>1 DEF RequestOK
    <3> QED
      BY Zenon, <1>5, <3>1, <3>2 DEF waitsFor, Waiting
  <2>3. attachmentID' # 0 =>
         \/ attachmentID' = core'.gen /\ core'.kind = "pull"
         \/ \E q \in Callers : /\ Waiting(q)' /\ op'[q] \in {"create", "close"}
                               /\ replies'[req'[q]].kind = "ok"
    BY Zenon, <1>1, <1>5, <2>1 DEF TrackOK
  <2> QED
    BY <1>1, <1>4, <2>1, <2>2, <2>3 DEF TrackOK
<1> QED
  BY Zenon, <1>2, <1>3, <1>6, <1>7, <1>8, <1>9

\* create and close return, alone with the lock: the new generation is Core's,
\* or there is none.
LEMMA RotateOK ==
  ASSUME AInv, NEW p \in Callers, createReturns(p) \/ closeReturns(p)
  PROVE  TypesOK' /\ LockOK' /\ RequestOK' /\ GenOK' /\ ReplyOK' /\ TrackOK'
<1> USE AttachmentAssumption
<1>1. TypesOK /\ LockOK /\ RequestOK /\ GenOK /\ ReplyOK /\ TrackOK
  BY Zenon DEF AInv
<1> DEFINE reply == replies[req[p]]
<1>2. /\ unlocked(p) /\ Waiting(p) /\ Holds(p) /\ reply # NoReply /\ op[p] \in {"create", "close"}
      /\ UNCHANGED <<net, replies, core, taken, confirmed, retired, lostTrack, sent>>
      /\ attachmentID' = IF reply.kind # "ok" THEN attachmentID
                         ELSE IF op[p] = "create" THEN reply.gen ELSE 0
  BY Zenon DEF createReturns, closeReturns, answered, Holds, Waiting, history, budgets
<1>3. \A q \in Callers : Waiting(q) => q = p
  BY Zenon, <1>1, <1>2, SoleWriter DEF Waiting, Holds, Writers
<1>4. /\ LockOK' /\ pc'[p] = "idle"
      /\ \A q \in Callers \ {p} : pc'[q] = "waiting" <=> pc[q] = "waiting"
  BY Zenon, <1>1, <1>2, UnlockedOK
<1>5. \A q \in Callers : ~Waiting(q)'
  BY Zenon, <1>3, <1>4 DEF Waiting
<1>6. reply \in Replies /\ req[p] \in Ids
  BY <1>1, <1>2 DEF TypesOK, RequestOK, Ids
<1>7. attachmentID' \in Nat
  BY Zenon, <1>1, <1>2, <1>6 DEF TypesOK, Replies
<1>8. TypesOK'
  BY Zenon, <1>1, <1>2, <1>7, UnlockedOK DEF TypesOK
<1>9. RequestOK'
  BY Zenon, <1>1, <1>2, <1>5 DEF RequestOK
<1>10. GenOK'
  <2>1. CASE reply.kind = "ok" /\ op[p] = "create"
    BY <1>1, <1>2, <2>1 DEF GenOK, ReplyOK, TypesOK
  <2>2. CASE reply.kind = "ok" /\ op[p] # "create"
    BY <1>1, <1>2, <2>2 DEF GenOK, TypesOK
  <2>3. CASE reply.kind # "ok"
    BY Zenon, <1>1, <1>2, <2>3 DEF GenOK
  <2> QED
    BY Zenon, <2>1, <2>2, <2>3
<1>11. ReplyOK'
  BY Zenon, <1>1, <1>2, <1>5 DEF ReplyOK
<1>12. TrackOK'
  <2> SUFFICES ASSUME ~lostTrack PROVE TrackOK'
    BY Zenon, <1>2 DEF TrackOK
  <2>1. \A r \in net : r.op \notin Writers
    BY <1>1, <1>2, <1>3 DEF TrackOK, waitsFor, RequestOK, Waiting
  <2>2. attachmentID' # 0 => attachmentID' = core.gen /\ core.kind = "pull"
    <3>1. CASE reply.kind = "ok"
      BY Zenon, <1>1, <1>2, <3>1 DEF TrackOK
    <3>2. CASE reply.kind # "ok"
      BY Zenon, <1>1, <1>2, <1>3, <3>2 DEF TrackOK
    <3> QED
      BY Zenon, <3>1, <3>2
  <2> QED
    BY Zenon, <1>2, <1>5, <2>1, <2>2 DEF TrackOK
<1> QED
  BY Zenon, <1>4, <1>8, <1>9, <1>10, <1>11, <1>12

\* Asking for the lock and getting it changes no request.
LEMMA AcquireOK ==
  ASSUME AInv, NEW p \in Callers, begin(p) \/ RLock(p) \/ announce(p) \/ Lock(p)
  PROVE  AInv'
<1> USE AttachmentAssumption
<1>1. TypesOK /\ LockOK /\ RequestOK /\ GenOK /\ ReplyOK /\ TrackOK /\ SuccessIsForRequest
  BY Zenon DEF AInv
<1>2. UNCHANGED <<attachmentID, req, net, replies, core, taken, confirmed, retired, lostTrack, sent>>
  BY Zenon DEF begin, RLock, announce, Lock, history, budgets
<1>3. TypesOK' /\ LockOK' /\ \A q \in Callers : Waiting(q)' <=> Waiting(q)
  <2>1. CASE begin(p)
    <3>1. PICK o \in Operations :
            /\ op' = [op EXCEPT ![p] = o]
            /\ pc' = [pc EXCEPT ![p] = IF exclusive(o) THEN "wantLock" ELSE "wantRLock"]
      BY Zenon, <2>1 DEF begin
    <3>2. o \in Ops /\ (exclusive(o) <=> o \in Writers)
      BY Zenon DEF Ops, exclusive, locksShared
    <3>3. pc[p] = "idle" /\ UNCHANGED <<readers, writer, announced, blocked>>
      BY Zenon, <2>1 DEF begin, lock
    <3>4. TypesOK'
      BY Zenon, <1>1, <1>2, <3>1, <3>2, <3>3 DEF TypesOK
    <3>5. LockOK'
      BY <1>1, <3>1, <3>2, <3>3 DEF LockOK, CallerOK, Holds, TypesOK
    <3> QED
      BY Zenon, <1>1, <3>1, <3>3, <3>4, <3>5 DEF Waiting, TypesOK
  <2>2. CASE RLock(p)
    <3>1. TypesOK'
      BY Zenon, <1>1, <1>2, <2>2 DEF RLock, TypesOK
    <3>2. LockOK'
      BY <1>1, <2>2 DEF RLock, LockOK, CallerOK, Holds, TypesOK, readerMayEnter
    <3> QED
      BY Zenon, <1>1, <2>2, <3>1, <3>2 DEF RLock, Waiting, TypesOK
  <2>3. CASE announce(p)
    <3>1. TypesOK'
      BY Zenon, <1>1, <1>2, <2>3 DEF announce, TypesOK
    <3>2. LockOK'
      BY Zenon, <1>1, <2>3 DEF announce, LockOK, CallerOK, Holds
    <3> QED
      BY Zenon, <2>3, <3>1, <3>2 DEF announce, Waiting
  <2>4. CASE Lock(p)
    <3>1. TypesOK'
      BY Zenon, <1>1, <1>2, <2>4 DEF Lock, TypesOK
    <3>2. LockOK'
      BY Zenon, <1>1, <2>4 DEF Lock, LockOK, CallerOK, Holds, TypesOK
    <3> QED
      BY Zenon, <1>1, <2>4, <3>1, <3>2 DEF Lock, Waiting, TypesOK, LockOK
  <2> QED
    BY Zenon, <2>1, <2>2, <2>3, <2>4
<1>4. \A q \in Callers : Waiting(q) => op'[q] = op[q]
  BY Zenon, <1>1 DEF begin, RLock, announce, Lock, Waiting, TypesOK
<1>5. RequestOK' /\ GenOK' /\ ReplyOK'
  BY <1>1, <1>2, <1>3, <1>4 DEF RequestOK, GenOK, ReplyOK
<1>6. \A r \in net : waitsFor(r)' <=> waitsFor(r)
  BY Zenon, <1>2, <1>3 DEF waitsFor, Waiting
<1>7. TrackOK'
  BY Zenon, <1>1, <1>2, <1>3, <1>4, <1>6 DEF TrackOK
<1> QED
  BY Zenon, <1>1, <1>2, <1>3, <1>5, <1>7 DEF AInv, SuccessIsForRequest

\* A request leaves with the cached generation; a dial retires it.
LEMMA SendOK ==
  ASSUME AInv, NEW p \in Callers, send(p)
  PROVE  AInv'
<1> USE AttachmentAssumption
<1>1. TypesOK /\ LockOK /\ RequestOK /\ GenOK /\ ReplyOK /\ TrackOK /\ SuccessIsForRequest
  BY Zenon DEF AInv
<1> DEFINE id == sent + 1
           r == [id |-> id, op |-> op[p], gen |-> attachmentID]
<1>2. /\ pc[p] = "locked" /\ sent < MaxRequests
      /\ op[p] \in {"create", "dial"} \/ attachmentID # 0
      /\ sent' = id /\ req' = [req EXCEPT ![p] = id] /\ net' = net \cup {r}
      /\ pc' = [pc EXCEPT ![p] = "waiting"]
      /\ attachmentID' = IF op[p] = "dial" THEN 0 ELSE attachmentID
      /\ retired' = IF op[p] = "dial" THEN (retired \cup {attachmentID}) \ {0} ELSE retired
      /\ UNCHANGED <<readers, writer, announced, blocked>>
      /\ UNCHANGED <<op, replies, core, taken, confirmed, lostTrack>>
  BY Zenon DEF send, dialInvalidates, holdThrough, lock
<1>3. op[p] \in Ops /\ id \in Ids /\ Holds(p)
  <2>1. Holds(p)
    BY Zenon, <1>2 DEF Holds
  <2>2. op[p] \in Ops
    BY Zenon, <1>1, <2>1 DEF LockOK, CallerOK, Ops
  <2>3. id \in Ids
    BY <1>1, <1>2 DEF TypesOK, Ids
  <2> QED
    BY Zenon, <2>1, <2>2, <2>3
<1>4. TypesOK'
  BY <1>1, <1>2, <1>3 DEF TypesOK, Requests, Ids
<1>5. LockOK'
  BY Zenon, <1>1, <1>2 DEF LockOK, CallerOK, Holds, TypesOK
<1>6. \A q \in Callers : /\ Waiting(q)' <=> q = p \/ Waiting(q)
                         /\ req'[q] = IF q = p THEN id ELSE req[q]
  BY Zenon, <1>1, <1>2 DEF Waiting, TypesOK
<1>7. replies[id] = NoReply /\ NoReply.kind = "none"
  <2>1. replies[id] = NoReply
    BY <1>1, <1>2, <1>3 DEF RequestOK, TypesOK
  <2> QED
    BY Zenon, <2>1 DEF NoReply
<1>8. op[p] = "dial" => \A q \in Callers : ~Waiting(q)
  BY Zenon, <1>1, <1>2, <1>3, SoleWriter DEF Waiting, Holds, Writers
<1>9. RequestOK'
  <2>1. sent \in Nat /\ id > sent /\ r.id = id /\ r.op = op[p] /\ r.gen = attachmentID
    BY <1>1 DEF TypesOK
  <2>2. \A q \in Callers : Waiting(q)' => req'[q] \in 1..sent'
    BY <1>1, <1>2, <1>6, <2>1 DEF RequestOK
  <2>3. \A q, u \in Callers : Waiting(q)' /\ Waiting(u)' /\ req'[q] = req'[u] => q = u
    BY <1>1, <1>6, <2>1 DEF RequestOK
  <2>4. \A s \in net' : s.id \in 1..sent' /\ replies'[s.id] = NoReply
    BY <1>1, <1>2, <1>7, <2>1 DEF RequestOK
  <2>5. \A s, t \in net' : s.id = t.id => s = t
    BY <1>1, <1>2, <2>1 DEF RequestOK
  <2>6. \A i \in Ids : i > sent' => replies'[i] = NoReply
    BY <1>1, <1>2, <2>1 DEF RequestOK, Ids
  <2>7. \A q \in Callers, s \in net' : Waiting(q)' /\ req'[q] = s.id =>
           /\ s.op = op'[q]
           /\ s.op # "dial" => s.gen = attachmentID'
           /\ s.op \notin {"create", "dial"} => s.gen # 0
    <3> SUFFICES ASSUME NEW q \in Callers, NEW s \in net', Waiting(q)', req'[q] = s.id
                 PROVE  /\ s.op = op'[q]
                        /\ s.op # "dial" => s.gen = attachmentID'
                        /\ s.op \notin {"create", "dial"} => s.gen # 0
      BY Zenon
    <3>1. CASE q = p
      <4>1. s = r
        BY <1>1, <1>2, <1>6, <2>1, <3>1 DEF RequestOK
      <4> QED
        BY Zenon, <1>2, <2>1, <3>1, <4>1
    <3>2. CASE q # p
      <4>1. Waiting(q) /\ req[q] \in 1..sent /\ req'[q] = req[q]
        BY Zenon, <1>1, <1>6, <3>2 DEF RequestOK
      <4>2. s \in net
        BY <1>2, <2>1, <4>1
      <4>3. op[p] # "dial"
        BY Zenon, <1>8, <4>1
      <4> QED
        BY Zenon, <1>1, <1>2, <4>1, <4>2, <4>3 DEF RequestOK
    <3> QED
      BY Zenon, <3>1, <3>2
  <2> QED
    BY Zenon, <2>2, <2>3, <2>4, <2>5, <2>6, <2>7 DEF RequestOK
<1>10. GenOK'
  BY <1>1, <1>2 DEF GenOK, TypesOK
<1>11. ReplyOK'
  <2>1. \A q \in Callers : Waiting(q)' /\ replies'[req'[q]].kind = "ok" =>
          /\ Waiting(q) /\ req'[q] = req[q] /\ op[p] # "dial"
    BY Zenon, <1>2, <1>6, <1>7, <1>8
  <2> QED
    BY <1>1, <1>2, <2>1 DEF ReplyOK
<1>12. TrackOK'
  <2> SUFFICES ASSUME ~lostTrack PROVE TrackOK'
    BY Zenon, <1>2 DEF TrackOK
  <2>1. \A s \in net' : s.op \in Writers => waitsFor(s)'
    <3> SUFFICES ASSUME NEW s \in net', s.op \in Writers PROVE waitsFor(s)'
      BY Zenon
    <3>1. CASE s = r
      BY Zenon, <1>6, <3>1 DEF waitsFor, Waiting
    <3>2. CASE s \in net
      <4>1. PICK q \in Callers : Waiting(q) /\ req[q] = s.id
        BY Zenon, <1>1, <3>2 DEF TrackOK, waitsFor, Waiting
      <4>2. q # p
        BY Zenon, <1>2, <4>1 DEF Waiting
      <4> QED
        BY Zenon, <1>6, <4>1, <4>2 DEF waitsFor, Waiting
    <3> QED
      BY Zenon, <1>2, <3>1, <3>2
  <2>2. \A q \in Callers : Waiting(q)' /\ replies'[req'[q]] # NoReply =>
          Waiting(q) /\ req'[q] = req[q] /\ op[p] # "dial" /\ q # p
    BY Zenon, <1>2, <1>6, <1>7, <1>8
  <2>3. \A q \in Callers : Waiting(q) => Waiting(q)' /\ req'[q] = req[q]
    BY Zenon, <1>2, <1>6 DEF Waiting
  <2>4. attachmentID' # 0 =>
         \/ attachmentID' = core'.gen /\ core'.kind = "pull"
         \/ \E q \in Callers : /\ Waiting(q)' /\ op'[q] \in {"create", "close"}
                               /\ replies'[req'[q]].kind = "ok"
    BY Zenon, <1>1, <1>2, <2>3 DEF TrackOK
  <2>5. \A q \in Callers : Waiting(q)' /\ op'[q] = "dial" => attachmentID' = 0
    BY Zenon, <1>1, <1>2, <1>6 DEF TrackOK
  <2>6. \A q \in Callers : Waiting(q)' /\ op'[q] = "create" /\ replies'[req'[q]].kind = "ok" =>
         replies'[req'[q]].gen = core'.gen /\ core'.kind = "pull"
    BY <1>1, <1>2, <1>7, <2>2 DEF TrackOK
  <2>7. \A q \in Callers : Waiting(q)' /\ op'[q] = "close" /\ replies'[req'[q]] # NoReply =>
         replies'[req'[q]].kind = "ok"
    BY <1>1, <1>2, <2>2 DEF TrackOK
  <2> QED
    BY Zenon, <2>1, <2>4, <2>5, <2>6, <2>7 DEF TrackOK
<1> QED
  BY Zenon, <1>1, <1>2, <1>4, <1>5, <1>9, <1>10, <1>11, <1>12 DEF AInv, SuccessIsForRequest

\* Core's reply to a request: the request is off the network and no other
\* request is answered.
LEMMA AnswerOK ==
  ASSUME AInv, NEW r \in net, NEW R \in Replies,
         net' = net \ {r}, replies' = [replies EXCEPT ![r.id] = R],
         UNCHANGED <<attachmentID, readers, writer, announced, blocked, pc, op, req, retired, sent>>,
         core' \in [gen : Nat, kind : {"none", "ws", "pull"}, last : Nat],
         core'.last >= core.last, core'.gen <= core'.last
  PROVE  /\ TypesOK' /\ LockOK' /\ RequestOK' /\ GenOK'
         /\ r.id \in Ids /\ replies'[r.id] = R
         /\ \A i \in Ids : i # r.id => replies'[i] = replies[i]
         /\ \A p \in Callers : Waiting(p)' <=> Waiting(p)
         /\ \A p \in Callers : Waiting(p) => req[p] \in Ids
<1> USE AttachmentAssumption
<1>1. TypesOK /\ LockOK /\ RequestOK /\ GenOK
  BY Zenon DEF AInv
<1>2. /\ r.id \in Ids /\ r.id \in 1..sent /\ replies'[r.id] = R
      /\ \A i \in Ids : i # r.id => replies'[i] = replies[i]
  BY Zenon, <1>1 DEF TypesOK, Requests, RequestOK
<1>3. TypesOK'
  BY Zenon, <1>1 DEF TypesOK
<1>4. LockOK'
  BY Zenon, <1>1 DEF LockOK, CallerOK, Holds
<1>5. \A p \in Callers : Waiting(p)' <=> Waiting(p)
  BY Zenon DEF Waiting
<1>6. RequestOK'
  <2>1. \A s \in net' : s \in net /\ s.id # r.id /\ s.id \in Ids
    BY Zenon, <1>1 DEF RequestOK, TypesOK, Requests
  <2>2. \A s \in net' : s.id \in 1..sent' /\ replies'[s.id] = NoReply
    BY Zenon, <1>1, <1>2, <2>1 DEF RequestOK
  <2>3. \A i \in Ids : i > sent' => replies'[i] = NoReply
    BY <1>1, <1>2 DEF RequestOK, Ids, TypesOK
  <2> QED
    BY <1>1, <1>5, <2>1, <2>2, <2>3 DEF RequestOK
<1>7. GenOK'
  BY <1>1 DEF GenOK, TypesOK
<1>8. \A p \in Callers : Waiting(p) => req[p] \in Ids
  BY <1>1 DEF RequestOK, TypesOK, Ids
<1> QED
  BY Zenon, <1>2, <1>3, <1>4, <1>5, <1>6, <1>7, <1>8

\* Core handles a request: it rotates the attachment, accepts the request for
\* the current one, or refuses it.
LEMMA CoreHandlesOK ==
  ASSUME AInv, NEW r \in net, CoreHandles(r)
  PROVE  AInv'
<1> USE AttachmentAssumption
<1>1. TypesOK /\ LockOK /\ RequestOK /\ GenOK /\ ReplyOK /\ TrackOK /\ SuccessIsForRequest
  BY Zenon DEF AInv
<1> DEFINE rotates == r.op \in {"create", "dial"}
           current == core.kind = "pull" /\ r.gen = core.gen
           ok == rotates \/ current
           gen == IF rotates THEN core.last + 1 ELSE IF current THEN core.gen ELSE 0
           R == [kind |-> IF ok THEN "ok" ELSE "error", gen |-> gen, subject |-> r.id,
                 valid |-> TRUE]
<1>2. /\ net' = net \ {r} /\ replies' = [replies EXCEPT ![r.id] = R]
      /\ UNCHANGED <<attachmentID, readers, writer, announced, blocked, pc, op, req, retired, sent>>
      /\ UNCHANGED <<confirmed, lostTrack>>
      /\ taken' = IF ok THEN taken \cup {r.id} ELSE taken
      /\ core' = IF rotates
                 THEN [gen |-> core.last + 1, last |-> core.last + 1,
                       kind |-> IF r.op = "dial" THEN "ws" ELSE "pull"]
                 ELSE IF current /\ r.op = "close" THEN [core EXCEPT !.kind = "none"] ELSE core
  BY Zenon DEF CoreHandles, lock, budgets
<1>3. /\ r.id \in Nat /\ core.last \in Nat /\ core.gen \in Nat /\ core.gen <= core.last
      /\ core.kind \in {"none", "ws", "pull"}
  BY <1>1 DEF TypesOK, Requests, Ids, GenOK
<1>4. R \in Replies /\ R.gen = gen /\ R.subject = r.id /\ R.valid
  BY <1>3 DEF Replies
<1>5. R.kind = "ok" <=> ok
  BY Zenon
<1>6. /\ core' \in [gen : Nat, kind : {"none", "ws", "pull"}, last : Nat]
      /\ core'.last >= core.last /\ core'.gen <= core'.last
  BY <1>1, <1>2, <1>3 DEF TypesOK
<1>7. core' # core => r.op \in Writers
  BY Zenon, <1>2 DEF Writers
<1> HIDE DEF R, rotates, current, ok, gen
<1>8. /\ TypesOK' /\ LockOK' /\ RequestOK' /\ GenOK'
      /\ r.id \in Ids /\ replies'[r.id] = R
      /\ \A i \in Ids : i # r.id => replies'[i] = replies[i]
      /\ \A p \in Callers : Waiting(p)' <=> Waiting(p)
      /\ \A p \in Callers : Waiting(p) => req[p] \in Ids
  BY Zenon, <1>2, <1>4, <1>6, AnswerOK
<1>9. \A p \in Callers : Waiting(p) /\ req[p] = r.id => op[p] = r.op /\ replies[req[p]] = NoReply
  BY <1>1 DEF RequestOK
<1>10. ReplyOK'
  <2>1. \A i \in Ids : replies'[i].kind = "ok" /\ replies'[i].valid /\ replies'[i].subject = i
                         => i \in taken'
    BY Zenon, <1>1, <1>2, <1>5, <1>8 DEF ReplyOK
  <2>2. ASSUME NEW p \in Callers, Waiting(p), req[p] # r.id, replies[req[p]].kind = "ok"
        PROVE  /\ op[p] = "create" => /\ replies[req[p]].gen \in 1..core'.last \ retired
                                      /\ replies[req[p]].gen >= attachmentID
               /\ op[p] = "heartbeat" => (replies[req[p]].valid /\ replies[req[p]].gen = attachmentID
                                            => req[p] \in taken')
    BY <1>1, <1>2, <1>3, <1>6, <2>2 DEF ReplyOK
  <2>3. ASSUME NEW p \in Callers, Waiting(p), req[p] = r.id, R.kind = "ok"
        PROVE  /\ op[p] = "create" => R.gen \in 1..core'.last \ retired /\ R.gen >= attachmentID
               /\ req[p] \in taken'
    <3>1. op[p] = "create" => R.gen = core.last + 1 /\ core'.last = core.last + 1
      BY Zenon, <1>2, <1>4, <1>9, <2>3 DEF rotates, gen
    <3> QED
      BY <1>1, <1>2, <1>3, <1>5, <2>3, <3>1 DEF GenOK, TypesOK
  <2> QED
    BY <1>2, <1>8, <2>1, <2>2, <2>3 DEF ReplyOK
<1>11. TrackOK'
  <2> SUFFICES ASSUME ~lostTrack PROVE TrackOK'
    BY Zenon, <1>2 DEF TrackOK
  <2>1. \A s \in net' : s.op \in Writers => waitsFor(s)'
    BY Zenon, <1>1, <1>2 DEF TrackOK, waitsFor
  <2>2. ASSUME r.op \in Writers
        PROVE  \E p \in Callers : /\ Waiting(p) /\ req[p] = r.id /\ op[p] = r.op
                                  /\ \A q \in Callers : Waiting(q) => q = p
    <3>1. PICK p \in Callers : Waiting(p) /\ req[p] = r.id
      BY Zenon, <1>1, <2>2 DEF TrackOK, waitsFor, Waiting
    <3>2. op[p] = r.op /\ Holds(p)
      BY Zenon, <1>9, <3>1 DEF Waiting, Holds
    <3>3. \A q \in Callers : Waiting(q) => q = p
      BY Zenon, <1>1, <2>2, <3>2, SoleWriter DEF Waiting, Holds
    <3> QED
      BY Zenon, <3>1, <3>2, <3>3
  <2>3. NoReply.kind = "none"
    BY Zenon DEF NoReply
  <2>4. r.op = "close" => current
    <3> SUFFICES ASSUME r.op = "close" PROVE current
      BY Zenon
    <3>1. PICK p \in Callers : /\ Waiting(p) /\ req[p] = r.id
                               /\ \A q \in Callers : Waiting(q) => q = p
      BY Zenon, <2>2 DEF Writers
    <3>2. r.gen = attachmentID /\ attachmentID # 0
      BY Zenon, <1>1, <3>1 DEF RequestOK
    <3>3. replies[req[p]].kind # "ok"
      BY Zenon, <1>9, <2>3, <3>1
    <3> QED
      BY Zenon, <1>1, <3>1, <3>2, <3>3 DEF TrackOK, current
  <2>5. ASSUME attachmentID # 0
        PROVE  \/ attachmentID = core'.gen /\ core'.kind = "pull"
               \/ \E q \in Callers : /\ Waiting(q)' /\ op'[q] \in {"create", "close"}
                                     /\ replies'[req'[q]].kind = "ok"
    <3>1. CASE r.op \in Writers
      <4>1. PICK p \in Callers : Waiting(p) /\ req[p] = r.id /\ op[p] = r.op
        BY Zenon, <2>2, <3>1
      <4>2. r.op \in {"create", "close"}
        BY Zenon, <1>1, <2>5, <3>1, <4>1 DEF TrackOK, Writers
      <4>3. R.kind = "ok"
        BY Zenon, <1>5, <2>4, <4>2 DEF ok, rotates
      <4> QED
        BY <1>2, <1>8, <4>1, <4>2, <4>3
    <3>2. CASE r.op \notin Writers
      <4>1. core' = core
        BY Zenon, <1>7, <3>2
      <4>2. \A q \in Callers : Waiting(q) /\ op[q] \in {"create", "close"} =>
              Waiting(q)' /\ op'[q] = op[q] /\ replies'[req'[q]] = replies[req[q]]
        BY Zenon, <1>2, <1>8, <1>9, <3>2 DEF Writers
      <4> QED
        BY Zenon, <1>1, <2>5, <4>1, <4>2 DEF TrackOK
    <3> QED
      BY Zenon, <3>1, <3>2
  <2>6. \A q \in Callers : Waiting(q)' /\ op'[q] = "dial" => attachmentID' = 0
    BY Zenon, <1>1, <1>2, <1>8 DEF TrackOK
  <2>7. \A q \in Callers : Waiting(q)' /\ op'[q] = "create" /\ replies'[req'[q]].kind = "ok" =>
         replies'[req'[q]].gen = core'.gen /\ core'.kind = "pull"
    <3> SUFFICES ASSUME NEW q \in Callers, Waiting(q), op[q] = "create",
                        replies'[req[q]].kind = "ok"
                 PROVE  replies'[req[q]].gen = core'.gen /\ core'.kind = "pull"
      BY Zenon, <1>2, <1>8
    <3>1. CASE req[q] = r.id
      <4>1. r.op = "create"
        BY Zenon, <1>9, <3>1
      <4> QED
        BY Zenon, <1>2, <1>4, <1>8, <3>1, <4>1 DEF rotates, gen
    <3>2. CASE req[q] # r.id
      <4>1. core' = core
        BY Zenon, <1>7, <2>2, <3>2
      <4> QED
        BY Zenon, <1>1, <1>8, <3>2, <4>1 DEF TrackOK
    <3> QED
      BY Zenon, <3>1, <3>2
  <2>8. \A q \in Callers : Waiting(q)' /\ op'[q] = "close" /\ replies'[req'[q]] # NoReply =>
         replies'[req'[q]].kind = "ok"
    <3> SUFFICES ASSUME NEW q \in Callers, Waiting(q), op[q] = "close",
                        replies'[req[q]] # NoReply
                 PROVE  replies'[req[q]].kind = "ok"
      BY Zenon, <1>2, <1>8
    <3>1. CASE req[q] = r.id
      BY Zenon, <1>5, <1>8, <1>9, <2>4, <3>1 DEF ok
    <3>2. CASE req[q] # r.id
      BY Zenon, <1>1, <1>8, <3>2 DEF TrackOK
    <3> QED
      BY Zenon, <3>1, <3>2
  <2> QED
    BY Zenon, <1>2, <2>1, <2>5, <2>6, <2>7, <2>8 DEF TrackOK
<1>12. SuccessIsForRequest'
  BY Zenon, <1>1, <1>2 DEF SuccessIsForRequest
<1> QED
  BY Zenon, <1>8, <1>10, <1>11, <1>12 DEF AInv

\* A reply that does not fit its request rotates nothing and is not taken for
\* the answer of a heartbeat.
LEMMA CoreRepliesWronglyOK ==
  ASSUME AInv, NEW r \in net, CoreRepliesWrongly(r)
  PROVE  AInv'
<1> USE AttachmentAssumption
<1>1. TypesOK /\ LockOK /\ RequestOK /\ GenOK /\ ReplyOK /\ TrackOK /\ SuccessIsForRequest
  BY Zenon DEF AInv
<1>2. /\ net' = net \ {r} /\ r.op \notin Writers
      /\ UNCHANGED <<attachmentID, readers, writer, announced, blocked, pc, op, req, retired, sent>>
      /\ UNCHANGED <<core, taken, confirmed, lostTrack>>
  BY Zenon DEF CoreRepliesWrongly, lock, history
<1>3. r.id \in Nat \ {0} /\ core.last \in Nat /\ core.gen <= core.last /\ attachmentID \in Nat
  BY <1>1 DEF TypesOK, Requests, Ids, GenOK
<1> DEFINE Bad(subject, valid) == [kind |-> "ok", gen |-> core.last + 1, subject |-> subject,
                                   valid |-> valid]
<1>4. \/ replies' = [replies EXCEPT ![r.id] = Bad(0, TRUE)]
      \/ replies' = [replies EXCEPT ![r.id] = Bad(r.id, FALSE)]
  <2>1. PICK other \in {[subject |-> 0, valid |-> TRUE], [subject |-> r.id, valid |-> FALSE]} :
          replies' = [replies EXCEPT ![r.id] = Bad(other.subject, other.valid)]
    BY Zenon DEF CoreRepliesWrongly
  <2>2. CASE other = [subject |-> 0, valid |-> TRUE]
    BY <2>1, <2>2, Zenon
  <2>3. CASE other = [subject |-> r.id, valid |-> FALSE]
    BY <2>1, <2>3, Zenon
  <2> QED
    BY Zenon, <2>1, <2>2, <2>3
<1>5. PICK R \in Replies : /\ replies' = [replies EXCEPT ![r.id] = R]
                           /\ R.gen = core.last + 1 /\ ~(R.valid /\ R.subject = r.id)
  <2>1. /\ Bad(0, TRUE) \in Replies /\ Bad(0, TRUE).gen = core.last + 1
        /\ Bad(0, TRUE).subject # r.id
    BY <1>3 DEF Replies
  <2>2. /\ Bad(r.id, FALSE) \in Replies /\ Bad(r.id, FALSE).gen = core.last + 1
        /\ ~Bad(r.id, FALSE).valid
    BY <1>3 DEF Replies
  <2> HIDE DEF Bad
  <2> QED
    BY <1>4, <2>1, <2>2, Zenon
<1>6. core' \in [gen : Nat, kind : {"none", "ws", "pull"}, last : Nat] /\ core'.last >= core.last
  BY <1>1, <1>2, <1>3 DEF TypesOK
<1>7. /\ TypesOK' /\ LockOK' /\ RequestOK' /\ GenOK'
      /\ r.id \in Ids /\ replies'[r.id] = R
      /\ \A i \in Ids : i # r.id => replies'[i] = replies[i]
      /\ \A p \in Callers : Waiting(p)' <=> Waiting(p)
      /\ \A p \in Callers : Waiting(p) => req[p] \in Ids
  BY Zenon, <1>2, <1>3, <1>5, <1>6, AnswerOK
<1>8. \A p \in Callers : Waiting(p) /\ op[p] \in Writers =>
        req[p] # r.id /\ replies'[req[p]] = replies[req[p]]
  BY Zenon, <1>1, <1>2, <1>7 DEF RequestOK
<1>9. R.gen # attachmentID
  BY <1>1, <1>3, <1>5 DEF GenOK
<1>10. ReplyOK'
  <2>1. \A i \in Ids : replies'[i].kind = "ok" /\ replies'[i].valid /\ replies'[i].subject = i
                         => i \in taken'
    BY Zenon, <1>1, <1>2, <1>5, <1>7 DEF ReplyOK
  <2>2. ASSUME NEW p \in Callers, Waiting(p), replies'[req[p]].kind = "ok", op[p] = "create"
        PROVE  replies'[req[p]].gen \in 1..core.last \ retired /\ replies'[req[p]].gen >= attachmentID
    BY Zenon, <1>1, <1>8, <2>2 DEF ReplyOK, Writers
  <2>3. ASSUME NEW p \in Callers, Waiting(p), replies'[req[p]].kind = "ok", op[p] = "heartbeat",
               replies'[req[p]].valid, replies'[req[p]].gen = attachmentID
        PROVE  req[p] \in taken
    BY Zenon, <1>1, <1>7, <1>9, <2>3 DEF ReplyOK
  <2> QED
    BY Zenon, <1>2, <1>7, <2>1, <2>2, <2>3 DEF ReplyOK
<1>11. \A s \in net' : waitsFor(s)' <=> waitsFor(s)
  BY Zenon, <1>2 DEF waitsFor
<1>12. TrackOK'
  BY <1>1, <1>2, <1>7, <1>8, <1>11 DEF TrackOK, Writers
<1> QED
  BY Zenon, <1>1, <1>2, <1>7, <1>10, <1>12 DEF AInv, SuccessIsForRequest

\* What a Pull call or a heartbeat compares is enough: its success is Core's
\* acceptance of its own request.
LEMMA ConfirmOK ==
  ASSUME AInv, NEW p \in Callers, heartbeatReturns(p) \/ callReturns(p)
  PROVE  SuccessIsForRequest'
<1>1. TypesOK /\ LockOK /\ RequestOK /\ GenOK /\ ReplyOK /\ SuccessIsForRequest
  BY Zenon DEF AInv
<1> DEFINE reply == replies[req[p]]
<1>2. Waiting(p) /\ taken' = taken /\ req[p] \in Ids
  BY <1>1 DEF heartbeatReturns, callReturns, answered, Waiting, RequestOK, TypesOK, Ids
<1>3. CASE heartbeatReturns(p)
  <2>1. \/ confirmed' = confirmed
        \/ /\ confirmed' = confirmed \cup {[id |-> req[p], op |-> op[p]]} /\ op[p] = "heartbeat"
           /\ reply.kind = "ok" /\ reply.valid /\ reply.gen = attachmentID
    BY Zenon, <1>3 DEF heartbeatReturns, heartbeatAccepts
  <2> QED
    BY <1>1, <1>2, <2>1 DEF SuccessIsForRequest, ReplyOK
<1>4. CASE callReturns(p)
  <2>1. \/ confirmed' = confirmed
        \/ /\ confirmed' = confirmed \cup {[id |-> req[p], op |-> op[p]]}
           /\ callAccepts(op[p], req[p], reply) /\ op[p] \in PullCalls
    BY Zenon, <1>4 DEF callReturns
  <2>2. callAccepts(op[p], req[p], reply) /\ op[p] \in PullCalls \ {"drain", "poll"} =>
          reply.kind = "ok" /\ reply.valid /\ reply.subject = req[p]
    BY Zenon DEF callAccepts, PullCalls, claimAccepts, assignmentAccepts, spoolAccepts,
           resumeAccepts, cancelAccepts
  <2> QED
    BY <1>1, <1>2, <2>1, <2>2 DEF SuccessIsForRequest, ReplyOK
<1> QED
  BY Zenon, <1>3, <1>4

-----------------------------------------------------------------------------
(* The theorems.                                                           *)

\* Every step keeps the invariant.
LEMMA StepOK ==
  ASSUME AInv, [Next]_vars
  PROVE  AInv'
<1>1. ASSUME NEW p \in Callers, notEstablished(p) \/ outOfRequests(p)
      PROVE  AInv'
  <2>1. /\ Holds(p) /\ ~Waiting(p) /\ unlocked(p) /\ confirmed' = confirmed
        /\ UNCHANGED <<attachmentID, net, replies, core, taken, retired, sent, lostTrack>>
    BY Zenon, <1>1 DEF notEstablished, outOfRequests, Holds, Waiting, history, budgets
  <2> QED
    BY Zenon, <2>1, ReleaseOK DEF AInv, SuccessIsForRequest
<1>2. ASSUME NEW p \in Callers, createReturns(p) \/ closeReturns(p)
      PROVE  AInv'
  <2>1. UNCHANGED <<taken, confirmed>>
    BY Zenon, <1>2 DEF createReturns, closeReturns, history
  <2> QED
    BY Zenon, <1>2, <2>1, RotateOK DEF AInv, SuccessIsForRequest
<1>3. ASSUME NEW p \in Callers, heartbeatReturns(p) \/ dialReturns(p) \/ callReturns(p)
      PROVE  AInv'
  <2>1. /\ Holds(p) /\ Waiting(p) /\ unlocked(p)
        /\ op[p] \in Writers => op[p] = "dial" /\ replies[req[p]] # NoReply
        /\ UNCHANGED <<attachmentID, net, replies, core, taken, retired, sent, lostTrack>>
    BY Zenon, <1>3 DEF heartbeatReturns, dialReturns, callReturns, answered, Holds, Waiting, history,
                budgets, PullCalls, Writers
  <2>2. SuccessIsForRequest'
    <3>1. CASE dialReturns(p)
      BY Zenon, <3>1 DEF dialReturns, history, AInv, SuccessIsForRequest
    <3> QED
      BY Zenon, <1>3, <3>1, ConfirmOK
  <2> QED
    BY Zenon, <2>1, <2>2, ReleaseOK DEF AInv
<1>4. ASSUME NEW p \in Callers, abandon(p)
      PROVE  AInv'
  <2>1. /\ Holds(p) /\ Waiting(p) /\ unlocked(p) /\ confirmed' = confirmed
        /\ UNCHANGED <<attachmentID, net, replies, core, taken, retired, sent>>
        /\ lostTrack' = (lostTrack \/ op[p] \in Writers)
    BY Zenon, <1>4 DEF abandon, Holds, Waiting
  <2> QED
    BY Zenon, <2>1, ReleaseOK DEF AInv, SuccessIsForRequest
<1>5. CASE UNCHANGED vars
  <2>1. TypesOK' /\ LockOK' /\ RequestOK' /\ GenOK'
    BY <1>5 DEF AInv, vars, TypesOK, LockOK, CallerOK, Holds, RequestOK, Waiting, GenOK
  <2>2. ReplyOK' /\ TrackOK' /\ SuccessIsForRequest'
    BY Zenon, <1>5 DEF AInv, vars, ReplyOK, TrackOK, Waiting, waitsFor, SuccessIsForRequest
  <2> QED
    BY Zenon, <2>1, <2>2 DEF AInv
<1> QED
  BY Zenon, <1>1, <1>2, <1>3, <1>4, <1>5, AcquireOK, SendOK, CoreHandlesOK, CoreRepliesWronglyOK DEF Next

\* The lock, the requests on their way and the generations stay consistent.
THEOREM AttachmentInvariant == Spec => []AInv
  BY InitOK, StepOK, PTL DEF Spec

\* Whatever the outcome of a dial, no call that still waits was sent for the
\* generation that was cached before it.
THEOREM DialRetires == Spec => []DialRetiresGeneration
<1>1. AInv => DialRetiresGeneration
  BY Zenon DEF AInv, DialRetiresGeneration, waitsFor, RequestOK, GenOK, Waiting
<1> QED
  BY AttachmentInvariant, <1>1, PTL

\* A call that reports success has Core's acceptance of its own request.
THEOREM SuccessIsOwn == Spec => []SuccessIsForRequest
<1>1. AInv => SuccessIsForRequest
  BY Zenon DEF AInv
<1> QED
  BY AttachmentInvariant, <1>1, PTL

\* As long as no create, close or dial is abandoned, a call on its way carries
\* the generation that Core serves.
THEOREM CallIsCurrent == Spec => []CallKeepsGeneration
<1>1. AInv => CallKeepsGeneration
  <2> SUFFICES ASSUME AInv, NEW r \in net, waitsFor(r), r.op \notin Writers, ~lostTrack
               PROVE  r.gen = core.gen /\ core.kind = "pull"
    BY Zenon DEF CallKeepsGeneration
  <2>1. TypesOK /\ LockOK /\ RequestOK /\ TrackOK
    BY Zenon DEF AInv
  <2>2. PICK p \in Callers : Waiting(p) /\ req[p] = r.id
    BY Zenon DEF waitsFor, Waiting
  <2>3. op[p] \notin Writers /\ r.gen = attachmentID /\ attachmentID # 0
    BY Zenon, <2>1, <2>2 DEF RequestOK, Writers
  <2>4. \A q \in Callers : Waiting(q) => op[q] \notin {"create", "close"}
    BY Zenon, <2>1, <2>2, <2>3, SoleWriter DEF Waiting, Holds, Writers
  <2> QED
    BY Zenon, <2>1, <2>3, <2>4 DEF TrackOK
<1> QED
  BY AttachmentInvariant, <1>1, PTL

\* The cached generation only grows, and never becomes one that a dial retired.
THEOREM GenerationsGrow == Spec => GenerationsAdvance
<1> DEFINE A == attachmentID' # 0 => attachmentID' >= attachmentID /\ attachmentID' \notin retired
<1>1. ASSUME AInv, [Next]_vars, attachmentID' # attachmentID
      PROVE  A
  <2>1. TypesOK /\ ReplyOK /\ GenOK /\ RequestOK
    BY Zenon, <1>1 DEF AInv
  <2>2. ASSUME NEW p \in Callers, createReturns(p) PROVE A
    <3>1. /\ Waiting(p) /\ op[p] = "create" /\ replies[req[p]].kind = "ok"
          /\ attachmentID' = replies[req[p]].gen
      BY Zenon, <1>1, <2>2 DEF createReturns, answered, Waiting
    <3> QED
      BY Zenon, <2>1, <3>1 DEF ReplyOK
  <2>3. ASSUME NEW p \in Callers, closeReturns(p) \/ send(p) PROVE A
    BY Zenon, <1>1, <2>3 DEF closeReturns, send
  <2> QED
    BY Zenon, <1>1, <2>2, <2>3 DEF Next, vars, begin, RLock, announce, Lock, notEstablished, outOfRequests,
       heartbeatReturns, dialReturns, callReturns, abandon, CoreHandles, CoreRepliesWrongly
<1>2. AInv /\ [Next]_vars => [A]_attachmentID
  BY Zenon, <1>1
<1> QED
  BY AttachmentInvariant, <1>2, PTL DEF Spec, GenerationsAdvance
=============================================================================
