-------------------------- MODULE AssignmentJournal --------------------------
(***************************************************************************)
(* The assignment journal record of FileRuntimeStore and the rules that    *)
(* decide which record may follow which (runtime_store_journal.go), with   *)
(* the event acknowledgement window it carries (runtime_store_spool.go).   *)
(*                                                                         *)
(* One journal entry stands for one attempt: the assignment message ID is  *)
(* a digest of the attempt and its lease, and the store binds an attempt   *)
(* to its first message ID for good, so the two are one key here.          *)
(* Identities, digests and timestamps never change after creation and are  *)
(* left out; the empty ResultID is NoResult.                               *)
(***************************************************************************)
EXTENDS Integers, FiniteSets

CONSTANT NoResult

AssignmentStates ==
  {"absent", "received", "ack_sent", "confirmed", "started", "finished",
   "result_acked", "reject_sent", "rejected", "revoked"}

\* The transitions AdvanceAssignment and replay accept; every state that is
\* not listed as a source is terminal.
AllowedNext(current) ==
  CASE current = "received"    -> {"ack_sent", "reject_sent", "revoked"}
    [] current = "ack_sent"    -> {"confirmed", "revoked"}
    [] current = "confirmed"   -> {"started", "revoked"}
    [] current = "started"     -> {"finished", "revoked"}
    [] current = "finished"    -> {"result_acked", "revoked"}
    [] current = "reject_sent" -> {"rejected", "revoked"}
    [] OTHER                   -> {}

isAssignmentTerminal(state) == state \in {"result_acked", "rejected", "revoked"}

\* The two terminal states that may still own spool files.
HoldsSpool(state) == state \in {"result_acked", "revoked"}

NoEntry ==
  [state |-> "absent", last |-> 0, acked |-> 0, ooo |-> {},
   result |-> NoResult, final |-> 0, deleted |-> FALSE]

NewEntry == [NoEntry EXCEPT !.state = "received"]

Live(e) == e.state # "absent" /\ ~e.deleted

-----------------------------------------------------------------------------
(* The acknowledgement window: everything up to acked, and the set ooo of  *)
(* sequences acknowledged out of order above it.                           *)

eventSequenceACKed(e, n) == n <= e.acked \/ n \in e.ooo

\* The first sequence above n that is not in S, within the events allocated.
FirstGap(S, n, last) ==
  CHOOSE g \in (n + 1)..(last + 1) :
    g \notin S /\ \A m \in (n + 1)..(g - 1) : m \in S

\* Mutant: an acknowledgement of the next sequence also acknowledges the gaps.
applyEventACKOverGaps(e, n) ==
  IF n = e.acked + 1
  THEN LET top == CHOOSE t \in e.ooo \cup {n} : \A m \in e.ooo : m <= t
       IN  [e EXCEPT !.acked = top, !.ooo = {}]
  ELSE [e EXCEPT !.ooo = e.ooo \cup {n}]

\* An acknowledgement of the next sequence absorbs the run of out-of-order
\* acknowledgements that follows it; any other one is remembered in ooo.
applyEventACK(e, n) ==
  IF n = e.acked + 1
  THEN LET top == FirstGap(e.ooo, n, e.last) - 1
       IN  [e EXCEPT !.acked = top, !.ooo = {m \in e.ooo : m > top}]
  ELSE [e EXCEPT !.ooo = e.ooo \cup {n}]

-----------------------------------------------------------------------------
(* What applyJournalEntryLocked accepts, on append and on replay.          *)

validateJournalProgress(prev, next) ==
  /\ next.last >= prev.last
  /\ next.acked >= prev.acked
  /\ next.acked <= next.last
  /\ prev.result # NoResult =>
       next.result = prev.result /\ next.final = prev.final
  /\ next.result # NoResult => next.final = next.last
  /\ next.state \in {"received", "ack_sent", "confirmed", "started",
                     "reject_sent", "rejected"} =>
       next.result = NoResult /\ next.final = 0
  /\ next.state \in {"finished", "result_acked"} => next.result # NoResult
  /\ next.ooo \subseteq (next.acked + 1)..next.last
  /\ \A n \in prev.ooo : n <= next.acked \/ n \in next.ooo

applyJournalEntryAccepts(prev, next) ==
  IF prev.state = "absent"
  THEN next = NewEntry
  ELSE /\ ~prev.deleted
       /\ IF next.deleted
          THEN isAssignmentTerminal(prev.state)
          ELSE /\ next.state # prev.state => next.state \in AllowedNext(prev.state)
               /\ validateJournalProgress(prev, next)
=============================================================================
