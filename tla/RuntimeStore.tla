---------------------------- MODULE RuntimeStore ----------------------------
(***************************************************************************)
(* FileRuntimeStore: the write-ahead journal (WAL) with its snapshot, the  *)
(* spool of payload, event and result files, and the session identity, as  *)
(* one data directory that a process opens, uses, loses by a crash and     *)
(* opens again.                                                            *)
(*                                                                         *)
(* Every operation runs under store.mu, so operations never interleave     *)
(* with each other.  What does interleave is a crash or an I/O error with  *)
(* the disk writes of the operation in progress.  An operation is          *)
(* therefore one action that evaluates the code's guards and fills `work`  *)
(* with the writes it will perform; the writes are then separate steps, in *)
(* the one order that every operation of the code follows:                 *)
(*   spool file, WAL frame, snapshot, result removal, event removals (in   *)
(*   sequence order), payload removal.                                     *)
(* Calls that return an error before their first write change nothing and  *)
(* are not steps of this specification.                                    *)
(***************************************************************************)
EXTENDS AssignmentJournal, Sequences, FiniteSetsExt

CONSTANTS
  Attempts,     \* attempts the worker is ever offered
  NoAttempt,    \* no operation in progress
  Results,      \* result IDs the worker draws (random UUIDs in the code)
  MaxEvents,    \* bound: events per attempt (MaxInt64 in the code)
  MaxRecords,   \* spoolMaxRecords; every spool file counts as one record
  MaxFrames,    \* bound: WAL frames after which no operation starts
  MaxEpoch,     \* bound: sessions started (MaxInt64 in the code)
  MaxFaults     \* bound: crashes and I/O errors in one behaviour

ASSUME RuntimeStoreAssumption ==
  /\ IsFiniteSet(Attempts)
  /\ NoAttempt \notin Attempts
  /\ NoResult \notin Results
  /\ MaxEvents \in Nat
  /\ MaxRecords \in Nat
  /\ MaxFrames \in Nat
  /\ MaxEpoch \in Nat
  /\ MaxFaults \in Nat

VARIABLES
  wal,        \* disk: frame i, as its sequence number and the journal frames 1..i replay to
  torn,       \* disk: the WAL ends in an incomplete frame
  snap,       \* disk: the journal snapshot and the sequence it was taken at
  evFiles,    \* disk: event files, by attempt and sequence
  resFile,    \* disk: result file, by attempt
  payFile,    \* disk: assignment payload file, by attempt
  diskEpoch,  \* disk: session epoch of the identity file
  phase,      \* down, opening, session (epoch taken), up, refused (open failed on content)
  poisoned,   \* memory: store.poisoned is set
  jnl,        \* memory: store.entries
  seq,        \* memory: store.sequence
  evIdx,      \* memory: store.eventSeqs
  resIdx,     \* memory: store.results
  payIdx,     \* memory: store.payloads
  records,    \* memory: store.spoolRecords
  epoch,      \* memory: session epoch in use (kept while down, as history)
  work,       \* writes still to be done by the operation in progress
  faults      \* crashes and I/O errors so far

files == <<evFiles, resFile, payFile>>
disk == <<wal, torn, snap, evFiles, resFile, payFile, diskEpoch>>
index == <<evIdx, resIdx, payIdx, records>>
memory == <<jnl, seq, evIdx, resIdx, payIdx, records>>
vars == <<wal, torn, snap, evFiles, resFile, payFile, diskEpoch, phase, poisoned,
          jnl, seq, evIdx, resIdx, payIdx, records, epoch, work, faults>>

Seqs == 1..MaxEvents

\* A result file: its ID and the final event sequence sealed in it.
NoFile == [id |-> NoResult, final |-> 0]
ResultFile == [id : Results, final : 0..MaxEvents] \cup {NoFile}

Entry ==
  [state : AssignmentStates, last : 0..MaxEvents, acked : 0..MaxEvents,
   ooo : SUBSET Seqs, result : Results \cup {NoResult}, final : 0..MaxEvents,
   deleted : BOOLEAN]

Journal == [Attempts -> Entry]
EmptyJournal == [a \in Attempts |-> NoEntry]
JournalAt(n) == IF n = 0 THEN EmptyJournal ELSE wal[n].jnl
Durable == JournalAt(Len(wal))

\* The number of spool files of a directory, or of the index in memory.
SpoolRecords(ev, res, pay) ==
  Cardinality({p \in Attempts \X Seqs : p[2] \in ev[p[1]]})
    + Cardinality({a \in Attempts : res[a] # NoFile})
    + Cardinality({a \in Attempts : pay[a]})

-----------------------------------------------------------------------------
(* The operation in progress.                                              *)

Work ==
  [a : Attempts \cup {NoAttempt}, file : {"none", "event", "result", "payload"},
   entry : Entry, snap : BOOLEAN, rmResult : BOOLEAN, rmEvents : SUBSET Seqs,
   rmPayload : BOOLEAN]

NoWork ==
  [a |-> NoAttempt, file |-> "none", entry |-> NoEntry, snap |-> FALSE,
   rmResult |-> FALSE, rmEvents |-> {}, rmPayload |-> FALSE]

WorkFor(a) == [NoWork EXCEPT !.a = a]
Idle == work = NoWork

\* What is left of the work after a step: an operation with nothing left returns.
Rest(w) == IF w = WorkFor(w.a) THEN NoWork ELSE w

\* Mutant: spool files are removed before the frame that acknowledges them.
DueRemovalFirst ==
  IF work.file # "none" THEN "file"
  ELSE IF work.rmResult THEN "rmResult"
  ELSE IF work.rmEvents # {} THEN "rmEvent"
  ELSE IF work.entry # NoEntry THEN "frame"
  ELSE IF work.snap THEN "snapshot"
  ELSE IF work.rmPayload THEN "rmPayload"
  ELSE "nothing"

\* The write the operation performs next.
Due ==
  IF work.file # "none" THEN "file"
  ELSE IF work.entry # NoEntry THEN "frame"
  ELSE IF work.snap THEN "snapshot"
  ELSE IF work.rmResult THEN "rmResult"
  ELSE IF work.rmEvents # {} THEN "rmEvent"
  ELSE IF work.rmPayload THEN "rmPayload"
  ELSE "nothing"

-----------------------------------------------------------------------------
(* The effect of each write on the data directory.  atomicWriteDurable     *)
(* writes a temporary file, syncs it, renames it and syncs the directory,  *)
(* and open deletes temporaries, so a file is there or it is not.          *)

atomicWriteDurable ==
  /\ Due = "file"
  /\ evFiles' = IF work.file = "event"
                THEN [evFiles EXCEPT ![work.a] = @ \cup {work.entry.last}] ELSE evFiles
  /\ resFile' = IF work.file = "result"
                THEN [resFile EXCEPT ![work.a] =
                        [id |-> work.entry.result, final |-> work.entry.final]]
                ELSE resFile
  /\ payFile' = IF work.file = "payload"
                THEN [payFile EXCEPT ![work.a] = TRUE] ELSE payFile
  /\ UNCHANGED <<wal, torn, snap, diskEpoch>>

WriteFrame ==
  /\ Due = "frame"
  /\ wal' = Append(wal, [seq |-> seq + 1, jnl |-> [Durable EXCEPT ![work.a] = work.entry]])
  /\ UNCHANGED <<torn, snap, files, diskEpoch>>

WriteSnapshot ==
  /\ Due = "snapshot"
  /\ snap' = [seq |-> seq, jnl |-> jnl]
  /\ UNCHANGED <<wal, torn, files, diskEpoch>>

RemoveResultFile ==
  /\ Due = "rmResult"
  /\ resFile' = [resFile EXCEPT ![work.a] = NoFile]
  /\ UNCHANGED <<wal, torn, snap, evFiles, payFile, diskEpoch>>

RemoveEventFile ==
  /\ Due = "rmEvent"
  /\ evFiles' = [evFiles EXCEPT ![work.a] = @ \ {Min(work.rmEvents)}]
  /\ UNCHANGED <<wal, torn, snap, resFile, payFile, diskEpoch>>

RemovePayloadFile ==
  /\ Due = "rmPayload"
  /\ payFile' = [payFile EXCEPT ![work.a] = FALSE]
  /\ UNCHANGED <<wal, torn, snap, evFiles, resFile, diskEpoch>>

\* What a write that does not complete may leave behind: nothing, all of it,
\* or, for an appended frame, a part of it.
InterruptedWrite ==
  \/ UNCHANGED disk
  \/ atomicWriteDurable
  \/ WriteFrame
  \/ Due = "frame" /\ torn' = TRUE /\ UNCHANGED <<wal, snap, files, diskEpoch>>
  \/ WriteSnapshot
  \/ RemoveResultFile
  \/ RemoveEventFile
  \/ RemovePayloadFile

-----------------------------------------------------------------------------
(* The steps of the operation in progress: the write and what the code     *)
(* does in memory once it has succeeded.                                   *)

Running == phase \in {"opening", "up"}
Continue(w) == work' = Rest(w) /\ UNCHANGED <<phase, epoch, faults>>

StoreFile ==
  /\ Running /\ atomicWriteDurable
  /\ evIdx' = IF work.file = "event"
              THEN [evIdx EXCEPT ![work.a] = @ \cup {work.entry.last}] ELSE evIdx
  /\ resIdx' = IF work.file = "result"
               THEN [resIdx EXCEPT ![work.a] =
                       [id |-> work.entry.result, final |-> work.entry.final]]
               ELSE resIdx
  /\ payIdx' = IF work.file = "payload" THEN [payIdx EXCEPT ![work.a] = TRUE] ELSE payIdx
  /\ records' = records + 1
  /\ UNCHANGED <<jnl, seq, poisoned>>
  /\ Continue([work EXCEPT !.file = "none"])

\* The frame is on disk before the entry is checked and applied in memory; an
\* entry that memory refuses poisons the store.
appendJournalLocked ==
  /\ Running /\ WriteFrame
  /\ LET accepted == applyJournalEntryAccepts(jnl[work.a], work.entry)
     IN  /\ jnl' = IF accepted THEN [jnl EXCEPT ![work.a] = work.entry] ELSE jnl
         /\ seq' = IF accepted THEN seq + 1 ELSE seq
         /\ poisoned' = ~accepted
         /\ Continue(IF accepted
                     THEN [work EXCEPT !.entry = NoEntry, !.snap = TRUE] ELSE NoWork)
  /\ UNCHANGED index

writeJournalSnapshotLocked ==
  /\ Running /\ WriteSnapshot
  /\ UNCHANGED <<memory, poisoned>>
  /\ Continue([work EXCEPT !.snap = FALSE])

removeResultLocked ==
  /\ Running /\ RemoveResultFile
  /\ resIdx' = [resIdx EXCEPT ![work.a] = NoFile]
  /\ records' = records - 1
  /\ UNCHANGED <<jnl, seq, evIdx, payIdx, poisoned>>
  /\ Continue([work EXCEPT !.rmResult = FALSE])

removeEventLocked ==
  /\ Running /\ RemoveEventFile
  /\ evIdx' = [evIdx EXCEPT ![work.a] = @ \ {Min(work.rmEvents)}]
  /\ records' = records - 1
  /\ UNCHANGED <<jnl, seq, resIdx, payIdx, poisoned>>
  /\ Continue([work EXCEPT !.rmEvents = @ \ {Min(work.rmEvents)}])

removeAssignmentPayloadLocked ==
  /\ Running /\ RemovePayloadFile
  /\ payIdx' = [payIdx EXCEPT ![work.a] = FALSE]
  /\ records' = records - 1
  /\ UNCHANGED <<jnl, seq, evIdx, resIdx, poisoned>>
  /\ Continue([work EXCEPT !.rmPayload = FALSE])

-----------------------------------------------------------------------------
(* Crashes, I/O errors and Close.                                          *)

Forget ==
  /\ jnl' = EmptyJournal /\ seq' = 0
  /\ evIdx' = [a \in Attempts |-> {}] /\ resIdx' = [a \in Attempts |-> NoFile]
  /\ payIdx' = [a \in Attempts |-> FALSE] /\ records' = 0
  /\ poisoned' = FALSE /\ work' = NoWork /\ UNCHANGED epoch

\* The process dies, or open returns an I/O error and the process ends.
Crash ==
  /\ phase \in {"opening", "session", "up"}
  /\ faults < MaxFaults /\ faults' = faults + 1
  /\ InterruptedWrite
  /\ phase' = "down" /\ Forget

\* Mutant: a failed write of a spool file leaves the store usable.
IOErrorIgnoresFile ==
  /\ ~Idle /\ (phase = "up" \/ (phase = "opening" /\ Due = "snapshot"))
  /\ faults < MaxFaults /\ faults' = faults + 1
  /\ InterruptedWrite
  /\ poisoned' = (Due = "frame")
  /\ work' = IF Due = "snapshot" THEN Rest([work EXCEPT !.snap = FALSE]) ELSE NoWork
  /\ UNCHANGED <<memory, phase, epoch>>

\* A failed file or frame write poisons the store; a failed removal only ends
\* the operation; a failed snapshot is ignored, and the operation goes on.
IOError ==
  /\ ~Idle /\ (phase = "up" \/ (phase = "opening" /\ Due = "snapshot"))
  /\ faults < MaxFaults /\ faults' = faults + 1
  /\ InterruptedWrite
  /\ poisoned' = (Due \in {"file", "frame"})
  /\ work' = IF Due = "snapshot" THEN Rest([work EXCEPT !.snap = FALSE]) ELSE NoWork
  /\ UNCHANGED <<memory, phase, epoch>>

Close ==
  /\ phase = "up" /\ Idle
  /\ phase' = "down" /\ Forget
  /\ UNCHANGED <<disk, faults>>

-----------------------------------------------------------------------------
(* Open: replay the WAL, load the spool, reconcile the two, start a        *)
(* session, refresh the snapshot.                                          *)

FrameReplays(i) ==
  /\ wal[i].seq = i
  /\ \E a \in Attempts :
       /\ applyJournalEntryAccepts(JournalAt(i - 1)[a], wal[i].jnl[a])
       /\ wal[i].jnl = [JournalAt(i - 1) EXCEPT ![a] = wal[i].jnl[a]]

WALReplays == ~torn /\ \A i \in 1..Len(wal) : FrameReplays(i)

SnapshotMatches == snap.seq <= Len(wal) /\ snap.jnl = JournalAt(snap.seq)

openFileRuntimeStore ==
  /\ phase = "down" /\ diskEpoch < MaxEpoch
  /\ IF WALReplays /\ SnapshotMatches
     THEN /\ phase' = "opening"
          /\ jnl' = Durable /\ seq' = Len(wal)
          /\ evIdx' = evFiles /\ resIdx' = resFile /\ payIdx' = payFile
          /\ records' = SpoolRecords(evFiles, resFile, payFile)
     ELSE phase' = "refused" /\ UNCHANGED memory
  /\ UNCHANGED <<disk, poisoned, epoch, work, faults>>

Reconciling == phase = "opening" /\ Idle
Repair(w) == work' = w /\ UNCHANGED <<disk, memory, phase, poisoned, epoch, faults>>

StalePayloads == {a \in Attempts : payIdx[a] /\ jnl[a].deleted}
StaleEvents(a) ==
  IF HoldsSpool(jnl[a].state) /\ Live(jnl[a])
  THEN {n \in evIdx[a] : eventSequenceACKed(jnl[a], n)} ELSE {}
Uncounted(a) == {n \in evIdx[a] : n > jnl[a].last}

reconcileAssignmentPayloadsLocked ==
  /\ Reconciling
  /\ \E a \in StalePayloads : Repair([WorkFor(a) EXCEPT !.rmPayload = TRUE])

reconcileStaleEvent ==
  /\ Reconciling /\ StalePayloads = {}
  /\ \E a \in Attempts : \E n \in StaleEvents(a) :
       Repair([WorkFor(a) EXCEPT !.rmEvents = {n}])

SpoolLoopsDone == StalePayloads = {} /\ \A a \in Attempts : StaleEvents(a) = {}

reconcileEventCounter ==
  /\ Reconciling /\ SpoolLoopsDone
  /\ \E a \in Attempts :
       /\ Live(jnl[a]) /\ Uncounted(a) # {}
       /\ jnl[a].state = "started" /\ jnl[a].result = NoResult
       /\ Repair([WorkFor(a) EXCEPT !.entry = [jnl[a] EXCEPT !.last = Max(Uncounted(a))]])

validateEventCoverageLocked(e, ev) ==
  \A n \in (e.acked + 1)..e.last : n \in e.ooo \/ n \in ev

\* The cases of the state switch that return no error.
ResultMatchesState(e, f) ==
  CASE e.state = "started"      -> f # NoFile => f.final = e.last
    [] e.state = "finished"     -> f = [id |-> e.result, final |-> e.final]
    [] e.state = "result_acked" -> f # NoFile => f.id = e.result
    [] e.state = "revoked"      -> f # NoFile => f = [id |-> e.result, final |-> e.final]
    [] OTHER                    -> f = NoFile

\* Reconciliation has no objection to the spool of attempt a.
SpoolFits(a) ==
  /\ validateEventCoverageLocked(jnl[a], evIdx[a])
  /\ ResultMatchesState(jnl[a], resIdx[a])

reconcileFinishedResult ==
  /\ Reconciling /\ SpoolLoopsDone
  /\ \E a \in Attempts :
       /\ Live(jnl[a]) /\ Uncounted(a) = {} /\ SpoolFits(a)
       /\ jnl[a].state = "started" /\ resIdx[a] # NoFile
       /\ Repair([WorkFor(a) EXCEPT !.entry =
            [jnl[a] EXCEPT !.state = "finished", !.result = resIdx[a].id,
                           !.final = resIdx[a].final]])

reconcileAckedResult ==
  /\ Reconciling /\ SpoolLoopsDone
  /\ \E a \in Attempts :
       /\ Live(jnl[a]) /\ Uncounted(a) = {} /\ SpoolFits(a)
       /\ jnl[a].state = "result_acked" /\ resIdx[a] # NoFile
       /\ Repair([WorkFor(a) EXCEPT !.rmResult = TRUE])

\* Attempts on which reconciliation returns an error.
Inconsistent(a) ==
  \/ payIdx[a] /\ jnl[a].state = "absent"
  \/ evIdx[a] # {} /\ ~Live(jnl[a])
  \/ /\ Live(jnl[a])
     /\ \/ Uncounted(a) # {} /\ ~(jnl[a].state = "started" /\ jnl[a].result = NoResult)
        \/ Uncounted(a) = {} /\ ~SpoolFits(a)

Unrepaired(a) ==
  /\ Live(jnl[a])
  /\ \/ Uncounted(a) # {}
     \/ jnl[a].state \in {"started", "result_acked"} /\ resIdx[a] # NoFile

\* Mutant: the session reuses the epoch of the identity file.
startRuntimeSessionSameEpoch ==
  /\ Reconciling /\ SpoolLoopsDone
  /\ \A a \in Attempts : Inconsistent(a) \/ ~Unrepaired(a)
  /\ phase' = IF \E a \in Attempts : Inconsistent(a) THEN "refused" ELSE "session"
  /\ UNCHANGED <<disk, memory, poisoned, epoch, work, faults>>

\* Reconciliation ends: in an error, or in a new session whose epoch is on disk
\* before it is used.
startRuntimeSession ==
  /\ Reconciling /\ SpoolLoopsDone
  /\ \A a \in Attempts : Inconsistent(a) \/ ~Unrepaired(a)
  /\ IF \E a \in Attempts : Inconsistent(a)
     THEN phase' = "refused" /\ UNCHANGED diskEpoch
     ELSE phase' = "session" /\ diskEpoch' = diskEpoch + 1
  /\ UNCHANGED <<wal, torn, snap, files, memory, poisoned, epoch, work, faults>>

FinishOpen ==
  /\ phase = "session"
  /\ snap' = [seq |-> seq, jnl |-> jnl]
  /\ epoch' = diskEpoch
  /\ phase' = "up"
  /\ UNCHANGED <<wal, torn, files, diskEpoch, memory, poisoned, work, faults>>

-----------------------------------------------------------------------------
(* The operations of the RuntimeStore interface that write.                *)

Ready == phase = "up" /\ ~poisoned /\ Idle /\ Len(wal) < MaxFrames
Perform(w) == work' = Rest(w) /\ UNCHANGED <<disk, memory, phase, poisoned, epoch, faults>>

\* ensureSpoolWriteLocked: without room the call returns ErrRuntimeSpoolFull.
HasRoom == records + 1 <= MaxRecords

\* PendingEvents is empty.
Settled(a) == \A n \in evIdx[a] : eventSequenceACKed(jnl[a], n)

CreateAssignment(a) ==
  /\ Ready /\ jnl[a].state = "absent"
  /\ Perform([WorkFor(a) EXCEPT !.entry = NewEntry])

AdvanceAssignment(a, next) ==
  /\ Ready /\ Live(jnl[a])
  /\ next \notin {"finished", "result_acked"}
  /\ next \in AllowedNext(jnl[a].state)
  /\ Perform([WorkFor(a) EXCEPT !.entry = [jnl[a] EXCEPT !.state = next]])

StoreAssignmentPayload(a) ==
  /\ Ready /\ Live(jnl[a])
  /\ jnl[a].state \in {"received", "ack_sent", "confirmed", "started", "finished"}
  /\ ~payIdx[a] /\ HasRoom
  /\ Perform([WorkFor(a) EXCEPT !.file = "payload"])

AppendEvent(a) ==
  /\ Ready /\ jnl[a].state = "started" /\ Live(jnl[a])
  /\ jnl[a].last < MaxEvents
  /\ jnl[a].last + 1 \notin evIdx[a] /\ HasRoom
  /\ Perform([WorkFor(a) EXCEPT !.file = "event",
                                !.entry = [jnl[a] EXCEPT !.last = @ + 1]])

StoreResult(a, r) ==
  /\ Ready /\ jnl[a].state = "started" /\ Live(jnl[a])
  /\ resIdx[a] = NoFile /\ HasRoom
  /\ Perform([WorkFor(a) EXCEPT !.file = "result",
                !.entry = [jnl[a] EXCEPT !.state = "finished", !.result = r,
                                         !.final = jnl[a].last]])

\* A second acknowledgement of a terminal attempt only removes the file.
AckEvent(a, n) ==
  /\ Ready /\ Live(jnl[a]) /\ n \in evIdx[a]
  /\ LET remove == IF HoldsSpool(jnl[a].state) THEN {n} ELSE {}
     IN  Perform(IF eventSequenceACKed(jnl[a], n)
                 THEN [WorkFor(a) EXCEPT !.rmEvents = remove]
                 ELSE [WorkFor(a) EXCEPT !.entry = applyEventACK(jnl[a], n),
                                         !.rmEvents = remove])

\* Both callers, flushAttemptSpool and retireTerminalAttempt, see PendingEvents
\* empty before they acknowledge a result or clear the events of a terminal
\* attempt: Settled is their obligation, not a check of the store.
AckResult(a, r) ==
  /\ Ready /\ Live(jnl[a]) /\ Settled(a)
  /\ jnl[a].result = r
  /\ \/ jnl[a].state = "result_acked"
     \/ jnl[a].state \in {"finished", "revoked"} /\ resIdx[a].id = r
  /\ Perform([WorkFor(a) EXCEPT
                !.entry = IF jnl[a].state = "finished"
                          THEN [jnl[a] EXCEPT !.state = "result_acked"] ELSE NoEntry,
                !.rmResult = (resIdx[a] # NoFile),
                !.rmEvents = evIdx[a]])

ClearTerminalEvents(a) ==
  /\ Ready /\ Live(jnl[a]) /\ Settled(a)
  /\ HoldsSpool(jnl[a].state)
  /\ Perform([WorkFor(a) EXCEPT !.rmEvents = evIdx[a]])

\* Mutant: deletion with the result still spooled.
DeleteAssignmentKeepsResult(a) ==
  /\ Ready /\ Live(jnl[a]) /\ isAssignmentTerminal(jnl[a].state)
  /\ evIdx[a] = {}
  /\ Perform([WorkFor(a) EXCEPT !.entry = [jnl[a] EXCEPT !.deleted = TRUE],
                                !.rmPayload = payIdx[a]])

DeleteAssignment(a) ==
  /\ Ready /\ Live(jnl[a]) /\ isAssignmentTerminal(jnl[a].state)
  /\ evIdx[a] = {} /\ resIdx[a] = NoFile
  /\ Perform([WorkFor(a) EXCEPT !.entry = [jnl[a] EXCEPT !.deleted = TRUE],
                                !.rmPayload = payIdx[a]])

-----------------------------------------------------------------------------
Init ==
  /\ wal = <<>> /\ torn = FALSE /\ snap = [seq |-> 0, jnl |-> EmptyJournal]
  /\ evFiles = [a \in Attempts |-> {}] /\ resFile = [a \in Attempts |-> NoFile]
  /\ payFile = [a \in Attempts |-> FALSE] /\ diskEpoch = 0
  /\ phase = "down" /\ poisoned = FALSE
  /\ jnl = EmptyJournal /\ seq = 0
  /\ evIdx = [a \in Attempts |-> {}] /\ resIdx = [a \in Attempts |-> NoFile]
  /\ payIdx = [a \in Attempts |-> FALSE] /\ records = 0
  /\ epoch = 0 /\ work = NoWork /\ faults = 0

Operation ==
  \E a \in Attempts :
    \/ CreateAssignment(a)
    \/ \E next \in AssignmentStates : AdvanceAssignment(a, next)
    \/ StoreAssignmentPayload(a)
    \/ AppendEvent(a)
    \/ \E r \in Results : StoreResult(a, r)
    \/ \E n \in Seqs : AckEvent(a, n)
    \/ \E r \in Results : AckResult(a, r)
    \/ ClearTerminalEvents(a)
    \/ DeleteAssignment(a)

Step ==
  \/ StoreFile
  \/ appendJournalLocked
  \/ writeJournalSnapshotLocked
  \/ removeResultLocked
  \/ removeEventLocked
  \/ removeAssignmentPayloadLocked

Open ==
  \/ openFileRuntimeStore
  \/ reconcileAssignmentPayloadsLocked
  \/ reconcileStaleEvent
  \/ reconcileEventCounter
  \/ reconcileFinishedResult
  \/ reconcileAckedResult
  \/ startRuntimeSession
  \/ FinishOpen

Next == Operation \/ Step \/ Open \/ Close \/ Crash \/ IOError

Spec == Init /\ [][Next]_vars

-----------------------------------------------------------------------------
(* What the data directory says, as the next successful open will read it: *)
(* an event file above the journal counter counts, and a result file makes *)
(* a started attempt finished.                                             *)

RecoveredEntry(e, ev, f) ==
  LET counted == IF e.state = "started" THEN [e EXCEPT !.last = Max(ev \cup {@})] ELSE e
  IN  IF e.state = "started" /\ f # NoFile
      THEN [counted EXCEPT !.state = "finished", !.result = f.id, !.final = f.final]
      ELSE counted

Recovered == [a \in Attempts |-> RecoveredEntry(Durable[a], evFiles[a], resFile[a])]

\* The view of an entry that a caller of the store has: no difference is left
\* between the two ways an acknowledgement is recorded.
View(e, pay) ==
  [state |-> e.state, last |-> e.last,
   acked |-> {n \in 1..e.last : eventSequenceACKed(e, n)},
   result |-> e.result, deleted |-> e.deleted, payload |-> pay /\ ~e.deleted]

-----------------------------------------------------------------------------
(* Properties.                                                             *)

\* Every variable keeps its type (the fields of FileRuntimeStore and the
\* contents of the data directory).
TypeOK ==
  /\ wal \in Seq([seq : Nat, jnl : Journal])
  /\ torn \in BOOLEAN
  /\ snap \in [seq : Nat, jnl : Journal]
  /\ evFiles \in [Attempts -> SUBSET Seqs]
  /\ resFile \in [Attempts -> ResultFile]
  /\ payFile \in [Attempts -> BOOLEAN]
  /\ diskEpoch \in 0..MaxEpoch
  /\ phase \in {"down", "opening", "session", "up", "refused"}
  /\ poisoned \in BOOLEAN
  /\ jnl \in Journal
  /\ seq \in Nat
  /\ evIdx \in [Attempts -> SUBSET Seqs]
  /\ resIdx \in [Attempts -> ResultFile]
  /\ payIdx \in [Attempts -> BOOLEAN]
  /\ records \in Int
  /\ epoch \in 0..MaxEpoch
  /\ work \in Work
  /\ faults \in 0..MaxFaults

\* Whatever write a crash or an I/O error interrupts, openFileRuntimeStore
\* opens the directory again: replay, the snapshot comparison and
\* reconcileSpoolAndJournalLocked report corruption only when the WAL really
\* ends in an incomplete frame.
RefusedOnlyWhenTorn == phase = "refused" => torn

\* When no operation is in progress and the store is not poisoned, the state
\* that callers read from memory is the state that the next open would
\* recover: no operation returns success before its effect is durable.
MemoryIsDurable ==
  phase = "up" /\ Idle /\ ~poisoned =>
    \A a \in Attempts : View(jnl[a], payIdx[a]) = View(Recovered[a], payFile[a])

\* The record count that trackSpoolFileLocked and removeSpoolFileLocked keep
\* is the number of files the store knows, through reloads and failed
\* removals, and never exceeds the limit.
SpoolAccounting ==
  phase \in {"opening", "session", "up"} =>
    /\ records = SpoolRecords(evIdx, resIdx, payIdx)
    /\ records <= MaxRecords

\* A deleted assignment leaves no event or result file behind, and its payload
\* file does not outlive the next open.
DeletedLeavesNothing ==
  \A a \in Attempts :
    Durable[a].deleted =>
      /\ evFiles[a] = {} /\ resFile[a] = NoFile
      /\ phase = "session" => ~payFile[a]

\* Two sessions never share an epoch: startRuntimeSession makes the new epoch
\* durable before the session that uses it is up.
SessionEpochsIncrease == [][phase # "up" /\ phase' = "up" => epoch' > epoch]_vars
=============================================================================
