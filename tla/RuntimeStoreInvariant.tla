----------------------- MODULE RuntimeStoreInvariant ------------------------
(***************************************************************************)
(* The inductive invariant of RuntimeStore: its definition, the initial    *)
(* states, what it says about an open store, the disk writes, each of      *)
(* which leaves a directory that opens again, and the steps of an          *)
(* operation in progress, which keep the invariant.                        *)
(***************************************************************************)
EXTENDS RuntimeStore, TLAPS

-----------------------------------------------------------------------------
(* The inductive invariant.                                                *)

\* What every journal entry satisfies, on disk and in memory.
EntryOK(e) ==
  /\ e.state = "absent" => e = NoEntry
  /\ e.acked <= e.last
  /\ e.ooo \subseteq (e.acked + 1)..e.last
  /\ e.result # NoResult => e.final = e.last
  /\ e.state \in {"received", "ack_sent", "confirmed", "started",
                  "reject_sent", "rejected"} => e.result = NoResult /\ e.final = 0
  /\ e.state \in {"finished", "result_acked"} => e.result # NoResult

\* The spool files ev, f and p that may be on disk beside the durable entry e:
\* reconciliation repairs any such directory.
FilesOK(e, ev, f, p) ==
  /\ p => e.state # "absent"
  /\ ev # {} => Live(e)
  /\ f # NoFile => Live(e)
  /\ Live(e) =>
       /\ \A n \in ev : n <= e.last \/ (n = e.last + 1 /\ e.state = "started" /\ f = NoFile)
       /\ validateEventCoverageLocked(e, ev)
       /\ ResultMatchesState(e, f)

\* Nothing is left for reconciliation to finish.
Counted(e, ev, f) == e.state = "started" => f = NoFile /\ \A n \in ev : n <= e.last

\* The index in memory may only list more than the disk holds, and only files
\* that a failed removal has taken away.
IndexOK(a, e) ==
  /\ evFiles[a] \subseteq evIdx[a]
  /\ \A n \in evIdx[a] \ evFiles[a] : HoldsSpool(e.state) /\ eventSequenceACKed(e, n)
  /\ resIdx[a] = resFile[a] \/ (resFile[a] = NoFile /\ HoldsSpool(e.state))
  /\ payIdx[a] = payFile[a] \/ (payIdx[a] /\ e.deleted)

DiskOK ==
  /\ \A i \in 1..Len(wal) : FrameReplays(i)
  /\ SnapshotMatches
  /\ \A a \in Attempts : EntryOK(Durable[a]) /\ FilesOK(Durable[a], evFiles[a], resFile[a], payFile[a])

Opened == phase \in {"opening", "session", "up"}

MemoryOK ==
  Opened /\ ~poisoned =>
    /\ jnl = Durable /\ seq = Len(wal)
    /\ \A a \in Attempts : IndexOK(a, jnl[a])
    /\ phase # "up" => evIdx = evFiles /\ resIdx = resFile /\ payIdx = payFile
    /\ phase = "session" => \A a \in Attempts : jnl[a].deleted => ~payFile[a]

\* The entry that the attempt of the work w will have after its frame.
Target(w) == IF w.entry = NoEntry THEN jnl[w.a] ELSE w.entry

\* The spool files of the attempt once the file write of w has been done.
EventsAfter(w, ev) == IF w.file = "event" THEN ev \cup {w.entry.last} ELSE ev
ResultAfter(w, f) ==
  IF w.file = "result" THEN [id |-> w.entry.result, final |-> w.entry.final] ELSE f

\* The frame of w is one that replay accepts, and the directory it leaves is
\* one that reconciliation repairs.
FrameFits(w) ==
  w.entry # NoEntry =>
    /\ ~w.snap
    /\ applyJournalEntryAccepts(jnl[w.a], w.entry)
    /\ EntryOK(w.entry)
    /\ FilesOK(w.entry, EventsAfter(w, evFiles[w.a]), ResultAfter(w, resFile[w.a]), payFile[w.a])
    /\ HoldsSpool(jnl[w.a].state) => HoldsSpool(w.entry.state)
    /\ \A n \in evIdx[w.a] :
         eventSequenceACKed(jnl[w.a], n) => eventSequenceACKed(w.entry, n)
    /\ phase = "up" =>
         Counted(w.entry, EventsAfter(w, evIdx[w.a]), ResultAfter(w, resIdx[w.a]))

\* So does the spool file that w writes before its frame.
FileFits(w) ==
  /\ w.file # "none" =>
       Live(jnl[w.a]) /\ w.rmEvents = {} /\ ~w.rmResult /\ ~w.rmPayload
  /\ w.file = "event" =>
       /\ jnl[w.a].state = "started" /\ resFile[w.a] = NoFile
       /\ w.entry # NoEntry /\ w.entry.last = jnl[w.a].last + 1
  /\ w.file = "result" =>
       /\ jnl[w.a].state = "started"
       /\ \A n \in evFiles[w.a] : n <= jnl[w.a].last
       /\ w.entry # NoEntry
       /\ w.entry.result \in Results /\ w.entry.final = jnl[w.a].last

\* Only acknowledged events, a settled result and a dead payload are removed.
RemovalFits(w) ==
  /\ w.rmEvents # {} => HoldsSpool(Target(w).state) /\ w.rmEvents \subseteq evIdx[w.a]
  /\ \A n \in w.rmEvents : eventSequenceACKed(Target(w), n)
  /\ w.rmResult => HoldsSpool(Target(w).state)
  /\ w.rmPayload => Target(w).deleted

WorkFits(w) == w.a \in Attempts /\ FrameFits(w) /\ FileFits(w) /\ RemovalFits(w)

WorkOK == work # NoWork => Running /\ ~poisoned /\ WorkFits(work)

\* Outside recovery, only the attempt of the operation in progress may be ahead
\* of its entry.
CountedOK ==
  phase \in {"session", "up"} /\ ~poisoned =>
    \A a \in Attempts :
      (a = work.a /\ work.entry # NoEntry) \/ Counted(jnl[a], evIdx[a], resIdx[a])

PhaseOK ==
  /\ poisoned => phase = "up" /\ work = NoWork
  /\ phase \in {"opening"} => diskEpoch < MaxEpoch
  /\ phase = "refused" => torn

IInv == TypeOK /\ DiskOK /\ MemoryOK /\ WorkOK /\ CountedOK /\ PhaseOK

-----------------------------------------------------------------------------
(* Lemmas about sets of sequence numbers.                                  *)

\* Every nonempty set of naturals has a least element.  Min and FirstGap rest on
\* it; RuntimeStoreProofs proves it from the library, so that the modules below
\* take it as a hypothesis and stay clear of the library's definitions.
WellOrdered ==
  \A T \in SUBSET Nat : T # {} => \E x \in T : \A y \in T : x <= y

\* Min picks an element of the set of event files that are due for removal.
LEMMA MinInSet ==
  ASSUME WellOrdered, NEW S, S \subseteq Nat, S # {}
  PROVE  Min(S) \in S
<1>1. PICK x \in S : \A y \in S : x <= y
  BY  Zenon DEF WellOrdered
<1> QED
  BY  Zenon, <1>1 DEF Min

\* A set of naturals that contains its upper bound has it as its maximum.
LEMMA MaxIsBound ==
  ASSUME NEW S, S \subseteq Nat, NEW m \in S, \A x \in S : x <= m
  PROVE  Max(S) = m
<1>1. \A y \in S : m >= y
  BY SMT
<1>2. Max(S) \in S /\ \A y \in S : Max(S) >= y
  BY  Zenon, <1>1 DEF Max
<1>3. Max(S) <= m /\ Max(S) >= m
  BY  Zenon, <1>2
<1>4. Max(S) \in Nat /\ m \in Nat
  BY  Zenon, <1>2
<1> QED
  BY <1>3, <1>4, SMT

-----------------------------------------------------------------------------
(* Lemmas about journal entries.                                           *)

\* FirstGap finds the first sequence above n that is not acknowledged out of order.
LEMMA FirstGapFound ==
  ASSUME WellOrdered, NEW S, NEW n \in Nat, NEW last \in Nat, n <= last, S \subseteq 1..last
  PROVE  /\ FirstGap(S, n, last) \in (n + 1)..(last + 1)
         /\ FirstGap(S, n, last) \notin S
         /\ \A m \in (n + 1)..(FirstGap(S, n, last) - 1) : m \in S
<1> DEFINE T == {g \in (n + 1)..(last + 1) : g \notin S}
<1>1. last + 1 \in T
  OBVIOUS
<1>2. PICK x \in T : \A y \in T : x <= y
  <2>1. T \subseteq Nat
    OBVIOUS
  <2> HIDE DEF T
  <2> QED
    BY  Zenon, <1>1, <2>1 DEF WellOrdered
<1>3. x \in (n + 1)..(last + 1) /\ x \notin S
  BY Zenon
<1>4. \A m \in (n + 1)..(x - 1) : m \in S
  BY <1>2, <1>3
<1> QED
  BY Zenon, <1>3, <1>4 DEF FirstGap

\* The frame an acknowledgement writes: applyEventACK keeps the entry well
\* formed and accepted by replay, and only ever acknowledges more.
LEMMA AckExtends ==
  ASSUME WellOrdered, NEW e \in Entry, EntryOK(e), Live(e), NEW n \in 1..e.last,
         ~eventSequenceACKed(e, n), NEW t, t = applyEventACK(e, n)
  PROVE  /\ t \in Entry /\ EntryOK(t) /\ t # NoEntry
         /\ t.state = e.state /\ t.last = e.last /\ t.result = e.result
         /\ t.final = e.final /\ t.deleted = e.deleted
         /\ t.acked >= e.acked
         /\ \A m \in Nat : eventSequenceACKed(e, m) => eventSequenceACKed(t, m)
         /\ \A m \in Nat : eventSequenceACKed(t, m) => eventSequenceACKed(e, m) \/ m = n
         /\ eventSequenceACKed(t, n)
<1> DEFINE top == FirstGap(e.ooo, n, e.last) - 1
<1> USE RuntimeStoreAssumption
<1>1. /\ e.last \in 0..MaxEvents /\ e.acked \in 0..MaxEvents /\ e.ooo \subseteq 1..e.last
      /\ n \in Nat /\ n > e.acked /\ e.acked <= e.last
      /\ e.ooo \subseteq Nat /\ n \in Seqs /\ n \notin e.ooo
  BY DEF Entry, EntryOK, Seqs, eventSequenceACKed
<1>2. e.state # "absent"
  BY Zenon DEF Live
<1>3. CASE n = e.acked + 1
  <2>1. /\ top \in n..e.last /\ top + 1 \notin e.ooo
        /\ \A m \in (n + 1)..top : m \in e.ooo
    <3> DEFINE g == FirstGap(e.ooo, n, e.last)
    <3>1. /\ g \in (n + 1)..(e.last + 1) /\ g \notin e.ooo
          /\ \A m \in (n + 1)..(g - 1) : m \in e.ooo
      BY <1>1, FirstGapFound
    <3> HIDE DEF g
    <3>2. (g - 1) + 1 = g /\ g - 1 \in n..e.last
      BY <1>1, <3>1
    <3> QED
      BY Zenon, <3>1, <3>2 DEF g
  <2>2. t = [e EXCEPT !.acked = top, !.ooo = {m \in e.ooo : m > top}]
    BY Zenon, <1>3 DEF applyEventACK
  <2> HIDE DEF top
  <2>3. t \in Entry /\ t.acked = top /\ t.ooo = {m \in e.ooo : m > top}
    <3> DEFINE above == {m \in e.ooo : m > top}
    <3>1. top \in 0..MaxEvents /\ above \in SUBSET Seqs
      BY <1>1, <2>1 DEF Seqs
    <3> HIDE DEF above
    <3> QED
      BY  Zenon, <2>2, <3>1 DEF Entry, above
  <2>4. /\ t.state = e.state /\ t.last = e.last /\ t.result = e.result
        /\ t.final = e.final /\ t.deleted = e.deleted
    BY Zenon, <2>2 DEF Entry
  <2>5. EntryOK(t)
    BY <1>1, <1>2, <2>1, <2>3, <2>4 DEF EntryOK
  <2>7. \A m \in Nat : eventSequenceACKed(e, m) => eventSequenceACKed(t, m)
    BY <1>1, <1>3, <2>1, <2>3 DEF eventSequenceACKed
  <2>8. \A m \in Nat : eventSequenceACKed(t, m) => eventSequenceACKed(e, m) \/ m = n
    BY <1>1, <1>3, <2>1, <2>3 DEF eventSequenceACKed
  <2>9. t.acked >= e.acked /\ eventSequenceACKed(t, n)
    BY <1>1, <1>3, <2>1, <2>3 DEF eventSequenceACKed
  <2>10. t # NoEntry
    BY <1>2, <2>4 DEF NoEntry
  <2> QED
    BY Zenon, <2>3, <2>4, <2>5, <2>7, <2>8, <2>9, <2>10
<1>4. CASE n # e.acked + 1
  <2>1. t = [e EXCEPT !.ooo = e.ooo \cup {n}]
    BY Zenon, <1>4 DEF applyEventACK
  <2>2. t \in Entry /\ t.acked = e.acked /\ t.ooo = e.ooo \cup {n}
    BY <1>1, <2>1 DEF Entry
  <2>3. /\ t.state = e.state /\ t.last = e.last /\ t.result = e.result
        /\ t.final = e.final /\ t.deleted = e.deleted
    BY Zenon, <2>1 DEF Entry
  <2>4. EntryOK(t)
    BY <1>1, <1>2, <2>2, <2>3 DEF EntryOK
  <2>6. \A m \in Nat : eventSequenceACKed(e, m) => eventSequenceACKed(t, m)
    BY Zenon, <2>2 DEF eventSequenceACKed
  <2>7. \A m \in Nat : eventSequenceACKed(t, m) => eventSequenceACKed(e, m) \/ m = n
    BY Zenon, <2>2 DEF eventSequenceACKed
  <2>8. t.acked >= e.acked /\ eventSequenceACKed(t, n)
    BY <1>1, <2>2 DEF eventSequenceACKed
  <2>9. t # NoEntry
    BY <1>2, <2>3 DEF NoEntry
  <2> QED
    BY Zenon, <2>2, <2>3, <2>4, <2>6, <2>7, <2>8, <2>9
<1> QED
  BY Zenon, <1>3, <1>4

-----------------------------------------------------------------------------
(* The invariant holds initially.                                          *)

\* The empty journal record is well formed.
LEMMA NoEntryOK == NoEntry \in Entry /\ EntryOK(NoEntry)
  BY RuntimeStoreAssumption DEF NoEntry, Entry, EntryOK, AssignmentStates

\* The record CreateAssignment writes is well formed.
LEMMA NewEntryOK == NewEntry \in Entry /\ EntryOK(NewEntry) /\ NewEntry # NoEntry
<1>1. /\ NewEntry.state = "received" /\ NewEntry.last = 0 /\ NewEntry.acked = 0
      /\ NewEntry.ooo = {} /\ NewEntry.result = NoResult /\ NewEntry.final = 0
  BY Zenon DEF NewEntry, NoEntry
<1>2. NewEntry \in Entry
  BY Zenon, NoEntryOK DEF NewEntry, Entry, AssignmentStates
<1>3. EntryOK(NewEntry)
  BY <1>1 DEF EntryOK
<1>4. NewEntry # NoEntry
  BY <1>1 DEF NoEntry
<1> QED
  BY Zenon, <1>2, <1>3, <1>4

\* The idle store has well-typed work.
LEMMA NoWorkOK == NoWork \in Work
  BY Zenon, NoEntryOK DEF NoWork, Work

\* An empty data directory satisfies the invariant.
LEMMA InitOK == Init => IInv
<1> SUFFICES ASSUME Init
             PROVE  IInv
  BY Zenon
<1> USE RuntimeStoreAssumption DEF Init
<1>1. EmptyJournal \in Journal /\ \A a \in Attempts : EmptyJournal[a] = NoEntry
  BY Zenon, NoEntryOK DEF EmptyJournal, Journal
<1>2. Len(wal) = 0 /\ wal \in Seq([seq : Nat, jnl : Journal])
  OBVIOUS
<1>3. Durable = EmptyJournal
  BY Zenon, <1>2 DEF Durable, JournalAt
<1>4. TypeOK
  <2>1. snap \in [seq : Nat, jnl : Journal]
    BY Zenon, <1>1
  <2>2. resFile \in [Attempts -> ResultFile] /\ resIdx \in [Attempts -> ResultFile]
    BY Zenon DEF ResultFile
  <2>3. evFiles \in [Attempts -> SUBSET Seqs] /\ evIdx \in [Attempts -> SUBSET Seqs]
    BY Zenon
  <2>4. payFile \in [Attempts -> BOOLEAN] /\ payIdx \in [Attempts -> BOOLEAN]
    BY Zenon
  <2>5. /\ phase \in {"down", "opening", "session", "up", "refused"}
        /\ jnl \in Journal /\ seq \in Nat /\ records \in Int
        /\ diskEpoch \in 0..MaxEpoch /\ epoch \in 0..MaxEpoch /\ faults \in 0..MaxFaults
        /\ work \in Work
    BY <1>1, NoWorkOK
  <2>6. torn \in BOOLEAN /\ poisoned \in BOOLEAN
    BY Zenon
  <2> HIDE DEF Init
  <2> QED
    BY Zenon, <1>2, <2>1, <2>2, <2>3, <2>4, <2>5, <2>6 DEF TypeOK
<1>5. DiskOK
  <2>1. SnapshotMatches
    BY <1>2 DEF SnapshotMatches, JournalAt
  <2>2. \A a \in Attempts :
          EntryOK(NoEntry) /\ FilesOK(NoEntry, {}, NoFile, FALSE)
    BY Zenon, NoEntryOK DEF FilesOK, Live, NoEntry
  <2>3. \A a \in Attempts : evFiles[a] = {} /\ resFile[a] = NoFile /\ payFile[a] = FALSE
    BY Zenon
  <2>4. \A i \in 1..Len(wal) : FrameReplays(i)
    BY <1>2
  <2> HIDE DEF Init
  <2> QED
    BY <1>1, <1>3, <2>1, <2>2, <2>3, <2>4, Zenon DEF DiskOK
<1>6. MemoryOK /\ WorkOK /\ CountedOK /\ PhaseOK
  BY Zenon DEF MemoryOK, Opened, WorkOK, CountedOK, PhaseOK
<1> QED
  BY Zenon, <1>4, <1>5, <1>6 DEF IInv

-----------------------------------------------------------------------------
(* What the invariant says of one attempt while the store is open.         *)

\* While the store is open and not poisoned, memory and disk agree on the
\* attempt, up to files a failed removal took away.
LEMMA OpenFacts ==
  ASSUME IInv, Opened, ~poisoned, NEW a \in Attempts
  PROVE  /\ jnl[a] \in Entry /\ EntryOK(jnl[a]) /\ Durable[a] = jnl[a]
         /\ FilesOK(jnl[a], evFiles[a], resFile[a], payFile[a])
         /\ IndexOK(a, jnl[a])
         /\ evIdx[a] \subseteq Seqs /\ evFiles[a] \subseteq Seqs
         /\ resIdx[a] \in ResultFile /\ resFile[a] \in ResultFile
         /\ payIdx[a] \in BOOLEAN /\ payFile[a] \in BOOLEAN
<1>1. jnl = Durable /\ IndexOK(a, jnl[a])
  BY Zenon DEF IInv, MemoryOK
<1>2. EntryOK(Durable[a]) /\ FilesOK(Durable[a], evFiles[a], resFile[a], payFile[a])
  BY Zenon DEF IInv, DiskOK
<1>3. /\ jnl[a] \in Entry
      /\ evIdx[a] \subseteq Seqs /\ evFiles[a] \subseteq Seqs
      /\ resIdx[a] \in ResultFile /\ resFile[a] \in ResultFile
      /\ payIdx[a] \in BOOLEAN /\ payFile[a] \in BOOLEAN
  BY Zenon DEF IInv, TypeOK, Journal
<1> QED
  BY Zenon, <1>1, <1>2, <1>3

\* Frames that are not rewritten still replay.
LEMMA FramesUnchanged ==
  ASSUME UNCHANGED wal, \A i \in 1..Len(wal) : FrameReplays(i)
  PROVE  (\A i \in 1..Len(wal) : FrameReplays(i))'
<1>1. wal' = wal
  OBVIOUS
<1>2. ASSUME NEW i \in 1..Len(wal)
      PROVE  FrameReplays(i)'
  <2>1. JournalAt(i - 1)' = JournalAt(i - 1)
    BY Zenon, <1>1 DEF JournalAt
  <2>2. PICK a \in Attempts :
          /\ applyJournalEntryAccepts(JournalAt(i - 1)[a], wal[i].jnl[a])
          /\ wal[i].jnl = [JournalAt(i - 1) EXCEPT ![a] = wal[i].jnl[a]]
    BY Zenon DEF FrameReplays
  <2>3. wal[i].seq = i
    BY Zenon DEF FrameReplays
  <2> QED
    BY Zenon, <1>1, <2>1, <2>2, <2>3 DEF FrameReplays
<1> QED
  BY Zenon, <1>1, <1>2

\* What the directory satisfies depends on the directory alone.
LEMMA DiskFrame ==
  ASSUME DiskOK, UNCHANGED <<wal, snap, evFiles, resFile, payFile>>
  PROVE  DiskOK' /\ Durable' = Durable
<1>1. Durable' = Durable
  BY Zenon DEF Durable, JournalAt
<1>2. (\A i \in 1..Len(wal) : FrameReplays(i))'
  BY Zenon, FramesUnchanged DEF DiskOK
<1>3. SnapshotMatches'
  BY Zenon DEF DiskOK, SnapshotMatches, JournalAt
<1>4. \A a \in Attempts :
        EntryOK(Durable[a]) /\ FilesOK(Durable[a], evFiles'[a], resFile'[a], payFile'[a])
  BY Zenon DEF DiskOK
<1> QED
  BY Zenon, <1>1, <1>2, <1>3, <1>4 DEF DiskOK

\* Starting an operation or a repair only sets `work`.
LEMMA StartWork ==
  ASSUME IInv, Idle, Running, ~poisoned, NEW w \in Work, WorkFits(w),
         work' = w \/ work' = NoWork,
         UNCHANGED <<disk, memory, phase, poisoned, epoch, faults>>
  PROVE  IInv'
<1> USE DEF disk, memory
<1>1. TypeOK'
  BY Zenon, NoWorkOK DEF IInv, TypeOK
<1>2. DiskOK'
  BY Zenon, DiskFrame DEF IInv
<1>3. MemoryOK'
  BY Zenon DEF IInv, MemoryOK, Opened, IndexOK, Durable, JournalAt
<1>4. WorkOK'
  <2>1. work' = w => WorkFits(work)'
    BY  Zenon DEF WorkFits, FrameFits, FileFits, RemovalFits, Target
  <2> QED
    BY Zenon, <2>1 DEF WorkOK, Running
<1>5. CountedOK'
  <2>1. \A a \in Attempts : a # work.a
    BY Zenon, RuntimeStoreAssumption DEF Idle, NoWork
  <2> QED
    BY  Zenon, <2>1 DEF IInv, CountedOK
<1>6. PhaseOK'
  BY Zenon DEF IInv, PhaseOK
<1> QED
  BY Zenon, <1>1, <1>2, <1>3, <1>4, <1>5, <1>6 DEF IInv

-----------------------------------------------------------------------------
(* One lemma per operation: its work fits the state it starts in.          *)

\* When readyLocked lets an operation start, no attempt is ahead of its entry.
LEMMA ReadyFacts ==
  ASSUME IInv, Ready, NEW a \in Attempts
  PROVE  /\ Idle /\ Running /\ ~poisoned /\ phase = "up" /\ Opened
         /\ Counted(jnl[a], evIdx[a], resIdx[a])
         /\ a # NoAttempt
<1>1. Idle /\ Running /\ ~poisoned /\ phase = "up" /\ Opened
  BY Zenon DEF Ready, Running, Opened
<1>2. a # NoAttempt
  BY Zenon, RuntimeStoreAssumption
<1> QED
  BY Zenon, <1>1, <1>2 DEF IInv, CountedOK, Idle, NoWork

\* The steps that Perform and Repair have in common.
LEMMA PerformOK ==
  ASSUME IInv, Ready, NEW w \in Work, WorkFits(w), Perform(w)
  PROVE  IInv'
<1>1. Idle /\ Running /\ ~poisoned
  BY Zenon DEF Ready, Running
<1>2. work' = w \/ work' = NoWork
  BY Zenon DEF Perform, Rest
<1> QED
  BY Zenon, <1>1, <1>2, StartWork DEF Perform

-----------------------------------------------------------------------------
(* One lemma per disk write: it leaves a directory that opens again.       *)

DiskTypeOK ==
  /\ wal \in Seq([seq : Nat, jnl : Journal])
  /\ torn \in BOOLEAN
  /\ snap \in [seq : Nat, jnl : Journal]
  /\ evFiles \in [Attempts -> SUBSET Seqs]
  /\ resFile \in [Attempts -> ResultFile]
  /\ payFile \in [Attempts -> BOOLEAN]
  /\ diskEpoch \in 0..MaxEpoch

\* What the invariant says of the attempt of the operation in progress.
LEMMA WorkFacts ==
  ASSUME IInv, work # NoWork
  PROVE  /\ Running /\ Opened /\ ~poisoned /\ work \in Work /\ work.a \in Attempts
         /\ FrameFits(work) /\ FileFits(work) /\ RemovalFits(work)
         /\ jnl = Durable /\ seq = Len(wal)
<1>1. Running /\ ~poisoned /\ WorkFits(work) /\ work \in Work
  BY Zenon DEF IInv, WorkOK, TypeOK
<1>2. Opened
  BY Zenon, <1>1 DEF Running, Opened
<1> QED
  BY Zenon, <1>1, <1>2 DEF WorkFits, IInv, MemoryOK

\* Due names a write that the work in progress contains.
LEMMA DueFacts ==
  ASSUME Due # "nothing"
  PROVE  work # NoWork
  BY DEF Due, NoWork

\* A write of spool files alone keeps the journal, and with it DiskOK, when the
\* files of the attempt still fit.
LEMMA FilesWritten ==
  ASSUME IInv, NEW a \in Attempts, UNCHANGED <<wal, torn, snap, diskEpoch>>,
         DiskTypeOK',
         FilesOK(Durable[a], evFiles'[a], resFile'[a], payFile'[a]),
         \A b \in Attempts \ {a} :
           /\ evFiles'[b] = evFiles[b] /\ resFile'[b] = resFile[b]
           /\ payFile'[b] = payFile[b]
  PROVE  DiskOK'
<1>1. Durable' = Durable /\ \A i \in Nat : JournalAt(i)' = JournalAt(i)
  BY Zenon DEF Durable, JournalAt
<1>2. (\A i \in 1..Len(wal) : FrameReplays(i))'
  BY Zenon, FramesUnchanged DEF IInv, DiskOK
<1>3. SnapshotMatches'
  BY Zenon DEF IInv, DiskOK, SnapshotMatches, JournalAt
<1>4. \A b \in Attempts :
        EntryOK(Durable[b]) /\ FilesOK(Durable[b], evFiles'[b], resFile'[b], payFile'[b])
  BY Zenon DEF IInv, DiskOK
<1> QED
  BY Zenon, <1>1, <1>2, <1>3, <1>4 DEF DiskOK

\* A spool file written ahead of its frame is one reconciliation can explain.
LEMMA FileWriteDisk ==
  ASSUME IInv, atomicWriteDurable
  PROVE  DiskOK' /\ DiskTypeOK'
<1> DEFINE a == work.a
           e == jnl[a]
<1>1. Due = "file" /\ work # NoWork /\ work.file # "none"
  BY Zenon, DueFacts DEF atomicWriteDurable, Due
<1>2. /\ a \in Attempts /\ FileFits(work) /\ Opened /\ ~poisoned /\ work \in Work
  BY Zenon, <1>1, WorkFacts
<1>3. /\ e \in Entry /\ EntryOK(e) /\ Durable[a] = e
      /\ FilesOK(e, evFiles[a], resFile[a], payFile[a])
      /\ evFiles[a] \subseteq Seqs
  BY Zenon, <1>2, OpenFacts
<1>4. DiskTypeOK
  BY Zenon DEF IInv, TypeOK, DiskTypeOK
<1>5. work.file \in {"event", "result", "payload"} /\ work.entry \in Entry /\ Live(e)
  BY Zenon, <1>1, <1>2 DEF Work, FileFits
<1> HIDE DEF e
<1>6. CASE work.file = "event"
  <2> DEFINE n == work.entry.last
  <2>1. e.state = "started" /\ resFile[a] = NoFile /\ n = e.last + 1
    BY Zenon, <1>2, <1>6 DEF FileFits, e
  <2>2. n \in Seqs
    BY <1>3, <1>5, <2>1 DEF Entry, Seqs
  <2> HIDE DEF n, a
  <2>3. evFiles' = [evFiles EXCEPT ![a] = @ \cup {n}] /\ resFile' = resFile /\ payFile' = payFile
    BY Zenon, <1>6 DEF atomicWriteDurable, n, a
  <2>4. DiskTypeOK'
    BY <1>2, <1>4, <2>2, <2>3 DEF DiskTypeOK, atomicWriteDurable, a
  <2>5. FilesOK(e, evFiles[a] \cup {n}, resFile[a], payFile[a])
    <3>1. validateEventCoverageLocked(e, evFiles[a] \cup {n})
      BY Zenon, <1>3, <1>5 DEF FilesOK, validateEventCoverageLocked
    <3> QED
      BY Zenon, <1>3, <1>5, <2>1, <3>1 DEF FilesOK
  <2>6. evFiles'[a] = evFiles[a] \cup {n}
    BY Zenon, <1>2, <1>4, <2>3 DEF DiskTypeOK, a
  <2>7. \A b \in Attempts \ {a} : evFiles'[b] = evFiles[b]
    BY Zenon, <1>4, <2>3 DEF DiskTypeOK
  <2> QED
    BY  Zenon, <1>2, <1>3, <2>3, <2>4, <2>5, <2>6, <2>7, FilesWritten DEF atomicWriteDurable, a
<1>7. CASE work.file = "result"
  <2> DEFINE f == [id |-> work.entry.result, final |-> work.entry.final]
  <2>1. /\ e.state = "started" /\ work.entry.result \in Results
        /\ work.entry.final = e.last /\ \A n \in evFiles[a] : n <= e.last
    BY Zenon, <1>2, <1>7 DEF FileFits, e
  <2>2. f \in ResultFile /\ f.final = e.last /\ f # NoFile
    BY Zenon, <1>5, <2>1, RuntimeStoreAssumption DEF ResultFile, Entry, NoFile
  <2> HIDE DEF f, a
  <2>3. resFile' = [resFile EXCEPT ![a] = f] /\ evFiles' = evFiles /\ payFile' = payFile
    BY Zenon, <1>7 DEF atomicWriteDurable, f, a
  <2>4. DiskTypeOK'
    BY <1>2, <1>4, <2>2, <2>3 DEF DiskTypeOK, atomicWriteDurable, a
  <2>5. FilesOK(e, evFiles[a], f, payFile[a])
    <3>1. ResultMatchesState(e, f)
      BY Zenon, <2>1, <2>2 DEF ResultMatchesState
    <3> QED
      BY Zenon, <1>3, <1>5, <2>1, <3>1 DEF FilesOK
  <2>6. resFile'[a] = f
    BY Zenon, <1>2, <1>4, <2>3 DEF DiskTypeOK, a
  <2>7. \A b \in Attempts \ {a} : resFile'[b] = resFile[b]
    BY Zenon, <1>4, <2>3 DEF DiskTypeOK
  <2> QED
    BY  Zenon, <1>2, <1>3, <2>3, <2>4, <2>5, <2>6, <2>7, FilesWritten DEF atomicWriteDurable, a
<1>8. CASE work.file = "payload"
  <2> HIDE DEF a
  <2>1. payFile' = [payFile EXCEPT ![a] = TRUE] /\ evFiles' = evFiles /\ resFile' = resFile
    BY Zenon, <1>8 DEF atomicWriteDurable, a
  <2>2. DiskTypeOK'
    BY Zenon, <1>2, <1>4, <2>1 DEF DiskTypeOK, atomicWriteDurable, a
  <2>3. FilesOK(e, evFiles[a], resFile[a], payFile'[a])
    BY Zenon, <1>3, <1>5 DEF FilesOK, Live
  <2>4. \A b \in Attempts \ {a} : payFile'[b] = payFile[b]
    BY Zenon, <1>4, <2>1 DEF DiskTypeOK
  <2> QED
    BY  Zenon, <1>2, <1>3, <2>1, <2>2, <2>3, <2>4, FilesWritten DEF atomicWriteDurable, a
<1> QED
  BY Zenon, <1>5, <1>6, <1>7, <1>8

\* The appended frame replays and matches the spool written before it.
LEMMA FrameWriteDisk ==
  ASSUME IInv, WriteFrame
  PROVE  /\ DiskOK' /\ DiskTypeOK'
         /\ Durable' = [Durable EXCEPT ![work.a] = work.entry]
         /\ Len(wal') = Len(wal) + 1
<1> DEFINE a == work.a
           t == work.entry
           D == [Durable EXCEPT ![a] = t]
           frame == [seq |-> seq + 1, jnl |-> D]
<1>1. work # NoWork /\ work.file = "none" /\ t # NoEntry
  BY Zenon, DueFacts DEF WriteFrame, Due
<1>2. /\ a \in Attempts /\ FrameFits(work) /\ work \in Work
      /\ jnl = Durable /\ seq = Len(wal)
  BY Zenon, <1>1, WorkFacts
<1>3. DiskTypeOK /\ jnl \in Journal /\ t \in Entry
  BY Zenon, <1>2 DEF IInv, TypeOK, DiskTypeOK, Work
<1>4. /\ Durable \in Journal /\ D \in Journal /\ D[a] = t
      /\ \A b \in Attempts \ {a} : D[b] = Durable[b]
  BY Zenon, <1>2, <1>3 DEF Journal
<1>5. wal' = Append(wal, frame) /\ UNCHANGED <<torn, snap, evFiles, resFile, payFile, diskEpoch>>
  BY Zenon DEF WriteFrame, files
<1>6. Len(wal) \in Nat /\ wal \in Seq([seq : Nat, jnl : Journal])
  BY <1>3 DEF DiskTypeOK
<1> HIDE DEF D
<1>7. frame \in [seq : Nat, jnl : Journal] /\ frame.seq = Len(wal) + 1 /\ frame.jnl = D
  BY <1>2, <1>4, <1>6
<1> HIDE DEF frame
<1>8. /\ wal' \in Seq([seq : Nat, jnl : Journal])
      /\ Len(wal') = Len(wal) + 1 /\ wal'[Len(wal) + 1] = frame
      /\ \A i \in 1..Len(wal) : wal'[i] = wal[i]
  BY <1>5, <1>6, <1>7
<1>9. Durable' = D
  BY <1>6, <1>7, <1>8 DEF Durable, JournalAt
<1>10. \A i \in 0..Len(wal) : JournalAt(i)' = JournalAt(i)
  BY <1>6, <1>8 DEF JournalAt
<1>11. DiskTypeOK'
  BY Zenon, <1>3, <1>5, <1>8 DEF DiskTypeOK
<1>12. ASSUME NEW i \in 1..Len(wal')
       PROVE  FrameReplays(i)'
  <2>1. CASE i \in 1..Len(wal)
    <3>1. FrameReplays(i)
      BY Zenon, <2>1 DEF IInv, DiskOK
    <3>2. JournalAt(i - 1)' = JournalAt(i - 1) /\ wal'[i] = wal[i]
      BY <1>6, <1>8, <1>10, <2>1
    <3> QED
      BY Zenon, <3>1, <3>2 DEF FrameReplays
  <2>2. CASE i = Len(wal) + 1
    <3>1. JournalAt(i - 1)' = Durable /\ wal'[i] = frame
      BY <1>6, <1>8, <1>10, <2>2 DEF Durable
    <3>2. applyJournalEntryAccepts(Durable[a], D[a])
      BY Zenon, <1>1, <1>2, <1>4 DEF FrameFits
    <3>3. D = [Durable EXCEPT ![a] = D[a]]
      BY  Zenon, <1>4 DEF D
    <3> QED
      BY Zenon, <1>2, <1>7, <2>2, <3>1, <3>2, <3>3 DEF FrameReplays
  <2> QED
    BY <1>6, <1>8, <2>1, <2>2
<1>13. SnapshotMatches'
  <2>1. snap.seq \in 0..Len(wal) /\ snap.jnl = JournalAt(snap.seq)
    BY <1>3, <1>6 DEF IInv, DiskOK, SnapshotMatches, DiskTypeOK
  <2> QED
    BY <1>5, <1>6, <1>8, <1>10, <2>1 DEF SnapshotMatches
<1>14. ASSUME NEW b \in Attempts
       PROVE  EntryOK(D[b]) /\ FilesOK(D[b], evFiles[b], resFile[b], payFile[b])
  <2>1. CASE b = a
    <3>1. EntryOK(t) /\ FilesOK(t, evFiles[a], resFile[a], payFile[a])
      BY Zenon, <1>1, <1>2 DEF FrameFits, EventsAfter, ResultAfter
    <3> QED
      BY Zenon, <1>4, <2>1, <3>1
  <2>2. CASE b # a
    BY Zenon, <1>4, <2>2 DEF IInv, DiskOK
  <2> QED
    BY Zenon, <2>1, <2>2
<1>15. DiskOK'
  BY Zenon, <1>5, <1>9, <1>12, <1>13, <1>14 DEF DiskOK
<1> QED
  BY Zenon, <1>8, <1>9, <1>11, <1>15 DEF D

\* A snapshot taken from memory is one that the WAL replays to.
LEMMA SnapshotWriteDisk ==
  ASSUME IInv, WriteSnapshot
  PROVE  DiskOK' /\ DiskTypeOK'
<1>1. jnl = Durable /\ seq = Len(wal)
  BY Zenon, DueFacts, WorkFacts DEF WriteSnapshot
<1>2. wal \in Seq([seq : Nat, jnl : Journal]) /\ jnl \in Journal /\ seq \in Nat /\ DiskTypeOK
  BY Zenon DEF IInv, TypeOK, DiskTypeOK
<1>3. /\ UNCHANGED <<wal, torn, evFiles, resFile, payFile, diskEpoch>>
      /\ snap' = [seq |-> seq, jnl |-> jnl]
  BY Zenon DEF WriteSnapshot, files
<1>4. (\A i \in 1..Len(wal) : FrameReplays(i))'
  BY Zenon, <1>3, FramesUnchanged DEF IInv, DiskOK
<1>5. Durable' = Durable
  BY Zenon, <1>3 DEF Durable, JournalAt
<1>6. SnapshotMatches'
  BY <1>1, <1>2, <1>3 DEF SnapshotMatches, Durable, JournalAt
<1>7. DiskTypeOK'
  BY Zenon, <1>2, <1>3 DEF DiskTypeOK
<1>8. DiskOK'
  BY Zenon, <1>3, <1>4, <1>5, <1>6 DEF IInv, DiskOK
<1> QED
  BY Zenon, <1>7, <1>8

\* The removals: the work has no frame left, so its target is the entry on disk.
LEMMA RemovalFacts ==
  ASSUME IInv, Due \in {"rmResult", "rmEvent", "rmPayload"}
  PROVE  /\ work # NoWork /\ work.a \in Attempts /\ work.entry = NoEntry /\ work.file = "none"
         /\ Target(work) = jnl[work.a] /\ Durable[work.a] = jnl[work.a]
         /\ RemovalFits(work) /\ Opened /\ ~poisoned /\ DiskTypeOK /\ ~work.snap
<1>1. work # NoWork /\ work.entry = NoEntry /\ work.file = "none" /\ ~work.snap
  BY Zenon, DueFacts DEF Due
<1> QED
  BY Zenon, <1>1, WorkFacts DEF Target, IInv, TypeOK, DiskTypeOK

\* A terminal attempt may lose its result file.
LEMMA ResultRemovalDisk ==
  ASSUME IInv, RemoveResultFile
  PROVE  DiskOK' /\ DiskTypeOK'
<1> DEFINE a == work.a
           e == jnl[a]
<1>1. work.rmResult /\ Due = "rmResult"
  BY Zenon DEF RemoveResultFile, Due
<1>2. /\ a \in Attempts /\ Durable[a] = e /\ HoldsSpool(e.state)
      /\ Opened /\ ~poisoned /\ DiskTypeOK
  BY Zenon, <1>1, RemovalFacts DEF RemovalFits
<1>3. FilesOK(e, evFiles[a], resFile[a], payFile[a])
  BY Zenon, <1>2, OpenFacts
<1> HIDE DEF a, e
<1>4. /\ resFile' = [resFile EXCEPT ![a] = NoFile]
      /\ UNCHANGED <<wal, torn, snap, evFiles, payFile, diskEpoch>>
  BY Zenon DEF RemoveResultFile, a
<1>5. DiskTypeOK'
  BY Zenon, <1>2, <1>4 DEF DiskTypeOK, ResultFile
<1>6. resFile'[a] = NoFile /\ \A b \in Attempts \ {a} : resFile'[b] = resFile[b]
  BY Zenon, <1>2, <1>4 DEF DiskTypeOK
<1>7. FilesOK(e, evFiles[a], NoFile, payFile[a])
  BY Zenon, <1>2, <1>3 DEF FilesOK, ResultMatchesState, HoldsSpool
<1> QED
  BY Zenon, <1>2, <1>4, <1>5, <1>6, <1>7, FilesWritten

\* A terminal attempt may lose an acknowledged event file.
LEMMA EventRemovalDisk ==
  ASSUME WellOrdered, IInv, RemoveEventFile
  PROVE  /\ DiskOK' /\ DiskTypeOK'
         /\ Min(work.rmEvents) \in work.rmEvents
<1> DEFINE a == work.a
           e == jnl[a]
           n == Min(work.rmEvents)
<1>1. work.rmEvents # {} /\ Due = "rmEvent"
  BY Zenon DEF RemoveEventFile, Due
<1>2. /\ a \in Attempts /\ Durable[a] = e
      /\ work.rmEvents \subseteq evIdx[a]
      /\ \A m \in work.rmEvents : eventSequenceACKed(e, m)
      /\ Opened /\ ~poisoned /\ DiskTypeOK
  BY Zenon, <1>1, RemovalFacts DEF RemovalFits
<1>3. /\ FilesOK(e, evFiles[a], resFile[a], payFile[a]) /\ e \in Entry
      /\ evIdx[a] \subseteq Seqs
  BY Zenon, <1>2, OpenFacts
<1>4. n \in work.rmEvents
  BY  SMTT(30), <1>1, <1>2, <1>3, MinInSet DEF Seqs
<1> HIDE DEF a, e, n
<1>5. /\ evFiles' = [evFiles EXCEPT ![a] = @ \ {n}]
      /\ UNCHANGED <<wal, torn, snap, resFile, payFile, diskEpoch>>
  BY Zenon DEF RemoveEventFile, a, n
<1>6. DiskTypeOK'
  BY Zenon, <1>2, <1>5 DEF DiskTypeOK
<1>7. evFiles'[a] = evFiles[a] \ {n} /\ \A b \in Attempts \ {a} : evFiles'[b] = evFiles[b]
  BY Zenon, <1>2, <1>5 DEF DiskTypeOK
<1>8. FilesOK(e, evFiles[a] \ {n}, resFile[a], payFile[a])
  <2>1. eventSequenceACKed(e, n)
    BY Zenon, <1>2, <1>4
  <2>2. Live(e) => validateEventCoverageLocked(e, evFiles[a] \ {n})
    BY <1>3, <2>1 DEF FilesOK, validateEventCoverageLocked, eventSequenceACKed, Entry
  <2> QED
    BY Zenon, <1>3, <2>2 DEF FilesOK
<1> QED
  BY  Zenon, <1>2, <1>4, <1>5, <1>6, <1>7, <1>8, FilesWritten DEF n

\* A payload file may go at any time once the attempt is deleted.
LEMMA PayloadRemovalDisk ==
  ASSUME IInv, RemovePayloadFile
  PROVE  DiskOK' /\ DiskTypeOK'
<1> DEFINE a == work.a
           e == jnl[a]
<1>1. Due = "rmPayload"
  BY Zenon DEF RemovePayloadFile
<1>2. a \in Attempts /\ Durable[a] = e /\ Opened /\ ~poisoned /\ DiskTypeOK
  BY Zenon, <1>1, RemovalFacts
<1>3. FilesOK(e, evFiles[a], resFile[a], payFile[a])
  BY Zenon, <1>2, OpenFacts
<1> HIDE DEF a, e
<1>4. /\ payFile' = [payFile EXCEPT ![a] = FALSE]
      /\ UNCHANGED <<wal, torn, snap, evFiles, resFile, diskEpoch>>
  BY Zenon DEF RemovePayloadFile, a
<1>5. DiskTypeOK'
  BY Zenon, <1>2, <1>4 DEF DiskTypeOK
<1>6. ~payFile'[a]
  BY Zenon, <1>2, <1>4 DEF DiskTypeOK
<1>7. \A b \in Attempts \ {a} : payFile'[b] = payFile[b]
  BY Zenon, <1>2, <1>4 DEF DiskTypeOK
<1>8. FilesOK(e, evFiles[a], resFile[a], payFile'[a])
  BY Zenon, <1>3, <1>6 DEF FilesOK
<1> QED
  BY  Zenon, <1>2, <1>4, <1>5, <1>7, <1>8, FilesWritten

\* Whatever an interrupted write leaves, the directory is one that opens again
\* or its WAL is torn.
LEMMA InterruptedDisk ==
  ASSUME WellOrdered, IInv, InterruptedWrite
  PROVE  DiskOK' /\ DiskTypeOK' /\ (torn => torn')
<1>1. DiskTypeOK /\ DiskOK
  BY Zenon DEF IInv, TypeOK, DiskTypeOK
<1>2. CASE UNCHANGED disk
  <2>1. (\A i \in 1..Len(wal) : FrameReplays(i))'
    BY Zenon, <1>1, <1>2, FramesUnchanged DEF DiskOK, disk
  <2>2. DiskOK'
    BY Zenon, <1>1, <1>2, <2>1 DEF DiskOK, disk, SnapshotMatches, Durable, JournalAt
  <2> QED
    BY Zenon, <1>1, <1>2, <2>2 DEF DiskTypeOK, disk
<1>3. CASE Due = "frame" /\ torn' = TRUE /\ UNCHANGED <<wal, snap, files, diskEpoch>>
  <2>1. (\A i \in 1..Len(wal) : FrameReplays(i))'
    BY Zenon, <1>1, <1>3, FramesUnchanged DEF DiskOK
  <2>2. DiskOK'
    BY Zenon, <1>1, <1>3, <2>1 DEF DiskOK, files, SnapshotMatches, Durable, JournalAt
  <2> QED
    BY Zenon, <1>1, <1>3, <2>2 DEF DiskTypeOK, files
<1>4. CASE atomicWriteDurable
  BY Zenon, <1>4, FileWriteDisk DEF atomicWriteDurable
<1>5. CASE WriteFrame
  BY Zenon, <1>5, FrameWriteDisk DEF WriteFrame
<1>6. CASE WriteSnapshot
  BY Zenon, <1>6, SnapshotWriteDisk DEF WriteSnapshot
<1>7. CASE RemoveResultFile
  BY Zenon, <1>7, ResultRemovalDisk DEF RemoveResultFile
<1>8. CASE RemoveEventFile
  BY Zenon, <1>8, EventRemovalDisk DEF RemoveEventFile
<1>9. CASE RemovePayloadFile
  BY Zenon, <1>9, PayloadRemovalDisk DEF RemovePayloadFile
<1> QED
  BY  Zenon, <1>2, <1>3, <1>4, <1>5, <1>6, <1>7, <1>8, <1>9 DEF InterruptedWrite

-----------------------------------------------------------------------------
(* One lemma per step of the operation in progress.                        *)

\* What remains of an operation is the rest of its work, or nothing.
LEMMA RestOf ==
  ASSUME NEW w \in Work
  PROVE  Rest(w) = w \/ Rest(w) = NoWork
  BY Zenon DEF Rest

\* The parts of the invariant that a step leaves to prove: it is taken while the
\* store is running, and the disk has been dealt with above.
LEMMA StepFrame ==
  ASSUME IInv, Running, DiskOK', DiskTypeOK', UNCHANGED <<phase, epoch, diskEpoch>>,
         UNCHANGED faults \/ faults' \in 0..MaxFaults,
         ~poisoned', poisoned' \in BOOLEAN,
         jnl' \in Journal, seq' \in Nat, records' \in Int,
         evIdx' \in [Attempts -> SUBSET Seqs], resIdx' \in [Attempts -> ResultFile],
         payIdx' \in [Attempts -> BOOLEAN], NEW w \in Work, work' = Rest(w),
         jnl' = Durable', seq' = Len(wal)',
         \A a \in Attempts : IndexOK(a, jnl[a])',
         phase # "up" => evIdx' = evFiles' /\ resIdx' = resFile' /\ payIdx' = payFile',
         WorkFits(work)' \/ work' = NoWork,
         CountedOK'
  PROVE  IInv'
<1>1. work' \in Work
  BY Zenon, RestOf, NoWorkOK
<1>2. TypeOK'
  BY Zenon, <1>1 DEF IInv, TypeOK, DiskTypeOK
<1>3. MemoryOK'
  BY Zenon DEF MemoryOK, Running
<1>4. WorkOK'
  BY Zenon DEF WorkOK, Running
<1>5. PhaseOK'
  BY Zenon DEF IInv, PhaseOK, Running
<1> QED
  BY Zenon, <1>2, <1>3, <1>4, <1>5 DEF IInv

\* What is left of the work of an operation when its file has been written.
LEMMA StoreFileOK ==
  ASSUME IInv, StoreFile
  PROVE  IInv'
<1> DEFINE a == work.a
           e == jnl[a]
           w == [work EXCEPT !.file = "none"]
<1>1. /\ Running /\ atomicWriteDurable /\ work' = Rest(w)
      /\ UNCHANGED <<jnl, seq, poisoned, phase, epoch, faults, wal, torn, snap, diskEpoch>>
      /\ records' = records + 1
  BY Zenon DEF StoreFile, Continue, atomicWriteDurable
<1>2. work # NoWork /\ work.file # "none"
  BY Zenon, <1>1, DueFacts DEF atomicWriteDurable, Due
<1>3. /\ a \in Attempts /\ work \in Work /\ ~poisoned /\ Opened
      /\ FrameFits(work) /\ FileFits(work) /\ jnl = Durable /\ seq = Len(wal)
  BY Zenon, <1>2, WorkFacts
<1>4. /\ e \in Entry /\ EntryOK(e) /\ IndexOK(a, e) /\ evIdx[a] \subseteq Seqs
  BY Zenon, <1>3, OpenFacts
<1>5. TypeOK /\ MemoryOK /\ CountedOK
  BY Zenon DEF IInv
<1>6. DiskOK' /\ DiskTypeOK'
  BY Zenon, <1>1, FileWriteDisk
<1>7. /\ w \in Work /\ w.a = a /\ w.file = "none" /\ w.entry = work.entry /\ w.snap = work.snap
      /\ w.rmEvents = {} /\ ~w.rmResult /\ ~w.rmPayload
  BY Zenon, <1>2, <1>3 DEF Work, FileFits
<1>8. work.file \in {"event", "result", "payload"} /\ work.entry \in Entry
  BY Zenon, <1>2, <1>3 DEF Work
<1> DEFINE n == work.entry.last
           f == [id |-> work.entry.result, final |-> work.entry.final]
<1>9. work.file = "event" => n \in Seqs /\ n = e.last + 1
  BY <1>3, <1>4, <1>8 DEF FileFits, Entry, Seqs
<1>10. work.file = "result" => f \in ResultFile
  BY Zenon, <1>3, <1>8 DEF FileFits, ResultFile, Entry
<1>11. /\ evIdx' = IF work.file = "event" THEN [evIdx EXCEPT ![a] = @ \cup {n}] ELSE evIdx
       /\ evFiles' = IF work.file = "event" THEN [evFiles EXCEPT ![a] = @ \cup {n}] ELSE evFiles
       /\ resIdx' = IF work.file = "result" THEN [resIdx EXCEPT ![a] = f] ELSE resIdx
       /\ resFile' = IF work.file = "result" THEN [resFile EXCEPT ![a] = f] ELSE resFile
       /\ payIdx' = IF work.file = "payload" THEN [payIdx EXCEPT ![a] = TRUE] ELSE payIdx
       /\ payFile' = IF work.file = "payload" THEN [payFile EXCEPT ![a] = TRUE] ELSE payFile
  BY Zenon DEF StoreFile, atomicWriteDurable
<1>12. /\ evIdx' \in [Attempts -> SUBSET Seqs] /\ resIdx' \in [Attempts -> ResultFile]
       /\ payIdx' \in [Attempts -> BOOLEAN] /\ records' \in Int
  <2> HIDE DEF n, f, a
  <2>1. evIdx' \in [Attempts -> SUBSET Seqs]
    BY Zenon, <1>3, <1>5, <1>9, <1>11 DEF TypeOK
  <2>2. resIdx' \in [Attempts -> ResultFile]
    BY Zenon, <1>3, <1>5, <1>10, <1>11 DEF TypeOK
  <2>3. payIdx' \in [Attempts -> BOOLEAN]
    BY Zenon, <1>3, <1>5, <1>11 DEF TypeOK
  <2>4. records' \in Int
    BY <1>1, <1>5 DEF TypeOK
  <2> QED
    BY Zenon, <2>1, <2>2, <2>3, <2>4
<1>13. phase # "up" => evIdx' = evFiles' /\ resIdx' = resFile' /\ payIdx' = payFile'
  <2> HIDE DEF n, f, a
  <2> QED
    BY Zenon, <1>3, <1>5, <1>11 DEF MemoryOK
<1>14. /\ evIdx'[a] = EventsAfter(work, evIdx[a]) /\ evFiles'[a] = EventsAfter(work, evFiles[a])
       /\ resIdx'[a] = ResultAfter(work, resIdx[a]) /\ resFile'[a] = ResultAfter(work, resFile[a])
  <2> HIDE DEF n, f, a
  <2>1. evIdx'[a] = IF work.file = "event" THEN evIdx[a] \cup {n} ELSE evIdx[a]
    BY Zenon, <1>3, <1>5, <1>11 DEF TypeOK
  <2>2. evFiles'[a] = IF work.file = "event" THEN evFiles[a] \cup {n} ELSE evFiles[a]
    BY Zenon, <1>3, <1>5, <1>11 DEF TypeOK
  <2>3. resIdx'[a] = IF work.file = "result" THEN f ELSE resIdx[a]
    BY Zenon, <1>3, <1>5, <1>11 DEF TypeOK
  <2>4. resFile'[a] = IF work.file = "result" THEN f ELSE resFile[a]
    BY Zenon, <1>3, <1>5, <1>11 DEF TypeOK
  <2> QED
    BY Zenon, <2>1, <2>2, <2>3, <2>4 DEF EventsAfter, ResultAfter, n, f
<1>15. \A b \in Attempts \ {a} :
         /\ evIdx'[b] = evIdx[b] /\ evFiles'[b] = evFiles[b] /\ resIdx'[b] = resIdx[b]
         /\ resFile'[b] = resFile[b] /\ payIdx'[b] = payIdx[b] /\ payFile'[b] = payFile[b]
  <2> HIDE DEF n, f, a
  <2> QED
    BY Zenon, <1>5, <1>11 DEF TypeOK
<1>16. payIdx'[a] = payFile'[a] \/ (payIdx'[a] /\ e.deleted)
  <2> HIDE DEF n, f, a, e
  <2> QED
    BY  Zenon, <1>3, <1>4, <1>5, <1>11 DEF TypeOK, IndexOK
<1> HIDE DEF a, e, w, f, n
<1>17. jnl' = Durable' /\ seq' = Len(wal)'
  BY Zenon, <1>1, <1>3 DEF Durable, JournalAt
<1>18. ASSUME NEW b \in Attempts
       PROVE  IndexOK(b, jnl[b])'
  <2>1. CASE b = a
    <3>1. evFiles'[a] \subseteq evIdx'[a]
      BY Zenon, <1>4, <1>14 DEF IndexOK, EventsAfter
    <3>2. \A m \in evIdx'[a] \ evFiles'[a] : HoldsSpool(e.state) /\ eventSequenceACKed(e, m)
      BY Zenon, <1>4, <1>14 DEF IndexOK, EventsAfter
    <3>3. resIdx'[a] = resFile'[a] \/ (resFile'[a] = NoFile /\ HoldsSpool(e.state))
      BY Zenon, <1>4, <1>14 DEF IndexOK, ResultAfter
    <3> QED
      BY Zenon, <1>1, <1>16, <2>1, <3>1, <3>2, <3>3 DEF IndexOK, e
  <2>2. CASE b # a
    BY <1>1, <1>3, <1>15, <2>2, OpenFacts DEF IndexOK
  <2> QED
    BY Zenon, <2>1, <2>2
<1>19. ASSUME work' = w
       PROVE  WorkFits(work)'
  <2>1. FrameFits(work)'
    <3> SUFFICES ASSUME work.entry # NoEntry
                 PROVE  FrameFits(work)'
      BY Zenon, <1>7, <1>19 DEF FrameFits
    <3>1. /\ ~work.snap /\ applyJournalEntryAccepts(e, work.entry) /\ EntryOK(work.entry)
          /\ FilesOK(work.entry, evFiles'[a], resFile'[a], payFile[a])
          /\ HoldsSpool(e.state) => HoldsSpool(work.entry.state)
          /\ \A m \in evIdx[a] : eventSequenceACKed(e, m) => eventSequenceACKed(work.entry, m)
          /\ phase = "up" => Counted(work.entry, evIdx'[a], resIdx'[a])
      BY Zenon, <1>3, <1>14 DEF FrameFits, a, e
    <3>2. work.entry.state # "absent"
      BY Zenon, <3>1 DEF EntryOK
    <3>3. FilesOK(work.entry, evFiles'[a], resFile'[a], payFile'[a])
      BY Zenon, <3>1, <3>2 DEF FilesOK
    <3>4. \A m \in evIdx'[a] : eventSequenceACKed(e, m) => eventSequenceACKed(work.entry, m)
      <4>1. work.file = "event" => ~eventSequenceACKed(e, n)
        BY <1>4, <1>9 DEF EntryOK, Entry, eventSequenceACKed
      <4> QED
        BY Zenon, <1>14, <3>1, <4>1 DEF EventsAfter, n
    <3>5. /\ EventsAfter(w, evFiles'[a]) = evFiles'[a] /\ ResultAfter(w, resFile'[a]) = resFile'[a]
          /\ EventsAfter(w, evIdx'[a]) = evIdx'[a] /\ ResultAfter(w, resIdx'[a]) = resIdx'[a]
      BY Zenon, <1>7 DEF EventsAfter, ResultAfter
    <3> QED
      BY Zenon, <1>1, <1>7, <1>19, <3>1, <3>3, <3>4, <3>5 DEF FrameFits, EventsAfter, ResultAfter, e
  <2>2. FileFits(work)'
    BY Zenon, <1>7, <1>19 DEF FileFits
  <2>3. RemovalFits(work)'
    BY Zenon, <1>7, <1>19 DEF RemovalFits
  <2> QED
    BY Zenon, <1>3, <1>7, <1>19, <2>1, <2>2, <2>3 DEF WorkFits
<1>20. work' = w \/ work' = NoWork
  BY Zenon, <1>1, <1>7, RestOf
<1>21. work.entry # NoEntry => work' = w
  BY Zenon, <1>1, <1>7 DEF Rest, WorkFor, NoWork
<1>22. CountedOK'
  <2> SUFFICES ASSUME phase = "up", NEW b \in Attempts
               PROVE  (b = work'.a /\ work'.entry # NoEntry) \/ Counted(jnl[b], evIdx'[b], resIdx'[b])
    BY Zenon, <1>1 DEF CountedOK, Running
  <2>1. CASE b = a
    <3>1. CASE work.entry # NoEntry
      BY Zenon, <1>7, <1>21, <2>1, <3>1
    <3>2. CASE work.entry = NoEntry
      <4>1. work.file = "payload"
        BY Zenon, <1>3, <1>8, <3>2 DEF FileFits
      <4>2. evIdx'[a] = evIdx[a] /\ resIdx'[a] = resIdx[a]
        BY Zenon, <1>14, <4>1 DEF EventsAfter, ResultAfter
      <4> QED
        BY Zenon, <1>3, <1>5, <2>1, <3>2, <4>2 DEF CountedOK
    <3> QED
      BY Zenon, <3>1, <3>2
  <2>2. CASE b # a
    BY Zenon, <1>3, <1>5, <1>15, <2>2 DEF CountedOK, a
  <2> QED
    BY Zenon, <2>1, <2>2
<1>23. jnl' \in Journal /\ seq' \in Nat /\ ~poisoned' /\ poisoned' \in BOOLEAN
  BY Zenon, <1>1, <1>3, <1>5 DEF TypeOK
<1> QED
  BY Zenon, <1>1, <1>6, <1>7, <1>12, <1>13, <1>17, <1>18, <1>19, <1>20, <1>22, <1>23, StepFrame

\* appendJournalLocked: memory accepts every frame the operations write.
LEMMA AppendJournalOK ==
  ASSUME IInv, appendJournalLocked
  PROVE  IInv'
<1> DEFINE a == work.a
           e == jnl[a]
           t == work.entry
           w == [work EXCEPT !.entry = NoEntry, !.snap = TRUE]
<1>1. Running /\ WriteFrame
  BY Zenon DEF appendJournalLocked
<1>2. work # NoWork /\ work.file = "none" /\ t # NoEntry
  BY Zenon, <1>1, DueFacts DEF WriteFrame, Due
<1>3. /\ a \in Attempts /\ work \in Work /\ ~poisoned /\ Opened
      /\ FrameFits(work) /\ RemovalFits(work) /\ jnl = Durable /\ seq = Len(wal)
  BY Zenon, <1>2, WorkFacts
<1>4. applyJournalEntryAccepts(e, t)
  BY Zenon, <1>2, <1>3 DEF FrameFits
<1>5. /\ jnl' = [jnl EXCEPT ![a] = t] /\ seq' = seq + 1 /\ poisoned' = FALSE
      /\ work' = Rest(w)
      /\ UNCHANGED <<evIdx, resIdx, payIdx, records, phase, epoch, faults>>
      /\ UNCHANGED <<torn, snap, evFiles, resFile, payFile, diskEpoch>>
  BY <1>4, Zenon DEF appendJournalLocked, WriteFrame, Continue, index, files
<1>6. /\ DiskOK' /\ DiskTypeOK' /\ Durable' = [Durable EXCEPT ![a] = t]
      /\ Len(wal') = Len(wal) + 1
  BY Zenon, <1>1, FrameWriteDisk
<1>7. TypeOK /\ MemoryOK /\ CountedOK
  BY Zenon DEF IInv
<1>8. t \in Entry
  BY Zenon, <1>3 DEF Work
<1>9. /\ w \in Work /\ w.a = a /\ w.file = "none" /\ w.entry = NoEntry /\ w.snap = TRUE
      /\ w.rmEvents = work.rmEvents /\ w.rmResult = work.rmResult /\ w.rmPayload = work.rmPayload
  BY  Zenon, <1>2, <1>3, NoEntryOK DEF Work
<1> HIDE DEF w
<1>10. work' = w
  BY Zenon, <1>5, <1>9 DEF Rest, WorkFor, NoWork
<1> HIDE DEF a, e, t
<1>11. /\ jnl' \in Journal /\ seq' \in Nat /\ jnl' = Durable' /\ seq' = Len(wal)'
       /\ jnl'[a] = t /\ \A b \in Attempts \ {a} : jnl'[b] = jnl[b]
  BY <1>3, <1>5, <1>6, <1>7, <1>8 DEF TypeOK, Journal
<1>12. ~poisoned' /\ poisoned' \in BOOLEAN
  BY <1>5, Zenon
<1>13. IndexOK(a, e) /\ e = jnl[a]
  BY Zenon, <1>3, OpenFacts DEF e
<1>14. /\ HoldsSpool(e.state) => HoldsSpool(t.state)
       /\ \A n \in evIdx[a] : eventSequenceACKed(e, n) => eventSequenceACKed(t, n)
       /\ phase = "up" => Counted(t, evIdx[a], resIdx[a])
       /\ e.deleted => FALSE
  <2>1. FrameFits(work) /\ EventsAfter(work, evIdx[a]) = evIdx[a]
                        /\ ResultAfter(work, resIdx[a]) = resIdx[a]
    BY Zenon, <1>2, <1>3 DEF EventsAfter, ResultAfter
  <2>2. e.deleted => FALSE
    <3>1. e.state = "absent" => e = NoEntry
      BY Zenon, <1>3, <1>13, OpenFacts DEF EntryOK
    <3> QED
      BY <1>4, <3>1 DEF applyJournalEntryAccepts, NoEntry
  <2> QED
    BY Zenon, <1>2, <2>1, <2>2 DEF FrameFits, a, e, t
<1>15. ASSUME NEW b \in Attempts
       PROVE  IndexOK(b, jnl[b])'
  <2>1. CASE b = a
    BY Zenon, <1>5, <1>11, <1>13, <1>14, <2>1 DEF IndexOK
  <2>2. CASE b # a
    BY Zenon, <1>3, <1>5, <1>11, <2>2, OpenFacts DEF IndexOK
  <2> QED
    BY Zenon, <2>1, <2>2
<1>16. WorkFits(work)'
  <2>1. RemovalFits(work)'
    <3>1. Target(work) = t
      BY Zenon, <1>2 DEF Target, t
    <3>2. Target(work)' = t
      BY Zenon, <1>9, <1>10, <1>11 DEF Target
    <3> QED
      BY Zenon, <1>3, <1>5, <1>9, <1>10, <3>1, <3>2 DEF RemovalFits, a
  <2> QED
    BY  Zenon, <1>3, <1>9, <1>10, <2>1 DEF WorkFits, FrameFits, FileFits
<1>17. CountedOK'
  <2> SUFFICES ASSUME phase = "up", NEW b \in Attempts
               PROVE  Counted(jnl'[b], evIdx[b], resIdx[b])
    BY Zenon, <1>1, <1>5 DEF CountedOK, Running
  <2>1. CASE b = a
    BY Zenon, <1>11, <1>14, <2>1
  <2>2. CASE b # a
    BY Zenon, <1>3, <1>7, <1>11, <2>2 DEF CountedOK, a
  <2> QED
    BY Zenon, <2>1, <2>2
<1>18. /\ records' \in Int /\ evIdx' \in [Attempts -> SUBSET Seqs]
       /\ resIdx' \in [Attempts -> ResultFile] /\ payIdx' \in [Attempts -> BOOLEAN]
  BY Zenon, <1>5, <1>7 DEF TypeOK
<1>19. phase # "up" => evIdx' = evFiles' /\ resIdx' = resFile' /\ payIdx' = payFile'
  BY Zenon, <1>3, <1>5, <1>7 DEF MemoryOK
<1> QED
  BY  Zenon, <1>1, <1>5, <1>6, <1>9, <1>11, <1>12, <1>15, <1>16, <1>17, <1>18, <1>19, StepFrame

\* writeJournalSnapshotLocked changes the snapshot only.
LEMMA WriteSnapshotOK ==
  ASSUME IInv, writeJournalSnapshotLocked
  PROVE  IInv'
<1> DEFINE w == [work EXCEPT !.snap = FALSE]
<1>1. /\ Running /\ WriteSnapshot /\ work' = Rest(w)
      /\ UNCHANGED <<jnl, seq, evIdx, resIdx, payIdx, records, poisoned, phase, epoch, faults>>
      /\ UNCHANGED <<wal, torn, evFiles, resFile, payFile, diskEpoch>>
  BY Zenon DEF writeJournalSnapshotLocked, Continue, memory, WriteSnapshot, files
<1>2. work # NoWork /\ work.file = "none" /\ work.entry = NoEntry
  BY Zenon, <1>1, DueFacts DEF WriteSnapshot, Due
<1>3. /\ work.a \in Attempts /\ work \in Work /\ ~poisoned /\ Opened
      /\ RemovalFits(work) /\ jnl = Durable /\ seq = Len(wal)
  BY Zenon, <1>2, WorkFacts
<1>4. DiskOK' /\ DiskTypeOK' /\ TypeOK /\ MemoryOK /\ CountedOK
  BY Zenon, <1>1, SnapshotWriteDisk DEF IInv
<1>5. /\ w \in Work /\ w.a = work.a /\ w.file = "none" /\ w.entry = NoEntry
      /\ w.rmEvents = work.rmEvents /\ w.rmResult = work.rmResult /\ w.rmPayload = work.rmPayload
  BY  Zenon, <1>2, <1>3 DEF Work
<1> HIDE DEF w
<1>6. jnl' = Durable' /\ seq' = Len(wal)'
  BY Zenon, <1>1, <1>3 DEF Durable, JournalAt
<1>7. \A b \in Attempts : IndexOK(b, jnl[b])'
  BY Zenon, <1>1, <1>3, OpenFacts DEF IndexOK
<1>8. ASSUME work' = w
      PROVE  WorkFits(work)'
  <2>1. RemovalFits(work)'
    BY Zenon, <1>1, <1>2, <1>3, <1>5, <1>8 DEF RemovalFits, Target
  <2> QED
    BY Zenon, <1>3, <1>5, <1>8, <2>1 DEF WorkFits, FrameFits, FileFits
<1>9. WorkFits(work)' \/ work' = NoWork
  BY Zenon, <1>1, <1>5, <1>8, RestOf
<1>10. CountedOK'
  BY Zenon, <1>1, <1>2, <1>4 DEF CountedOK
<1> QED
  BY Zenon, <1>1, <1>3, <1>4, <1>5, <1>6, <1>7, <1>9, <1>10, StepFrame DEF TypeOK, MemoryOK

\* The removals have this much in common: one attempt loses files on disk and
\* the same ones in memory, and the journal is not touched.
LEMMA RemovalStep ==
  ASSUME IInv, Running, Due \in {"rmResult", "rmEvent", "rmPayload"}, DiskOK', DiskTypeOK',
         UNCHANGED <<jnl, seq, poisoned, phase, epoch, faults, wal, torn, snap, diskEpoch>>,
         records' \in Int, evIdx' \in [Attempts -> SUBSET Seqs],
         resIdx' \in [Attempts -> ResultFile], payIdx' \in [Attempts -> BOOLEAN],
         phase # "up" => evIdx' = evFiles' /\ resIdx' = resFile' /\ payIdx' = payFile',
         \A b \in Attempts : IndexOK(b, jnl[b])',
         \A b \in Attempts : evIdx'[b] \subseteq evIdx[b],
         \A b \in Attempts : resIdx'[b] = resIdx[b] \/ resIdx'[b] = NoFile,
         NEW w \in Work, work' = Rest(w), w.a = work.a, w.file = "none", w.entry = NoEntry,
         w.rmEvents \subseteq work.rmEvents, w.rmEvents \subseteq evIdx'[work.a],
         w.rmResult => work.rmResult, w.rmPayload => work.rmPayload
  PROVE  IInv'
<1>1. /\ work # NoWork /\ work.a \in Attempts /\ work.entry = NoEntry
      /\ Target(work) = jnl[work.a] /\ RemovalFits(work) /\ Opened /\ ~poisoned
  BY Zenon, RemovalFacts
<1>2. jnl = Durable /\ seq = Len(wal) /\ TypeOK /\ CountedOK
  BY Zenon, <1>1, WorkFacts DEF IInv
<1>3. jnl' = Durable' /\ seq' = Len(wal)'
  BY Zenon, <1>2 DEF Durable, JournalAt
<1>4. ASSUME work' = w
      PROVE  WorkFits(work)'
  <2>1. Target(work)' = Target(work)
    BY Zenon, <1>1, <1>4 DEF Target
  <2>2. RemovalFits(work)'
    BY Zenon, <1>1, <1>4, <2>1 DEF RemovalFits
  <2> QED
    BY  Zenon, <1>1, <1>4, <2>2 DEF WorkFits, FrameFits, FileFits
<1>5. WorkFits(work)' \/ work' = NoWork
  BY Zenon, <1>4, RestOf
<1>6. CountedOK'
  BY Zenon, <1>1, <1>2 DEF CountedOK, Counted
<1> QED
  BY Zenon, <1>1, <1>2, <1>3, <1>5, <1>6, StepFrame DEF TypeOK

\* removeResultLocked: file and index lose the result together.
LEMMA RemoveResultOK ==
  ASSUME IInv, removeResultLocked
  PROVE  IInv'
<1> DEFINE a == work.a
           w == [work EXCEPT !.rmResult = FALSE]
<1>1. /\ Running /\ RemoveResultFile /\ Due = "rmResult" /\ work' = Rest(w)
      /\ UNCHANGED <<jnl, seq, evIdx, payIdx, poisoned, phase, epoch, faults>>
      /\ UNCHANGED <<wal, torn, snap, evFiles, payFile, diskEpoch>>
      /\ resIdx' = [resIdx EXCEPT ![a] = NoFile] /\ resFile' = [resFile EXCEPT ![a] = NoFile]
      /\ records' = records - 1
  BY Zenon DEF removeResultLocked, RemoveResultFile, Continue
<1>2. DiskOK' /\ DiskTypeOK'
  BY Zenon, <1>1, ResultRemovalDisk
<1>3. /\ work # NoWork /\ a \in Attempts /\ work.entry = NoEntry /\ work.file = "none"
      /\ RemovalFits(work) /\ Opened /\ ~poisoned /\ TypeOK /\ MemoryOK
  BY Zenon, <1>1, RemovalFacts DEF IInv
<1>4. work \in Work
  BY Zenon, <1>3 DEF TypeOK
<1>5. /\ w \in Work /\ w.a = a /\ w.file = "none" /\ w.entry = NoEntry
      /\ w.rmEvents = work.rmEvents /\ w.rmResult = FALSE /\ w.rmPayload = work.rmPayload
  BY  Zenon, <1>3, <1>4 DEF Work
<1> HIDE DEF a, w
<1>6. work.rmEvents \subseteq evIdx[a]
  BY  Zenon, <1>3 DEF RemovalFits, a
<1>7. NoFile \in ResultFile
  BY Zenon DEF ResultFile
<1>8. /\ records' \in Int /\ evIdx' \in [Attempts -> SUBSET Seqs]
      /\ resIdx' \in [Attempts -> ResultFile] /\ payIdx' \in [Attempts -> BOOLEAN]
  BY <1>1, <1>3, <1>7 DEF TypeOK
<1>9. phase # "up" => evIdx' = evFiles' /\ resIdx' = resFile' /\ payIdx' = payFile'
  BY Zenon, <1>1, <1>3 DEF MemoryOK
<1>10. \A b \in Attempts :
         /\ resIdx'[b] = IF b = a THEN NoFile ELSE resIdx[b]
         /\ resFile'[b] = IF b = a THEN NoFile ELSE resFile[b]
  BY Zenon, <1>1, <1>3 DEF TypeOK
<1>11. ASSUME NEW b \in Attempts
       PROVE  IndexOK(b, jnl[b])'
  <2>1. IndexOK(b, jnl[b])
    BY  Zenon, <1>3, OpenFacts
  <2>2. /\ jnl'[b] = jnl[b] /\ evIdx'[b] = evIdx[b] /\ evFiles'[b] = evFiles[b]
        /\ payIdx'[b] = payIdx[b] /\ payFile'[b] = payFile[b]
    BY  Zenon, <1>1
  <2>3. resIdx'[b] = resFile'[b] \/ (resFile'[b] = NoFile /\ HoldsSpool(jnl[b].state))
    BY Zenon, <1>10, <2>1 DEF IndexOK
  <2> QED
    BY Zenon, <2>1, <2>2, <2>3 DEF IndexOK
<1> QED
  BY Zenon, <1>1, <1>2, <1>5, <1>6, <1>8, <1>9, <1>10, <1>11, RemovalStep DEF a

\* removeEventLocked: file and index lose the event together.
LEMMA RemoveEventOK ==
  ASSUME WellOrdered, IInv, removeEventLocked
  PROVE  IInv'
<1> DEFINE a == work.a
           n == Min(work.rmEvents)
           w == [work EXCEPT !.rmEvents = @ \ {n}]
<1>1. /\ Running /\ RemoveEventFile /\ Due = "rmEvent" /\ work' = Rest(w)
      /\ UNCHANGED <<jnl, seq, resIdx, payIdx, poisoned, phase, epoch, faults>>
      /\ UNCHANGED <<wal, torn, snap, resFile, payFile, diskEpoch>>
      /\ evIdx' = [evIdx EXCEPT ![a] = @ \ {n}] /\ evFiles' = [evFiles EXCEPT ![a] = @ \ {n}]
      /\ records' = records - 1
  BY Zenon DEF removeEventLocked, RemoveEventFile, Continue
<1>2. DiskOK' /\ DiskTypeOK'
  BY Zenon, <1>1, EventRemovalDisk
<1>3. /\ work # NoWork /\ a \in Attempts /\ work.entry = NoEntry /\ work.file = "none"
      /\ RemovalFits(work) /\ Opened /\ ~poisoned /\ TypeOK /\ MemoryOK
  BY Zenon, <1>1, RemovalFacts DEF IInv
<1>4. work \in Work
  BY Zenon, <1>3 DEF TypeOK
<1> HIDE DEF n
<1>5. /\ w \in Work /\ w.a = a /\ w.file = "none" /\ w.entry = NoEntry
      /\ w.rmEvents = work.rmEvents \ {n} /\ w.rmResult = work.rmResult
      /\ w.rmPayload = work.rmPayload
  BY Zenon, <1>3, <1>4 DEF Work
<1> HIDE DEF a, w
<1>6. work.rmEvents \subseteq evIdx[a]
  BY Zenon, <1>3 DEF RemovalFits, a
<1>7. /\ records' \in Int /\ evIdx' \in [Attempts -> SUBSET Seqs]
      /\ resIdx' \in [Attempts -> ResultFile] /\ payIdx' \in [Attempts -> BOOLEAN]
  BY <1>1, <1>3 DEF TypeOK
<1>8. phase # "up" => evIdx' = evFiles' /\ resIdx' = resFile' /\ payIdx' = payFile'
  BY Zenon, <1>1, <1>3 DEF MemoryOK
<1>9. \A b \in Attempts :
        /\ evIdx'[b] = IF b = a THEN evIdx[b] \ {n} ELSE evIdx[b]
        /\ evFiles'[b] = IF b = a THEN evFiles[b] \ {n} ELSE evFiles[b]
  BY  Zenon, <1>1, <1>3 DEF TypeOK
<1>10. ASSUME NEW b \in Attempts
       PROVE  IndexOK(b, jnl[b])'
  <2>1. IndexOK(b, jnl[b])
    BY Zenon, <1>3, OpenFacts
  <2>2. /\ evFiles'[b] \subseteq evIdx'[b]
        /\ \A m \in evIdx'[b] \ evFiles'[b] : m \in evIdx[b] \ evFiles[b]
    BY  Zenon, <1>9, <2>1 DEF IndexOK
  <2> QED
    BY Zenon, <1>1, <2>1, <2>2 DEF IndexOK
<1>11. w.rmEvents \subseteq evIdx'[a]
  BY  Zenon, <1>3, <1>5, <1>6, <1>9
<1> QED
  BY  Zenon, <1>1, <1>2, <1>5, <1>7, <1>8, <1>9, <1>10, <1>11, RemovalStep DEF a

\* removeAssignmentPayloadLocked: file and index lose the payload together.
LEMMA RemovePayloadOK ==
  ASSUME IInv, removeAssignmentPayloadLocked
  PROVE  IInv'
<1> DEFINE a == work.a
           w == [work EXCEPT !.rmPayload = FALSE]
<1>1. /\ Running /\ RemovePayloadFile /\ Due = "rmPayload" /\ work' = Rest(w)
      /\ UNCHANGED <<jnl, seq, evIdx, resIdx, poisoned, phase, epoch, faults>>
      /\ UNCHANGED <<wal, torn, snap, evFiles, resFile, diskEpoch>>
      /\ payIdx' = [payIdx EXCEPT ![a] = FALSE] /\ payFile' = [payFile EXCEPT ![a] = FALSE]
      /\ records' = records - 1
  BY Zenon DEF removeAssignmentPayloadLocked, RemovePayloadFile, Continue
<1>2. DiskOK' /\ DiskTypeOK'
  BY Zenon, <1>1, PayloadRemovalDisk
<1>3. /\ work # NoWork /\ a \in Attempts /\ work.entry = NoEntry /\ work.file = "none"
      /\ RemovalFits(work) /\ Opened /\ ~poisoned /\ TypeOK /\ MemoryOK
  BY Zenon, <1>1, RemovalFacts DEF IInv
<1>4. work \in Work
  BY Zenon, <1>3 DEF TypeOK
<1>5. /\ w \in Work /\ w.a = a /\ w.file = "none" /\ w.entry = NoEntry
      /\ w.rmEvents = work.rmEvents /\ w.rmResult = work.rmResult /\ w.rmPayload = FALSE
  BY  Zenon, <1>3, <1>4 DEF Work
<1> HIDE DEF a, w
<1>6. work.rmEvents \subseteq evIdx[a]
  BY Zenon, <1>3 DEF RemovalFits, a
<1>7. /\ records' \in Int /\ evIdx' \in [Attempts -> SUBSET Seqs]
      /\ resIdx' \in [Attempts -> ResultFile] /\ payIdx' \in [Attempts -> BOOLEAN]
  BY <1>1, <1>3 DEF TypeOK
<1>8. phase # "up" => evIdx' = evFiles' /\ resIdx' = resFile' /\ payIdx' = payFile'
  BY Zenon, <1>1, <1>3 DEF MemoryOK
<1>9. /\ \A b \in Attempts \ {a} : payIdx'[b] = payIdx[b] /\ payFile'[b] = payFile[b]
      /\ payIdx'[a] = payFile'[a]
  BY Zenon, <1>1, <1>3 DEF TypeOK
<1>10. ASSUME NEW b \in Attempts
       PROVE  IndexOK(b, jnl[b])'
  <2>1. IndexOK(b, jnl[b])
    BY Zenon, <1>3, OpenFacts
  <2>2. /\ jnl'[b] = jnl[b] /\ evIdx'[b] = evIdx[b] /\ evFiles'[b] = evFiles[b]
        /\ resIdx'[b] = resIdx[b] /\ resFile'[b] = resFile[b]
    BY Zenon, <1>1
  <2>3. payIdx'[b] = payFile'[b] \/ (payIdx'[b] /\ jnl[b].deleted)
    BY Zenon, <1>9, <2>1 DEF IndexOK
  <2> QED
    BY  Zenon, <2>1, <2>2, <2>3 DEF IndexOK
<1> QED
  BY  Zenon, <1>1, <1>2, <1>5, <1>6, <1>7, <1>8, <1>10, RemovalStep DEF a

\* Every write of the operation in progress keeps the invariant.
LEMMA StepOK == WellOrdered /\ IInv /\ Step => IInv'
  BY Zenon, StoreFileOK, AppendJournalOK, WriteSnapshotOK, RemoveResultOK, RemoveEventOK, RemovePayloadOK
  DEF Step

=============================================================================
