------------------------- MODULE RuntimeStoreSteps --------------------------
(***************************************************************************)
(* The operations of the RuntimeStore interface, crashes, I/O errors,      *)
(* Close, and the repairs and the new session of an open keep the          *)
(* invariant of RuntimeStore.                                              *)
(***************************************************************************)
EXTENDS RuntimeStoreInvariant

-----------------------------------------------------------------------------
(* The operations.                                                         *)

\* CreateAssignment: the first frame of an attempt that has no files.
LEMMA CreateAssignmentOK ==
  ASSUME IInv, NEW a \in Attempts, CreateAssignment(a)
  PROVE  IInv'
<1> DEFINE w == [WorkFor(a) EXCEPT !.entry = NewEntry]
<1>1. Ready /\ Perform(w) /\ jnl[a].state = "absent"
  BY Zenon DEF CreateAssignment
<1>2. Opened /\ ~poisoned
  BY Zenon, <1>1, ReadyFacts
<1>3. NewEntry \in Entry /\ EntryOK(NewEntry) /\ NewEntry # NoEntry
  BY Zenon, NewEntryOK
<1>4. /\ w.a = a /\ w.file = "none" /\ w.entry = NewEntry /\ w.rmEvents = {}
      /\ w.snap = FALSE /\ w.rmResult = FALSE /\ w.rmPayload = FALSE /\ w \in Work
  BY  Zenon, <1>3 DEF WorkFor, NoWork, Work
<1> HIDE DEF w
<1>5. jnl[a] = NoEntry /\ evFiles[a] = {} /\ evIdx[a] = {} /\ resFile[a] = NoFile /\ ~payFile[a]
  BY Zenon, <1>1, <1>2, OpenFacts DEF EntryOK, FilesOK, IndexOK, Live, HoldsSpool
<1>6. resIdx[a] = NoFile
  BY Zenon, <1>1, <1>2, <1>5, OpenFacts DEF IndexOK, HoldsSpool
<1>7. FilesOK(NewEntry, {}, NoFile, payFile[a])
  BY <1>5 DEF FilesOK, NewEntry, NoEntry, Live, validateEventCoverageLocked, ResultMatchesState
<1>8. WorkFits(w)
  BY <1>3, <1>4, <1>5, <1>6, <1>7
     DEF WorkFits, FrameFits, FileFits, RemovalFits, applyJournalEntryAccepts, Counted,
         EventsAfter, ResultAfter, HoldsSpool, NewEntry, NoEntry
<1> QED
  BY Zenon, <1>1, <1>4, <1>8, PerformOK

\* AdvanceAssignment: a legal transition that leaves the spool valid.
LEMMA AdvanceAssignmentOK ==
  ASSUME IInv, NEW a \in Attempts, NEW next \in AssignmentStates, AdvanceAssignment(a, next)
  PROVE  IInv'
<1> DEFINE e == jnl[a]
           t == [e EXCEPT !.state = next]
           w == [WorkFor(a) EXCEPT !.entry = t]
<1>1. /\ Ready /\ Perform(w) /\ Live(e)
      /\ next \notin {"finished", "result_acked"} /\ next \in AllowedNext(e.state)
  BY Zenon DEF AdvanceAssignment
<1>2. Opened /\ ~poisoned /\ Counted(e, evIdx[a], resIdx[a])
  BY Zenon, <1>1, ReadyFacts
<1>3. /\ e \in Entry /\ EntryOK(e) /\ IndexOK(a, e)
      /\ FilesOK(e, evFiles[a], resFile[a], payFile[a])
  BY Zenon, <1>2, OpenFacts
<1> HIDE DEF e
<1>4. /\ t \in Entry /\ t.state = next /\ t.last = e.last /\ t.acked = e.acked
      /\ t.ooo = e.ooo /\ t.result = e.result /\ t.final = e.final /\ t.deleted = e.deleted
  BY Zenon, <1>3 DEF Entry
<1> HIDE DEF t
<1>5. /\ w.a = a /\ w.file = "none" /\ w.entry = t /\ w.rmEvents = {}
      /\ w.snap = FALSE /\ w.rmResult = FALSE /\ w.rmPayload = FALSE /\ w \in Work
  BY  Zenon, <1>4 DEF WorkFor, NoWork, Work
<1> HIDE DEF w
<1>6. /\ next \in {"ack_sent", "confirmed", "started", "reject_sent", "rejected"} =>
           e.state \in {"received", "ack_sent", "confirmed", "reject_sent"}
      /\ next \in {"ack_sent", "confirmed", "started", "reject_sent", "rejected", "revoked"}
      /\ e.state \in {"received", "ack_sent", "confirmed", "started", "finished", "reject_sent"}
  BY Zenon, <1>1 DEF AllowedNext
<1>7. EntryOK(t) /\ Live(t)
  BY Zenon, <1>1, <1>3, <1>4, <1>6 DEF EntryOK, Live
<1>8. applyJournalEntryAccepts(e, t)
  <2>1. validateJournalProgress(e, t)
    BY <1>3, <1>4, <1>6 DEF validateJournalProgress, EntryOK, Entry
  <2> QED
    BY Zenon, <1>1, <1>4, <2>1 DEF applyJournalEntryAccepts, Live
<1>9. e.state # "finished" => resIdx[a] = NoFile /\ resFile[a] = NoFile
  BY Zenon, <1>1, <1>2, <1>3, <1>6 DEF FilesOK, ResultMatchesState, IndexOK, HoldsSpool, Counted
<1>10. \A n \in evIdx[a] : n \in evFiles[a] /\ n <= e.last
  BY Zenon, <1>1, <1>2, <1>3, <1>6 DEF IndexOK, HoldsSpool, Counted, FilesOK
<1>11. FilesOK(t, evFiles[a], resFile[a], payFile[a])
  <2>1. validateEventCoverageLocked(t, evFiles[a])
    BY Zenon, <1>1, <1>3, <1>4 DEF FilesOK, validateEventCoverageLocked
  <2>2. ResultMatchesState(t, resFile[a])
    BY Zenon, <1>1, <1>3, <1>4, <1>6, <1>9 DEF FilesOK, ResultMatchesState
  <2>3. \A n \in evFiles[a] : n <= t.last
    BY Zenon, <1>3, <1>4, <1>10 DEF IndexOK
  <2> QED
    BY Zenon, <1>7, <2>1, <2>2, <2>3 DEF FilesOK, Live
<1>12. Counted(t, evIdx[a], resIdx[a])
  BY Zenon, <1>4, <1>6, <1>9, <1>10 DEF Counted
<1>13. ~HoldsSpool(e.state)
  BY Zenon, <1>6 DEF HoldsSpool
<1>14. \A n \in evIdx[a] : eventSequenceACKed(e, n) => eventSequenceACKed(t, n)
  BY Zenon, <1>4 DEF eventSequenceACKed
<1>15. WorkFits(w)
  BY Zenon, <1>5, <1>7, <1>8, <1>11, <1>12, <1>13, <1>14
     DEF WorkFits, FrameFits, FileFits, RemovalFits, EventsAfter, ResultAfter, e
<1> QED
  BY Zenon, <1>1, <1>5, <1>15, PerformOK

\* StoreAssignmentPayload: the payload of a live attempt.
LEMMA StoreAssignmentPayloadOK ==
  ASSUME IInv, NEW a \in Attempts, StoreAssignmentPayload(a)
  PROVE  IInv'
<1> DEFINE w == [WorkFor(a) EXCEPT !.file = "payload"]
<1>1. Ready /\ Perform(w) /\ Live(jnl[a])
  BY Zenon DEF StoreAssignmentPayload
<1>2. /\ w.a = a /\ w.file = "payload" /\ w.entry = NoEntry /\ w.rmEvents = {}
      /\ w.snap = FALSE /\ w.rmResult = FALSE /\ w.rmPayload = FALSE /\ w \in Work
  BY  Zenon, NoEntryOK DEF WorkFor, NoWork, Work
<1> HIDE DEF w
<1>3. WorkFits(w)
  BY Zenon, <1>1, <1>2 DEF WorkFits, FrameFits, FileFits, RemovalFits
<1> QED
  BY Zenon, <1>1, <1>2, <1>3, PerformOK

\* AppendEvent: the file of the next sequence, then the counter that covers it.
LEMMA AppendEventOK ==
  ASSUME IInv, NEW a \in Attempts, AppendEvent(a)
  PROVE  IInv'
<1> DEFINE e == jnl[a]
           t == [e EXCEPT !.last = @ + 1]
           w == [WorkFor(a) EXCEPT !.file = "event", !.entry = t]
<1>1. Ready /\ Perform(w) /\ Live(e) /\ e.state = "started" /\ e.last < MaxEvents
  BY Zenon DEF AppendEvent
<1>2. Opened /\ ~poisoned /\ Counted(e, evIdx[a], resIdx[a])
  BY Zenon, <1>1, ReadyFacts
<1>3. /\ e \in Entry /\ EntryOK(e) /\ IndexOK(a, e)
      /\ FilesOK(e, evFiles[a], resFile[a], payFile[a])
      /\ evIdx[a] \subseteq Seqs
  BY Zenon, <1>2, OpenFacts
<1> HIDE DEF e
<1>4. /\ t \in Entry /\ t.state = e.state /\ t.last = e.last + 1 /\ t.acked = e.acked
      /\ t.ooo = e.ooo /\ t.result = e.result /\ t.final = e.final /\ t.deleted = e.deleted
  BY <1>1, <1>3, RuntimeStoreAssumption DEF Entry
<1> HIDE DEF t
<1>5. /\ w.a = a /\ w.file = "event" /\ w.entry = t /\ w.rmEvents = {}
      /\ w.snap = FALSE /\ w.rmResult = FALSE /\ w.rmPayload = FALSE /\ w \in Work
  BY  Zenon, <1>4 DEF WorkFor, NoWork, Work
<1> HIDE DEF w
<1>6. EntryOK(t) /\ Live(t) /\ t # NoEntry
  BY <1>1, <1>3, <1>4 DEF EntryOK, Live, Entry, NoEntry
<1>7. applyJournalEntryAccepts(e, t)
  <2>1. validateJournalProgress(e, t)
    BY <1>1, <1>3, <1>4 DEF validateJournalProgress, EntryOK, Entry
  <2> QED
    BY Zenon, <1>1, <1>4, <2>1 DEF applyJournalEntryAccepts, Live
<1>8. /\ resIdx[a] = NoFile /\ resFile[a] = NoFile
      /\ \A n \in evIdx[a] : n <= e.last
      /\ evFiles[a] \subseteq evIdx[a]
  BY Zenon, <1>1, <1>2, <1>3 DEF IndexOK, HoldsSpool, Counted
<1>9. \A n \in evIdx[a] \cup {t.last} : n <= t.last
  BY <1>3, <1>4, <1>8 DEF Entry, Seqs
<1>10. FilesOK(t, evFiles[a] \cup {t.last}, resFile[a], payFile[a])
  <2>1. validateEventCoverageLocked(t, evFiles[a] \cup {t.last})
    BY <1>1, <1>3, <1>4 DEF FilesOK, validateEventCoverageLocked, Entry
  <2>2. ResultMatchesState(t, resFile[a])
    BY Zenon, <1>1, <1>4, <1>8 DEF ResultMatchesState
  <2> QED
    BY Zenon, <1>6, <1>8, <1>9, <2>1, <2>2 DEF FilesOK, Live
<1>11. Counted(t, evIdx[a] \cup {t.last}, resIdx[a])
  BY Zenon, <1>8, <1>9 DEF Counted
<1>12. \A n \in evIdx[a] : eventSequenceACKed(e, n) => eventSequenceACKed(t, n)
  BY Zenon, <1>4 DEF eventSequenceACKed
<1>13. WorkFits(w)
  BY  Zenon, <1>1, <1>4, <1>5, <1>6, <1>7, <1>8, <1>10, <1>11, <1>12
     DEF WorkFits, FrameFits, FileFits, RemovalFits, EventsAfter, ResultAfter, HoldsSpool, e
<1> QED
  BY Zenon, <1>1, <1>5, <1>13, PerformOK

\* StoreResult: the result file sealing the last event, then the finished frame.
LEMMA StoreResultOK ==
  ASSUME IInv, NEW a \in Attempts, NEW r \in Results, StoreResult(a, r)
  PROVE  IInv'
<1> DEFINE e == jnl[a]
           t == [e EXCEPT !.state = "finished", !.result = r, !.final = jnl[a].last]
           f == [id |-> r, final |-> e.last]
           w == [WorkFor(a) EXCEPT !.file = "result", !.entry = t]
<1>1. Ready /\ Perform(w) /\ Live(e) /\ e.state = "started"
  BY Zenon DEF StoreResult
<1>2. Opened /\ ~poisoned /\ Counted(e, evIdx[a], resIdx[a])
  BY Zenon, <1>1, ReadyFacts
<1>3. /\ e \in Entry /\ EntryOK(e) /\ IndexOK(a, e)
      /\ FilesOK(e, evFiles[a], resFile[a], payFile[a])
  BY Zenon, <1>2, OpenFacts
<1>4. /\ t \in Entry /\ t.state = "finished" /\ t.last = e.last /\ t.acked = e.acked
      /\ t.ooo = e.ooo /\ t.result = r /\ t.final = e.last /\ t.deleted = e.deleted
  BY  Zenon, <1>3 DEF Entry, AssignmentStates
<1> HIDE DEF e, t
<1>5. /\ w.a = a /\ w.file = "result" /\ w.entry = t /\ w.rmEvents = {}
      /\ w.snap = FALSE /\ w.rmResult = FALSE /\ w.rmPayload = FALSE /\ w \in Work
  BY  Zenon, <1>4 DEF WorkFor, NoWork, Work
<1> HIDE DEF w
<1>6. r # NoResult /\ EntryOK(t) /\ Live(t) /\ t # NoEntry
  BY  SMTT(30), <1>1, <1>3, <1>4, RuntimeStoreAssumption DEF EntryOK, Live, NoEntry
<1>7. applyJournalEntryAccepts(e, t)
  <2>1. validateJournalProgress(e, t)
    BY <1>1, <1>3, <1>4, <1>6 DEF validateJournalProgress, EntryOK, Entry
  <2>2. t.state \in AllowedNext(e.state)
    BY Zenon, <1>1, <1>4 DEF AllowedNext
  <2> QED
    BY Zenon, <1>1, <1>4, <2>1, <2>2 DEF applyJournalEntryAccepts, Live
<1>8. \A n \in evFiles[a] : n <= e.last
  BY Zenon, <1>1, <1>2, <1>3 DEF IndexOK, Counted
<1>9. FilesOK(t, evFiles[a], f, payFile[a])
  <2>1. validateEventCoverageLocked(t, evFiles[a])
    BY Zenon, <1>1, <1>3, <1>4 DEF FilesOK, validateEventCoverageLocked
  <2>2. ResultMatchesState(t, f)
    BY Zenon, <1>4 DEF ResultMatchesState
  <2> HIDE DEF f
  <2> QED
    BY Zenon, <1>4, <1>6, <1>8, <2>1, <2>2 DEF FilesOK, Live
<1>10. Counted(t, evIdx[a], f)
  BY Zenon, <1>4 DEF Counted
<1>11. \A n \in evIdx[a] : eventSequenceACKed(e, n) => eventSequenceACKed(t, n)
  BY Zenon, <1>4 DEF eventSequenceACKed
<1>12. ResultAfter(w, resFile[a]) = f /\ ResultAfter(w, resIdx[a]) = f
  BY Zenon, <1>4, <1>5 DEF ResultAfter
<1> HIDE DEF f
<1>13. WorkFits(w)
  BY  Zenon, <1>1, <1>4, <1>5, <1>6, <1>7, <1>8, <1>9, <1>10, <1>11, <1>12
     DEF WorkFits, FrameFits, FileFits, RemovalFits, EventsAfter, HoldsSpool, e
<1> QED
  BY Zenon, <1>1, <1>5, <1>13, PerformOK

\* AckEvent: only a terminal attempt loses the acknowledged file.
LEMMA AckEventOK ==
  ASSUME WellOrdered, IInv, NEW a \in Attempts, NEW n \in Seqs, AckEvent(a, n)
  PROVE  IInv'
<1> DEFINE e == jnl[a]
           t == applyEventACK(e, n)
           remove == IF HoldsSpool(e.state) THEN {n} ELSE {}
           w1 == [WorkFor(a) EXCEPT !.rmEvents = remove]
           w2 == [WorkFor(a) EXCEPT !.entry = t, !.rmEvents = remove]
<1>1. /\ Ready /\ Live(e) /\ n \in evIdx[a]
      /\ Perform(IF eventSequenceACKed(e, n) THEN w1 ELSE w2)
  BY Zenon DEF AckEvent
<1>2. Opened /\ ~poisoned /\ Counted(e, evIdx[a], resIdx[a])
  BY Zenon, <1>1, ReadyFacts
<1>3. /\ e \in Entry /\ EntryOK(e) /\ IndexOK(a, e)
      /\ FilesOK(e, evFiles[a], resFile[a], payFile[a])
      /\ evIdx[a] \subseteq Seqs
  BY Zenon, <1>2, OpenFacts
<1>4. remove \in SUBSET Seqs /\ remove \subseteq evIdx[a]
  BY Zenon, <1>1
<1>5. remove # {} => HoldsSpool(e.state)
  BY Zenon
<1>6. \A m \in remove : m = n
  BY Zenon
<1> HIDE DEF e, t, remove
<1>7. CASE eventSequenceACKed(e, n)
  <2>1. Perform(w1)
    BY Zenon, <1>1, <1>7
  <2>2. /\ w1.a = a /\ w1.file = "none" /\ w1.entry = NoEntry /\ w1.rmEvents = remove
        /\ w1.snap = FALSE /\ w1.rmResult = FALSE /\ w1.rmPayload = FALSE /\ w1 \in Work
    BY  Zenon, <1>4, NoEntryOK DEF WorkFor, NoWork, Work
  <2> HIDE DEF w1
  <2>3. WorkFits(w1)
    BY  Zenon, <1>4, <1>5, <1>6, <1>7, <2>2 DEF WorkFits, FrameFits, FileFits, RemovalFits, Target, e
  <2> QED
    BY Zenon, <1>1, <2>1, <2>2, <2>3, PerformOK
<1>8. CASE ~eventSequenceACKed(e, n)
  <2>1. Perform(w2)
    BY Zenon, <1>1, <1>8
  <2>2. \A m \in evIdx[a] : m \notin evFiles[a] => eventSequenceACKed(e, m)
    BY Zenon, <1>3 DEF IndexOK
  <2>3. \A m \in evFiles[a] : m <= e.last
    BY Zenon, <1>1, <1>2, <1>3 DEF FilesOK, Counted, IndexOK
  <2>4. n \in 1..e.last
    BY <1>1, <1>3, <1>8, <2>2, <2>3 DEF Seqs, Entry
  <2>5. t = applyEventACK(e, n)
    BY Zenon DEF t
  <2>6. /\ t \in Entry /\ EntryOK(t) /\ t # NoEntry
        /\ t.state = e.state /\ t.last = e.last /\ t.result = e.result
        /\ t.final = e.final /\ t.deleted = e.deleted /\ t.acked >= e.acked
        /\ \A m \in Nat : eventSequenceACKed(e, m) => eventSequenceACKed(t, m)
        /\ eventSequenceACKed(t, n)
    BY <1>1, <1>3, <1>8, <2>4, <2>5, AckExtends
  <2>7. /\ w2.a = a /\ w2.file = "none" /\ w2.entry = t /\ w2.rmEvents = remove
        /\ w2.snap = FALSE /\ w2.rmResult = FALSE /\ w2.rmPayload = FALSE /\ w2 \in Work
    BY  Zenon, <1>4, <2>6 DEF WorkFor, NoWork, Work
  <2> HIDE DEF w2
  <2>8. applyJournalEntryAccepts(e, t)
    <3>1. \A m \in e.ooo : m <= t.acked \/ m \in t.ooo
      BY <1>3, <2>6 DEF eventSequenceACKed, Entry, Seqs
    <3>2. validateJournalProgress(e, t)
      BY  SMTT(30), <1>3, <2>6, <3>1 DEF validateJournalProgress, EntryOK, Entry
    <3> QED
      BY Zenon, <1>1, <2>6, <3>2 DEF applyJournalEntryAccepts, Live
  <2>9. FilesOK(t, evFiles[a], resFile[a], payFile[a])
    <3>1. validateEventCoverageLocked(t, evFiles[a])
      <4>1. \A m \in (e.acked + 1)..e.last : m \in e.ooo \/ m \in evFiles[a]
        BY Zenon, <1>1, <1>3 DEF FilesOK, validateEventCoverageLocked
      <4>2. \A m \in (t.acked + 1)..t.last : m \in t.ooo \/ m \in evFiles[a]
        BY  SMTT(30), <1>3, <2>6, <4>1 DEF eventSequenceACKed, Entry
      <4> QED
        BY Zenon, <4>2 DEF validateEventCoverageLocked
    <3>2. ResultMatchesState(t, resFile[a])
      BY Zenon, <1>1, <1>3, <2>6 DEF FilesOK, ResultMatchesState
    <3> QED
      BY Zenon, <1>1, <1>3, <2>3, <2>6, <3>1, <3>2 DEF FilesOK, Live
  <2>10. Counted(t, evIdx[a], resIdx[a])
    BY Zenon, <1>2, <2>6 DEF Counted
  <2>11. \A m \in evIdx[a] : eventSequenceACKed(e, m) => eventSequenceACKed(t, m)
    BY <1>3, <2>6 DEF Seqs
  <2>12. WorkFits(w2)
    BY  Zenon, <1>4, <1>5, <1>6, <2>6, <2>7, <2>8, <2>9, <2>10, <2>11
       DEF WorkFits, FrameFits, FileFits, RemovalFits, Target, EventsAfter, ResultAfter, e
  <2> QED
    BY Zenon, <1>1, <2>1, <2>7, <2>12, PerformOK
<1> QED
  BY Zenon, <1>7, <1>8

\* AckResult: with every event acknowledged the whole spool may go.
LEMMA AckResultOK ==
  ASSUME IInv, NEW a \in Attempts, NEW r \in Results, AckResult(a, r)
  PROVE  IInv'
<1> DEFINE e == jnl[a]
           t == [e EXCEPT !.state = "result_acked"]
           entry == IF e.state = "finished" THEN t ELSE NoEntry
           rm == (resIdx[a] # NoFile)
           w == [WorkFor(a) EXCEPT !.entry = entry, !.rmResult = rm, !.rmEvents = evIdx[a]]
<1>1. /\ Ready /\ Live(e) /\ Perform(w)
      /\ \A n \in evIdx[a] : eventSequenceACKed(e, n)
      /\ e.state \in {"result_acked", "finished", "revoked"}
  BY Zenon DEF AckResult, Settled
<1>2. Opened /\ ~poisoned
  BY Zenon, <1>1, ReadyFacts
<1>3. /\ e \in Entry /\ EntryOK(e) /\ IndexOK(a, e)
      /\ FilesOK(e, evFiles[a], resFile[a], payFile[a])
      /\ evIdx[a] \subseteq Seqs
  BY  Zenon, <1>2, OpenFacts
<1> HIDE DEF e
<1>4. /\ t \in Entry /\ t.state = "result_acked" /\ t.last = e.last /\ t.acked = e.acked
      /\ t.ooo = e.ooo /\ t.result = e.result /\ t.final = e.final /\ t.deleted = e.deleted
  BY Zenon, <1>3 DEF Entry, AssignmentStates
<1> HIDE DEF t
<1>5. rm \in BOOLEAN /\ entry \in Entry
  BY Zenon, <1>4, NoEntryOK
<1>6. /\ e.state = "finished" => entry = t
      /\ e.state # "finished" => entry = NoEntry
  BY Zenon
<1> HIDE DEF rm, entry
<1>7. /\ w.a = a /\ w.file = "none" /\ w.entry = entry /\ w.rmEvents = evIdx[a]
      /\ w.snap = FALSE /\ w.rmPayload = FALSE /\ w \in Work
  BY  Zenon, <1>3, <1>5 DEF WorkFor, NoWork, Work
<1> HIDE DEF w
<1>8. CASE e.state = "finished"
  <2>1. EntryOK(t) /\ Live(t) /\ t # NoEntry
    BY  SMTT(30), <1>1, <1>3, <1>4, <1>8 DEF EntryOK, Live, NoEntry
  <2>2. applyJournalEntryAccepts(e, t)
    <3>1. validateJournalProgress(e, t)
      BY  SMTT(30), <1>3, <1>4, <1>8 DEF validateJournalProgress, EntryOK, Entry
    <3>2. t.state \in AllowedNext(e.state)
      BY Zenon, <1>4, <1>8 DEF AllowedNext
    <3> QED
      BY  Zenon, <1>1, <1>4, <3>1, <3>2 DEF applyJournalEntryAccepts, Live
  <2>3. FilesOK(t, evFiles[a], resFile[a], payFile[a])
    <3>1. validateEventCoverageLocked(t, evFiles[a])
      BY  Zenon, <1>1, <1>3, <1>4 DEF FilesOK, validateEventCoverageLocked
    <3>2. ResultMatchesState(t, resFile[a])
      BY <1>1, <1>3, <1>4, <1>8 DEF FilesOK, ResultMatchesState
    <3> QED
      BY  Zenon, <1>1, <1>3, <1>4, <1>8, <2>1, <3>1, <3>2 DEF FilesOK, Live
  <2>4. Counted(t, evIdx[a], resIdx[a])
    BY Zenon, <1>4 DEF Counted
  <2>5. \A n \in evIdx[a] : eventSequenceACKed(t, n)
    BY Zenon, <1>1, <1>4 DEF eventSequenceACKed
  <2>6. HoldsSpool(t.state)
    BY Zenon, <1>4 DEF HoldsSpool
  <2>7. WorkFits(w)
    BY  Zenon, <1>6, <1>7, <1>8, <2>1, <2>2, <2>3, <2>4, <2>5, <2>6
       DEF WorkFits, FrameFits, FileFits, RemovalFits, Target, EventsAfter, ResultAfter, e
  <2> QED
    BY Zenon, <1>1, <1>7, <2>7, PerformOK
<1>9. CASE e.state # "finished"
  <2>1. HoldsSpool(e.state)
    BY Zenon, <1>1, <1>9 DEF HoldsSpool
  <2>2. WorkFits(w)
    BY  Zenon, <1>1, <1>6, <1>7, <1>9, <2>1 DEF WorkFits, FrameFits, FileFits, RemovalFits, Target, e
  <2> QED
    BY Zenon, <1>1, <1>7, <2>2, PerformOK
<1> QED
  BY Zenon, <1>8, <1>9

\* ClearTerminalEvents: acknowledged events of a terminal attempt.
LEMMA ClearTerminalEventsOK ==
  ASSUME IInv, NEW a \in Attempts, ClearTerminalEvents(a)
  PROVE  IInv'
<1> DEFINE w == [WorkFor(a) EXCEPT !.rmEvents = evIdx[a]]
<1>1. /\ Ready /\ Perform(w) /\ HoldsSpool(jnl[a].state)
      /\ \A n \in evIdx[a] : eventSequenceACKed(jnl[a], n)
  BY Zenon DEF ClearTerminalEvents, Settled
<1>2. evIdx[a] \subseteq Seqs
  BY Zenon, <1>1, ReadyFacts, OpenFacts
<1>3. /\ w.a = a /\ w.file = "none" /\ w.entry = NoEntry /\ w.rmEvents = evIdx[a]
      /\ w.snap = FALSE /\ w.rmResult = FALSE /\ w.rmPayload = FALSE /\ w \in Work
  BY  Zenon, <1>2, NoEntryOK DEF WorkFor, NoWork, Work
<1> HIDE DEF w
<1>4. WorkFits(w)
  BY  Zenon, <1>1, <1>3 DEF WorkFits, FrameFits, FileFits, RemovalFits, Target
<1> QED
  BY  Zenon, <1>1, <1>3, <1>4, PerformOK

\* DeleteAssignment: only an attempt without events or result is deleted.
LEMMA DeleteAssignmentOK ==
  ASSUME IInv, NEW a \in Attempts, DeleteAssignment(a)
  PROVE  IInv'
<1> DEFINE e == jnl[a]
           t == [e EXCEPT !.deleted = TRUE]
           w == [WorkFor(a) EXCEPT !.entry = t, !.rmPayload = payIdx[a]]
<1>1. /\ Ready /\ Perform(w) /\ Live(e) /\ isAssignmentTerminal(e.state)
      /\ evIdx[a] = {} /\ resIdx[a] = NoFile
  BY Zenon DEF DeleteAssignment
<1>2. Opened /\ ~poisoned
  BY Zenon, <1>1, ReadyFacts
<1>3. /\ e \in Entry /\ EntryOK(e) /\ IndexOK(a, e) /\ payIdx[a] \in BOOLEAN
      /\ FilesOK(e, evFiles[a], resFile[a], payFile[a])
  BY  Zenon, <1>2, OpenFacts
<1> HIDE DEF e
<1>4. /\ t \in Entry /\ t.state = e.state /\ t.last = e.last /\ t.acked = e.acked
      /\ t.ooo = e.ooo /\ t.result = e.result /\ t.final = e.final /\ t.deleted
  BY  Zenon, <1>3 DEF Entry
<1> HIDE DEF t
<1>5. /\ w.a = a /\ w.file = "none" /\ w.entry = t /\ w.rmEvents = {}
      /\ w.snap = FALSE /\ w.rmResult = FALSE /\ w \in Work
  BY  Zenon, <1>3, <1>4 DEF WorkFor, NoWork, Work
<1> HIDE DEF w
<1>6. EntryOK(t) /\ t # NoEntry
  BY  SMTT(30), <1>1, <1>3, <1>4 DEF EntryOK, Live, NoEntry
<1>7. applyJournalEntryAccepts(e, t)
  BY  Zenon, <1>1, <1>4 DEF applyJournalEntryAccepts, Live
<1>8. evFiles[a] = {} /\ resFile[a] = NoFile
  BY  Zenon, <1>1, <1>3 DEF IndexOK
<1>9. FilesOK(t, evFiles[a], resFile[a], payFile[a])
  BY  Zenon, <1>1, <1>4, <1>8 DEF FilesOK, Live
<1>10. Counted(t, evIdx[a], resIdx[a])
  BY Zenon, <1>1 DEF Counted
<1>11. WorkFits(w)
  BY  Zenon, <1>1, <1>4, <1>5, <1>6, <1>7, <1>9, <1>10
     DEF WorkFits, FrameFits, FileFits, RemovalFits, Target, EventsAfter, ResultAfter, e
<1> QED
  BY  Zenon, <1>1, <1>5, <1>11, PerformOK

\* Every operation of the RuntimeStore interface keeps the invariant.
LEMMA OperationOK == WellOrdered /\ IInv /\ Operation => IInv'
  BY Zenon, CreateAssignmentOK, AdvanceAssignmentOK, StoreAssignmentPayloadOK, AppendEventOK,
     StoreResultOK, AckEventOK, AckResultOK, ClearTerminalEventsOK, DeleteAssignmentOK
  DEF Operation

\* The invariant does not depend on anything but the variables.
LEMMA StutterOK ==
  ASSUME IInv, UNCHANGED vars
  PROVE  IInv'
<1> USE DEF vars
<1>1. TypeOK'
  BY Zenon DEF IInv, TypeOK
<1>2. DiskOK'
  BY Zenon, DiskFrame DEF IInv
<1>3. MemoryOK'
  BY  Zenon DEF IInv, MemoryOK, Opened, IndexOK, Durable, JournalAt
<1>4. WorkOK'
  BY  Zenon DEF IInv, WorkOK, Running, WorkFits, FrameFits, FileFits, RemovalFits, Target
<1>5. CountedOK' /\ PhaseOK'
  BY  Zenon DEF IInv, CountedOK, PhaseOK
<1> QED
  BY Zenon, <1>1, <1>2, <1>3, <1>4, <1>5 DEF IInv

-----------------------------------------------------------------------------
(* Crashes, I/O errors and Close.                                          *)

\* The process is gone: only the directory counts.
LEMMA DownOK ==
  ASSUME IInv, DiskOK', DiskTypeOK', phase' = "down", Forget,
         UNCHANGED faults \/ faults' \in 0..MaxFaults
  PROVE  IInv'
<1>1. TypeOK /\ PhaseOK
  BY Zenon DEF IInv
<1>2. /\ jnl' \in Journal /\ seq' \in Nat /\ records' \in Int /\ work' = NoWork
      /\ epoch' = epoch
  BY NoEntryOK DEF Forget, EmptyJournal, Journal
<1>3. evIdx' \in [Attempts -> SUBSET Seqs] /\ resIdx' \in [Attempts -> ResultFile]
  BY Zenon DEF Forget, ResultFile
<1>4. payIdx' \in [Attempts -> BOOLEAN]
  BY Zenon DEF Forget
<1>5. poisoned' = FALSE
  BY Zenon DEF Forget
<1>6. TypeOK'
  BY  Zenon, <1>1, <1>2, <1>3, <1>4, <1>5, NoWorkOK DEF TypeOK, DiskTypeOK
<1>7. MemoryOK' /\ WorkOK' /\ CountedOK' /\ PhaseOK'
  BY Zenon, <1>2, <1>5 DEF MemoryOK, Opened, WorkOK, CountedOK, PhaseOK
<1> QED
  BY Zenon, <1>6, <1>7 DEF IInv

\* A crash at any write keeps the invariant.
LEMMA CrashOK == WellOrdered /\ IInv /\ Crash => IInv'
<1> SUFFICES ASSUME WellOrdered, IInv, Crash
             PROVE  IInv'
  BY Zenon
<1>1. DiskOK' /\ DiskTypeOK'
  BY Zenon, InterruptedDisk DEF Crash
<1>2. faults' \in 0..MaxFaults
  BY RuntimeStoreAssumption DEF Crash, IInv, TypeOK
<1> QED
  BY Zenon, <1>1, <1>2, DownOK DEF Crash

\* Close keeps the invariant.
LEMMA CloseOK == WellOrdered /\ IInv /\ Close => IInv'
<1> SUFFICES ASSUME WellOrdered, IInv, Close
             PROVE  IInv'
  BY Zenon
<1>1. InterruptedWrite
  BY Zenon DEF Close, InterruptedWrite
<1>2. DiskOK' /\ DiskTypeOK'
  BY Zenon, <1>1, InterruptedDisk
<1> QED
  BY Zenon, <1>2, DownOK DEF Close

\* A failed write poisons the store or leaves only a removal undone.
LEMMA IOErrorOK == WellOrdered /\ IInv /\ IOError => IInv'
<1> SUFFICES ASSUME WellOrdered, IInv, IOError
             PROVE  IInv'
  BY Zenon
<1>1. /\ work # NoWork /\ InterruptedWrite
      /\ phase = "up" \/ (phase = "opening" /\ Due = "snapshot")
      /\ poisoned' = (Due \in {"file", "frame"})
      /\ work' = IF Due = "snapshot" THEN Rest([work EXCEPT !.snap = FALSE]) ELSE NoWork
      /\ UNCHANGED <<jnl, seq, evIdx, resIdx, payIdx, records, phase, epoch>>
  BY Zenon DEF IOError, Idle, memory
<1> DEFINE failed == Due \in {"file", "frame"}
<1>0. poisoned' = failed
  BY Zenon DEF IOError
<1>2. faults' \in 0..MaxFaults
  BY RuntimeStoreAssumption DEF IOError, IInv, TypeOK
<1>3. DiskOK' /\ DiskTypeOK'
  BY Zenon, <1>1, InterruptedDisk
<1>4. /\ Running /\ Opened /\ ~poisoned /\ work \in Work /\ work.a \in Attempts
      /\ RemovalFits(work) /\ jnl = Durable /\ seq = Len(wal)
      /\ TypeOK /\ MemoryOK /\ CountedOK
  BY Zenon, <1>1, WorkFacts DEF IInv
<1>5. CASE Due \in {"file", "frame"}
  <2>1. poisoned' = TRUE /\ work' = NoWork /\ phase = "up"
    BY  Zenon, <1>1, <1>5
  <2>2. TypeOK'
    BY Zenon, <1>1, <1>2, <1>3, <1>4, <2>1, NoWorkOK DEF TypeOK, DiskTypeOK
  <2>3. MemoryOK' /\ WorkOK' /\ CountedOK' /\ PhaseOK'
    BY Zenon, <1>1, <2>1 DEF MemoryOK, WorkOK, CountedOK, PhaseOK
  <2> QED
    BY Zenon, <1>3, <2>2, <2>3 DEF IInv
<1>6. CASE Due = "snapshot"
  <2> DEFINE w == [work EXCEPT !.snap = FALSE]
  <2>1. work.file = "none" /\ work.entry = NoEntry
    BY Zenon, <1>6 DEF Due
  <2>2. /\ w \in Work /\ w.a = work.a /\ w.file = "none" /\ w.entry = NoEntry
        /\ w.rmEvents = work.rmEvents /\ w.rmResult = work.rmResult
        /\ w.rmPayload = work.rmPayload
    BY  Zenon, <1>4, <2>1 DEF Work
  <2>3. work' = Rest(w) /\ ~poisoned' /\ poisoned' \in BOOLEAN
    <3>1. Due \notin {"file", "frame"} /\ work' = Rest(w)
      BY Zenon, <1>1, <1>6
    <3>2. ~poisoned' /\ poisoned' \in BOOLEAN
      <4>1. ~failed /\ failed \in BOOLEAN
        BY <3>1
      <4> HIDE DEF failed
      <4> QED
        BY <1>0, <4>1, Zenon
    <3> QED
      BY Zenon, <3>1, <3>2
  <2>4. UNCHANGED <<wal, evFiles, resFile, payFile, diskEpoch>>
    BY Zenon, <1>1, <1>6 DEF InterruptedWrite, atomicWriteDurable, WriteFrame, WriteSnapshot,
       RemoveResultFile, RemoveEventFile, RemovePayloadFile, disk, files
  <2> HIDE DEF w
  <2>5. jnl' = Durable' /\ seq' = Len(wal)'
    BY Zenon, <1>1, <1>4, <2>4 DEF Durable, JournalAt
  <2>6. \A b \in Attempts : IndexOK(b, jnl[b])'
    BY Zenon, <1>1, <1>4, <2>4, OpenFacts DEF IndexOK
  <2>7. ASSUME work' = w
        PROVE  WorkFits(work)'
    <3>1. RemovalFits(work)'
      BY  Zenon, <1>1, <1>4, <2>1, <2>2, <2>7 DEF RemovalFits, Target
    <3> QED
      BY Zenon, <1>4, <2>2, <2>7, <3>1 DEF WorkFits, FrameFits, FileFits
  <2>8. WorkFits(work)' \/ work' = NoWork
    BY Zenon, <2>2, <2>3, <2>7, RestOf
  <2>9. CountedOK'
    BY Zenon, <1>1, <1>4, <2>1 DEF CountedOK
  <2>11. phase # "up" => evIdx' = evFiles' /\ resIdx' = resFile' /\ payIdx' = payFile'
    BY Zenon, <1>1, <1>4, <2>4 DEF MemoryOK
  <2>12. /\ jnl' \in Journal /\ seq' \in Nat /\ records' \in Int
         /\ evIdx' \in [Attempts -> SUBSET Seqs] /\ resIdx' \in [Attempts -> ResultFile]
         /\ payIdx' \in [Attempts -> BOOLEAN]
    BY Zenon, <1>1, <1>4 DEF TypeOK
  <2> QED
    BY  Zenon, <1>1, <1>2, <1>3, <1>4, <2>2, <2>3, <2>4, <2>5, <2>6, <2>8, <2>9, <2>11, <2>12,
       StepFrame
<1>7. CASE Due \notin {"file", "frame", "snapshot"}
  <2> DEFINE a == work.a
             e == jnl[a]
  <2>1. work' = NoWork /\ phase = "up" /\ ~poisoned' /\ poisoned' \in BOOLEAN
    <3>1. Due \notin {"file", "frame"} /\ work' = NoWork /\ phase = "up"
      BY Zenon, <1>1, <1>7
    <3>2. ~poisoned' /\ poisoned' \in BOOLEAN
      <4>1. ~failed /\ failed \in BOOLEAN
        BY <3>1
      <4> HIDE DEF failed
      <4> QED
        BY <1>0, <4>1, Zenon
    <3> QED
      BY Zenon, <3>1, <3>2
  <2>2. UNCHANGED disk \/ RemoveResultFile \/ RemoveEventFile \/ RemovePayloadFile
    BY Zenon, <1>1, <1>7 DEF InterruptedWrite, atomicWriteDurable, WriteFrame, WriteSnapshot
  <2>3. UNCHANGED <<wal, torn, snap, diskEpoch>>
    BY Zenon, <2>2 DEF disk, RemoveResultFile, RemoveEventFile, RemovePayloadFile
  <2>4. jnl' = Durable' /\ seq' = Len(wal)'
    BY Zenon, <1>1, <1>4, <2>3 DEF Durable, JournalAt
  <2>5. ASSUME NEW b \in Attempts
        PROVE  IndexOK(b, jnl[b])'
    <3>1. IndexOK(b, jnl[b])
      BY Zenon, <1>4, OpenFacts
    <3>2. CASE UNCHANGED disk
      BY Zenon, <1>1, <3>1, <3>2 DEF IndexOK, disk
    <3>3. CASE RemoveResultFile
      <4>1. work.rmResult /\ Due = "rmResult"
        BY Zenon, <3>3 DEF RemoveResultFile, Due
      <4>2. HoldsSpool(e.state)
        BY Zenon, <4>1, RemovalFacts DEF RemovalFits
      <4>3. resFile'[b] = IF b = a THEN NoFile ELSE resFile[b]
        BY Zenon, <1>4, <3>3 DEF RemoveResultFile, TypeOK
      <4>4. UNCHANGED <<evFiles, payFile>>
        BY Zenon, <3>3 DEF RemoveResultFile
      <4> QED
        BY Zenon, <1>1, <3>1, <4>2, <4>3, <4>4 DEF IndexOK
    <3>4. CASE RemoveEventFile
      <4> DEFINE n == Min(work.rmEvents)
      <4>1. n \in work.rmEvents /\ Due = "rmEvent"
        BY Zenon, <3>4, EventRemovalDisk DEF RemoveEventFile
      <4>2. HoldsSpool(e.state) /\ eventSequenceACKed(e, n)
        BY Zenon, <4>1, RemovalFacts DEF RemovalFits
      <4> HIDE DEF n
      <4>3. evFiles'[b] = IF b = a THEN evFiles[b] \ {n} ELSE evFiles[b]
        BY  Zenon, <1>4, <3>4 DEF RemoveEventFile, TypeOK, n
      <4>4. UNCHANGED <<resFile, payFile>>
        BY Zenon, <3>4 DEF RemoveEventFile
      <4>5. /\ evFiles'[b] \subseteq evIdx[b]
            /\ \A m \in evIdx[b] \ evFiles'[b] :
                 HoldsSpool(jnl[b].state) /\ eventSequenceACKed(jnl[b], m)
        BY Zenon, <3>1, <4>2, <4>3 DEF IndexOK
      <4> QED
        BY Zenon, <1>1, <3>1, <4>4, <4>5 DEF IndexOK
    <3>5. CASE RemovePayloadFile
      <4>1. work.rmPayload /\ Due = "rmPayload"
        BY Zenon, <3>5 DEF RemovePayloadFile, Due
      <4>2. e.deleted
        BY Zenon, <4>1, RemovalFacts DEF RemovalFits
      <4>3. (b = a => ~payFile'[b]) /\ (b # a => payFile'[b] = payFile[b])
        BY  Zenon, <1>4, <3>5 DEF RemovePayloadFile, TypeOK
      <4>4. UNCHANGED <<evFiles, resFile>>
        BY Zenon, <3>5 DEF RemovePayloadFile
      <4>5. payIdx[b] \in BOOLEAN /\ payFile'[b] \in BOOLEAN
        BY Zenon, <1>3, <1>4 DEF TypeOK, DiskTypeOK
      <4>6. payIdx[b] = payFile'[b] \/ (payIdx[b] /\ jnl[b].deleted)
        BY Zenon, <3>1, <4>2, <4>3, <4>5 DEF IndexOK
      <4> QED
        BY Zenon, <1>1, <3>1, <4>4, <4>6 DEF IndexOK
    <3> QED
      BY Zenon, <2>2, <3>2, <3>3, <3>4, <3>5
  <2>6. TypeOK'
    BY Zenon, <1>1, <1>2, <1>3, <1>4, <2>1, NoWorkOK DEF TypeOK, DiskTypeOK
  <2>7. MemoryOK'
    BY Zenon, <1>1, <2>1, <2>4, <2>5 DEF MemoryOK
  <2>8. work.entry = NoEntry
    BY Zenon, <1>7 DEF Due
  <2>9. WorkOK' /\ CountedOK'
    BY Zenon, <1>1, <1>4, <2>1, <2>8 DEF WorkOK, CountedOK
  <2>10. PhaseOK'
    BY Zenon, <1>1, <2>1 DEF PhaseOK
  <2> QED
    BY Zenon, <1>3, <2>6, <2>7, <2>9, <2>10 DEF IInv
<1> QED
  BY Zenon, <1>5, <1>6, <1>7

-----------------------------------------------------------------------------
(* Reconciliation and the new session.                                     *)

\* An element of a sequence is an element of the set it is over.
LEMMA SeqElement ==
  ASSUME NEW S, NEW s \in Seq(S), NEW i \in 1..Len(s)
  PROVE  s[i] \in S
  OBVIOUS

\* During reconciliation the index is the directory.
LEMMA ReconcilingFacts ==
  ASSUME IInv, Reconciling
  PROVE  /\ Idle /\ Running /\ Opened /\ ~poisoned /\ phase = "opening"
         /\ evIdx = evFiles /\ resIdx = resFile /\ payIdx = payFile
<1>1. Idle /\ Running /\ Opened /\ phase = "opening" /\ ~poisoned
  BY Zenon DEF Reconciling, Running, Opened, IInv, PhaseOK
<1> QED
  BY Zenon, <1>1 DEF IInv, MemoryOK

\* A repair of reconciliation is work like that of an operation.
LEMMA RepairOK ==
  ASSUME IInv, Reconciling, NEW w \in Work, WorkFits(w), Repair(w)
  PROVE  IInv'
  BY Zenon, ReconcilingFacts, StartWork DEF Repair

\* reconcileAssignmentPayloadsLocked removes payloads of deleted attempts.
LEMMA ReconcilePayloadsOK ==
  ASSUME IInv, reconcileAssignmentPayloadsLocked
  PROVE  IInv'
<1>1. Reconciling
  BY Zenon DEF reconcileAssignmentPayloadsLocked
<1>2. PICK a \in StalePayloads : Repair([WorkFor(a) EXCEPT !.rmPayload = TRUE])
  BY  Zenon DEF reconcileAssignmentPayloadsLocked
<1> DEFINE w == [WorkFor(a) EXCEPT !.rmPayload = TRUE]
<1>3. a \in Attempts /\ jnl[a].deleted
  BY Zenon DEF StalePayloads
<1>4. /\ w.a = a /\ w.file = "none" /\ w.entry = NoEntry /\ w.rmEvents = {}
      /\ w.rmResult = FALSE /\ w \in Work
  BY  Zenon, <1>3, NoEntryOK DEF WorkFor, NoWork, Work
<1>5. Repair(w)
  BY Zenon, <1>2
<1> HIDE DEF w
<1>6. WorkFits(w)
  BY Zenon, <1>3, <1>4 DEF WorkFits, FrameFits, FileFits, RemovalFits, Target
<1> QED
  BY Zenon, <1>1, <1>4, <1>5, <1>6, RepairOK

\* Reconciliation removes acknowledged events of terminal attempts.
LEMMA ReconcileStaleEventOK ==
  ASSUME IInv, reconcileStaleEvent
  PROVE  IInv'
<1>1. Reconciling
  BY Zenon DEF reconcileStaleEvent
<1>2. PICK a \in Attempts : \E n \in StaleEvents(a) :
        Repair([WorkFor(a) EXCEPT !.rmEvents = {n}])
  BY  Zenon DEF reconcileStaleEvent
<1>3. PICK n \in StaleEvents(a) : Repair([WorkFor(a) EXCEPT !.rmEvents = {n}])
  BY Zenon, <1>2
<1> DEFINE w == [WorkFor(a) EXCEPT !.rmEvents = {n}]
<1>4. HoldsSpool(jnl[a].state) /\ n \in evIdx[a] /\ eventSequenceACKed(jnl[a], n)
  BY Zenon DEF StaleEvents
<1>5. n \in Seqs
  BY Zenon, <1>1, <1>4, ReconcilingFacts, OpenFacts
<1>6. /\ w.a = a /\ w.file = "none" /\ w.entry = NoEntry /\ w.rmEvents = {n}
      /\ w.rmResult = FALSE /\ w.rmPayload = FALSE /\ w \in Work
  BY  Zenon, <1>5, NoEntryOK DEF WorkFor, NoWork, Work
<1>7. Repair(w)
  BY Zenon, <1>3
<1> HIDE DEF w
<1>8. WorkFits(w)
  BY Zenon, <1>4, <1>6 DEF WorkFits, FrameFits, FileFits, RemovalFits, Target
<1> QED
  BY Zenon, <1>1, <1>6, <1>7, <1>8, RepairOK

\* Reconciliation removes the result file of an acknowledged result.
LEMMA ReconcileAckedResultOK ==
  ASSUME IInv, reconcileAckedResult
  PROVE  IInv'
<1>1. Reconciling
  BY Zenon DEF reconcileAckedResult
<1>2. PICK a \in Attempts : /\ jnl[a].state = "result_acked"
                            /\ Repair([WorkFor(a) EXCEPT !.rmResult = TRUE])
  BY  Zenon DEF reconcileAckedResult
<1> DEFINE w == [WorkFor(a) EXCEPT !.rmResult = TRUE]
<1>3. /\ w.a = a /\ w.file = "none" /\ w.entry = NoEntry /\ w.rmEvents = {}
      /\ w.rmPayload = FALSE /\ w \in Work
  BY  Zenon, NoEntryOK DEF WorkFor, NoWork, Work
<1>4. Repair(w)
  BY Zenon, <1>2
<1> HIDE DEF w
<1>5. WorkFits(w)
  BY Zenon, <1>2, <1>3 DEF WorkFits, FrameFits, FileFits, RemovalFits, Target, HoldsSpool
<1> QED
  BY Zenon, <1>1, <1>3, <1>4, <1>5, RepairOK

\* Reconciliation counts the one event file that is ahead of the counter.
LEMMA ReconcileEventCounterOK ==
  ASSUME IInv, reconcileEventCounter
  PROVE  IInv'
<1>1. Reconciling
  BY Zenon DEF reconcileEventCounter
<1>2. PICK a \in Attempts :
        /\ Live(jnl[a]) /\ Uncounted(a) # {} /\ jnl[a].state = "started"
        /\ Repair([WorkFor(a) EXCEPT !.entry = [jnl[a] EXCEPT !.last = Max(Uncounted(a))]])
  BY Zenon DEF reconcileEventCounter
<1> DEFINE e == jnl[a]
           t == [e EXCEPT !.last = Max(Uncounted(a))]
           w == [WorkFor(a) EXCEPT !.entry = t]
<1>3. /\ Opened /\ ~poisoned /\ phase = "opening" /\ evIdx = evFiles /\ resIdx = resFile
  BY Zenon, <1>1, ReconcilingFacts
<1>4. /\ e \in Entry /\ EntryOK(e)
      /\ FilesOK(e, evFiles[a], resFile[a], payFile[a])
      /\ evFiles[a] \subseteq Seqs
  BY Zenon, <1>3, OpenFacts
<1>5. Uncounted(a) = {e.last + 1} /\ resFile[a] = NoFile /\ e.last + 1 \in evFiles[a]
  BY <1>2, <1>3, <1>4 DEF Uncounted, FilesOK, Seqs, Entry
<1>6. Max(Uncounted(a)) = e.last + 1 /\ e.last + 1 \in 0..MaxEvents
  <2>1. e.last + 1 \in Seqs
    BY Zenon, <1>4, <1>5
  <2>2. Uncounted(a) \subseteq Nat /\ \A x \in Uncounted(a) : x <= e.last + 1
    BY <1>5, <2>1 DEF Seqs
  <2> QED
    BY <1>5, <2>1, <2>2, MaxIsBound DEF Seqs
<1>7. Repair(w)
  BY Zenon, <1>2
<1> HIDE DEF e
<1>8. /\ t \in Entry /\ t.state = e.state /\ t.last = e.last + 1 /\ t.acked = e.acked
      /\ t.ooo = e.ooo /\ t.result = e.result /\ t.final = e.final /\ t.deleted = e.deleted
  BY Zenon, <1>4, <1>6 DEF Entry
<1> HIDE DEF t
<1>9. /\ w.a = a /\ w.file = "none" /\ w.entry = t /\ w.rmEvents = {}
      /\ w.snap = FALSE /\ w.rmResult = FALSE /\ w.rmPayload = FALSE /\ w \in Work
  BY  Zenon, <1>8 DEF WorkFor, NoWork, Work
<1> HIDE DEF w
<1>10. Live(e) /\ e.state = "started"
  BY Zenon, <1>2 DEF e
<1>11. EntryOK(t) /\ Live(t)
  BY <1>4, <1>8, <1>10 DEF EntryOK, Live, Entry
<1>12. applyJournalEntryAccepts(e, t)
  <2>1. validateJournalProgress(e, t)
    BY <1>4, <1>8, <1>10 DEF validateJournalProgress, EntryOK, Entry
  <2> QED
    BY Zenon, <1>8, <1>10, <2>1 DEF applyJournalEntryAccepts, Live
<1>13. FilesOK(t, evFiles[a], resFile[a], payFile[a])
  <2>1. validateEventCoverageLocked(t, evFiles[a])
    BY <1>4, <1>5, <1>8, <1>10 DEF FilesOK, validateEventCoverageLocked, Entry
  <2>2. ResultMatchesState(t, resFile[a])
    BY Zenon, <1>5, <1>8, <1>10 DEF ResultMatchesState
  <2>3. \A n \in evFiles[a] : n <= t.last
    BY <1>4, <1>8, <1>10 DEF FilesOK, Entry, Seqs
  <2> QED
    BY Zenon, <1>11, <2>1, <2>2, <2>3 DEF FilesOK, Live
<1>14. \A n \in evIdx[a] : eventSequenceACKed(e, n) => eventSequenceACKed(t, n)
  BY Zenon, <1>8 DEF eventSequenceACKed
<1>15. WorkFits(w)
  BY  Zenon, <1>3, <1>8, <1>9, <1>11, <1>12, <1>13, <1>14
     DEF WorkFits, FrameFits, FileFits, RemovalFits, EventsAfter, ResultAfter, e
<1> QED
  BY Zenon, <1>1, <1>7, <1>9, <1>15, RepairOK

\* Reconciliation finishes an attempt whose result file is on disk.
LEMMA ReconcileFinishedResultOK ==
  ASSUME IInv, reconcileFinishedResult
  PROVE  IInv'
<1>1. Reconciling
  BY Zenon DEF reconcileFinishedResult
<1>2. PICK a \in Attempts :
        /\ Live(jnl[a]) /\ jnl[a].state = "started" /\ resIdx[a] # NoFile
        /\ Repair([WorkFor(a) EXCEPT !.entry =
             [jnl[a] EXCEPT !.state = "finished", !.result = resIdx[a].id,
                            !.final = resIdx[a].final]])
  BY  Zenon DEF reconcileFinishedResult
<1> DEFINE e == jnl[a]
           f == resIdx[a]
           t == [e EXCEPT !.state = "finished", !.result = f.id, !.final = f.final]
           w == [WorkFor(a) EXCEPT !.entry = t]
<1>3. Opened /\ ~poisoned /\ phase = "opening" /\ evIdx = evFiles /\ resIdx = resFile
  BY Zenon, <1>1, ReconcilingFacts
<1>4. /\ e \in Entry /\ EntryOK(e) /\ f \in ResultFile
      /\ FilesOK(e, evFiles[a], f, payFile[a])
  BY Zenon, <1>3, OpenFacts
<1>5. Repair(w)
  BY Zenon, <1>2
<1>6. Live(e) /\ e.state = "started" /\ f # NoFile
  BY Zenon, <1>2
<1> HIDE DEF e, f
<1>7. f.id \in Results /\ f.final = e.last /\ f = [id |-> f.id, final |-> f.final]
  BY Zenon, <1>4, <1>6 DEF ResultFile, FilesOK, ResultMatchesState
<1>8. /\ t \in Entry /\ t.state = "finished" /\ t.last = e.last /\ t.acked = e.acked
      /\ t.ooo = e.ooo /\ t.result = f.id /\ t.final = e.last /\ t.deleted = e.deleted
  BY  Zenon, <1>4, <1>7 DEF Entry, AssignmentStates
<1> HIDE DEF t
<1>9. /\ w.a = a /\ w.file = "none" /\ w.entry = t /\ w.rmEvents = {}
      /\ w.snap = FALSE /\ w.rmResult = FALSE /\ w.rmPayload = FALSE /\ w \in Work
  BY  Zenon, <1>8 DEF WorkFor, NoWork, Work
<1> HIDE DEF w
<1>10. f.id # NoResult /\ EntryOK(t) /\ Live(t)
  BY Zenon, <1>4, <1>6, <1>7, <1>8, RuntimeStoreAssumption DEF EntryOK, Live
<1>11. applyJournalEntryAccepts(e, t)
  <2>1. validateJournalProgress(e, t)
    BY <1>4, <1>6, <1>8, <1>10 DEF validateJournalProgress, EntryOK, Entry
  <2>2. t.state \in AllowedNext(e.state)
    BY Zenon, <1>6, <1>8 DEF AllowedNext
  <2> QED
    BY Zenon, <1>6, <1>8, <2>1, <2>2 DEF applyJournalEntryAccepts, Live
<1>12. FilesOK(t, evFiles[a], f, payFile[a])
  <2>1. validateEventCoverageLocked(t, evFiles[a])
    BY Zenon, <1>4, <1>6, <1>8 DEF FilesOK, validateEventCoverageLocked
  <2>2. ResultMatchesState(t, f)
    BY Zenon, <1>7, <1>8 DEF ResultMatchesState
  <2>3. \A n \in evFiles[a] : n <= t.last
    BY Zenon, <1>4, <1>6, <1>8 DEF FilesOK
  <2> QED
    BY Zenon, <1>10, <2>1, <2>2, <2>3 DEF FilesOK, Live
<1>13. \A n \in evIdx[a] : eventSequenceACKed(e, n) => eventSequenceACKed(t, n)
  BY Zenon, <1>8 DEF eventSequenceACKed
<1>14. f = resFile[a]
  BY Zenon, <1>3 DEF f
<1>15. WorkFits(w)
  BY  Zenon, <1>3, <1>6, <1>8, <1>9, <1>10, <1>11, <1>12, <1>13, <1>14
     DEF WorkFits, FrameFits, FileFits, RemovalFits, EventsAfter, ResultAfter, HoldsSpool, e,
         NoEntry
<1> QED
  BY Zenon, <1>1, <1>5, <1>9, <1>15, RepairOK

\* Reconciliation never finds anything it cannot explain.
LEMMA Consistent ==
  ASSUME IInv, Reconciling, NEW a \in Attempts
  PROVE  ~Inconsistent(a)
<1>1. /\ jnl[a] \in Entry /\ EntryOK(jnl[a])
      /\ FilesOK(jnl[a], evIdx[a], resIdx[a], payIdx[a])
      /\ evIdx[a] \subseteq Seqs
  BY Zenon, ReconcilingFacts, OpenFacts
<1>2. Live(jnl[a]) /\ Uncounted(a) # {} => jnl[a].state = "started" /\ jnl[a].result = NoResult
  BY <1>1 DEF FilesOK, Uncounted, EntryOK, Entry, Seqs
<1>3. Live(jnl[a]) => SpoolFits(a)
  BY Zenon, <1>1 DEF FilesOK, SpoolFits
<1>4. (payIdx[a] => jnl[a].state # "absent") /\ (evIdx[a] # {} => Live(jnl[a]))
  BY Zenon, <1>1 DEF FilesOK
<1> QED
  BY  Zenon, <1>2, <1>3, <1>4 DEF Inconsistent

\* startRuntimeSession always starts a session, with every repair done.
LEMMA StartSessionOK ==
  ASSUME IInv, startRuntimeSession
  PROVE  IInv'
<1>1. Reconciling /\ SpoolLoopsDone
  BY Zenon DEF startRuntimeSession
<1>2. \A a \in Attempts : ~Inconsistent(a)
  BY Zenon, <1>1, Consistent
<1>3. /\ phase' = "session" /\ diskEpoch' = diskEpoch + 1
      /\ UNCHANGED <<wal, torn, snap, evFiles, resFile, payFile>>
      /\ UNCHANGED <<jnl, seq, evIdx, resIdx, payIdx, records, poisoned, epoch, work, faults>>
      /\ \A a \in Attempts : ~Unrepaired(a)
  BY Zenon, <1>2 DEF startRuntimeSession, files, memory
<1>4. /\ Idle /\ ~poisoned /\ phase = "opening" /\ Opened
      /\ evIdx = evFiles /\ resIdx = resFile /\ payIdx = payFile
  BY Zenon, <1>1, ReconcilingFacts
<1>5. TypeOK'
  <2>1. diskEpoch \in 0..MaxEpoch /\ diskEpoch < MaxEpoch
    BY Zenon, <1>4 DEF IInv, TypeOK, PhaseOK
  <2>2. diskEpoch' \in 0..MaxEpoch
    BY <1>3, <2>1, RuntimeStoreAssumption
  <2> QED
    BY Zenon, <1>3, <2>2 DEF IInv, TypeOK
<1>6. DiskOK'
  BY Zenon, <1>3, DiskFrame DEF IInv
<1>7. MemoryOK'
  <2>1. /\ jnl = Durable /\ seq = Len(wal) /\ \A a \in Attempts : IndexOK(a, jnl[a])
    BY Zenon, <1>4 DEF IInv, MemoryOK
  <2>2. \A a \in Attempts : jnl[a].deleted => ~payFile[a]
    BY Zenon, <1>1, <1>4 DEF SpoolLoopsDone, StalePayloads
  <2>3. Durable' = Durable
    BY Zenon, <1>3 DEF Durable, JournalAt
  <2> QED
    BY Zenon, <1>3, <1>4, <2>1, <2>2, <2>3 DEF MemoryOK, IndexOK
<1>8. CountedOK'
  <2> SUFFICES ASSUME NEW a \in Attempts
               PROVE  Counted(jnl[a], evIdx[a], resIdx[a])
    BY Zenon, <1>3 DEF CountedOK
  <2>1. /\ jnl[a] \in Entry /\ FilesOK(jnl[a], evIdx[a], resIdx[a], payIdx[a])
        /\ evIdx[a] \subseteq Seqs
    BY Zenon, <1>4, OpenFacts
  <2>2. CASE Live(jnl[a])
    BY <1>3, <2>1, <2>2 DEF Unrepaired, Uncounted, Counted, Entry, Seqs
  <2>3. CASE ~Live(jnl[a])
    BY Zenon, <2>1, <2>3 DEF FilesOK, Counted
  <2> QED
    BY Zenon, <2>2, <2>3
<1>9. WorkOK' /\ PhaseOK'
  BY Zenon, <1>3, <1>4 DEF WorkOK, PhaseOK, Idle
<1> QED
  BY Zenon, <1>5, <1>6, <1>7, <1>8, <1>9 DEF IInv

\* Open ends with a fresh snapshot and the epoch of the identity file.
LEMMA FinishOpenOK ==
  ASSUME IInv, FinishOpen
  PROVE  IInv'
<1>1. /\ phase = "session" /\ phase' = "up" /\ epoch' = diskEpoch
      /\ snap' = [seq |-> seq, jnl |-> jnl]
      /\ UNCHANGED <<wal, torn, evFiles, resFile, payFile, diskEpoch>>
      /\ UNCHANGED <<jnl, seq, evIdx, resIdx, payIdx, records, poisoned, work, faults>>
  BY Zenon DEF FinishOpen, files, memory
<1>2. Opened /\ ~poisoned /\ work = NoWork
  BY Zenon, <1>1 DEF Opened, IInv, PhaseOK, WorkOK, Running
<1>3. jnl = Durable /\ seq = Len(wal)
  BY Zenon, <1>2 DEF IInv, MemoryOK
<1>4. Durable' = Durable
  BY Zenon, <1>1 DEF Durable, JournalAt
<1>5. TypeOK'
  BY Zenon, <1>1 DEF IInv, TypeOK
<1>6. DiskOK'
  <2>1. SnapshotMatches'
    <3>1. Len(wal) \in Nat
      BY DEF IInv, TypeOK
    <3>2. snap'.seq = Len(wal) /\ snap'.jnl = JournalAt(Len(wal))
      BY Zenon, <1>1, <1>3 DEF Durable
    <3> QED
      BY <1>1, <3>1, <3>2 DEF SnapshotMatches, JournalAt
  <2>2. \A i \in 1..Len(wal) : FrameReplays(i)' <=> FrameReplays(i)
    BY Zenon, <1>1 DEF FrameReplays, JournalAt
  <2>3. \A i \in 1..Len(wal') : FrameReplays(i)'
    BY Zenon, <1>1, <2>2 DEF IInv, DiskOK
  <2> QED
    BY  Zenon, <1>1, <1>4, <2>1, <2>3 DEF IInv, DiskOK
<1>7. MemoryOK'
  BY  Zenon, <1>1, <1>2, <1>4 DEF IInv, MemoryOK, Opened, IndexOK
<1>8. WorkOK' /\ CountedOK' /\ PhaseOK'
  BY Zenon, <1>1, <1>2 DEF IInv, WorkOK, CountedOK, PhaseOK
<1> QED
  BY Zenon, <1>5, <1>6, <1>7, <1>8 DEF IInv

-----------------------------------------------------------------------------
(* Durable returns and session epochs.                                     *)

\* The invariant makes what callers read from memory what the next open recovers.
LEMMA DurableReturns == IInv => MemoryIsDurable
<1> SUFFICES ASSUME IInv, phase = "up", Idle, ~poisoned, NEW a \in Attempts
             PROVE  View(jnl[a], payIdx[a]) = View(Recovered[a], payFile[a])
  BY Zenon DEF MemoryIsDurable
<1> DEFINE e == jnl[a]
<1>1. /\ e \in Entry /\ Durable[a] = e /\ IndexOK(a, e)
      /\ evIdx[a] \subseteq Seqs /\ evFiles[a] \subseteq Seqs
  BY Zenon, OpenFacts DEF Opened
<1>2. Counted(e, evIdx[a], resIdx[a])
  BY Zenon, RuntimeStoreAssumption DEF IInv, CountedOK, Idle, NoWork
<1>3. Counted(e, evFiles[a], resFile[a])
  BY Zenon, <1>1, <1>2 DEF Counted, IndexOK, HoldsSpool
<1>4. RecoveredEntry(e, evFiles[a], resFile[a]) = e
  <2>1. CASE e.state = "started"
    <3> DEFINE S == evFiles[a] \cup {e.last}
    <3>1. /\ e.last \in S /\ S \subseteq Nat /\ \A x \in S : x <= e.last
          /\ resFile[a] = NoFile
      BY <1>1, <1>3, <2>1 DEF Counted, Entry, Seqs
    <3> HIDE DEF S
    <3>2. Max(S) = e.last
      BY Zenon, <3>1, MaxIsBound
    <3>3. [e EXCEPT !.last = e.last] = e
      BY Zenon, <1>1 DEF Entry
    <3> HIDE DEF e
    <3> QED
      BY Zenon, <2>1, <3>1, <3>2, <3>3 DEF RecoveredEntry, S
  <2>2. CASE e.state # "started"
    BY Zenon, <2>2 DEF RecoveredEntry
  <2> QED
    BY Zenon, <2>1, <2>2
<1>5. Recovered[a] = e
  BY Zenon, <1>1, <1>4 DEF Recovered
<1>6. (payIdx[a] /\ ~e.deleted) = (payFile[a] /\ ~e.deleted)
  <2>1. e.deleted \in BOOLEAN /\ payIdx[a] \in BOOLEAN /\ payFile[a] \in BOOLEAN
    BY Zenon, <1>1 DEF Entry, IInv, TypeOK
  <2>2. payIdx[a] = payFile[a] \/ e.deleted
    BY Zenon, <1>1 DEF IndexOK
  <2> QED
    BY <2>1, <2>2, Zenon
<1> HIDE DEF e
<1> QED
  BY Zenon, <1>5, <1>6 DEF View, e

\* The identity file is never behind the session in use, and ahead of it while
\* a new session starts.
EpochOK == epoch <= diskEpoch /\ (phase = "session" => epoch < diskEpoch)

\* A step that ends an open ends it with a larger epoch than the last one.
EpochGrows == phase # "up" /\ phase' = "up" => epoch' > epoch

\* Every step keeps EpochOK and lets the epoch grow.
LEMMA EpochStep ==
  ASSUME TypeOK, EpochOK, [Next]_vars
  PROVE  EpochOK' /\ EpochGrows
<1> USE RuntimeStoreAssumption
<1>1. epoch \in Nat /\ diskEpoch \in Nat
  BY DEF TypeOK
<1>2. ASSUME UNCHANGED <<epoch, diskEpoch>>, phase' # "session" \/ phase = "session",
             phase' = "up" => phase = "up"
      PROVE  EpochOK' /\ EpochGrows
  BY Zenon, <1>2 DEF EpochOK, EpochGrows
<1>3. CASE Operation
  <2>1. UNCHANGED <<epoch, diskEpoch, phase>>
    BY Zenon, <1>3 DEF Operation, CreateAssignment, AdvanceAssignment, StoreAssignmentPayload,
       AppendEvent, StoreResult, AckEvent, AckResult, ClearTerminalEvents,
       DeleteAssignment, Perform, disk
  <2> QED
    BY Zenon, <1>2, <2>1
<1>4. CASE Step
  <2>1. UNCHANGED <<epoch, diskEpoch, phase>>
    BY Zenon, <1>4 DEF Step, StoreFile, atomicWriteDurable, appendJournalLocked, WriteFrame,
       writeJournalSnapshotLocked, WriteSnapshot, removeResultLocked, RemoveResultFile,
       removeEventLocked, RemoveEventFile, removeAssignmentPayloadLocked,
       RemovePayloadFile, Continue
  <2> QED
    BY Zenon, <1>2, <2>1
<1>5. CASE Crash \/ IOError
  <2>1. UNCHANGED <<epoch, diskEpoch>> /\ (phase' = "down" \/ phase' = phase)
    BY Zenon, <1>5 DEF Crash, IOError, InterruptedWrite, Forget, disk, atomicWriteDurable,
       WriteFrame, WriteSnapshot, RemoveResultFile, RemoveEventFile, RemovePayloadFile
  <2> QED
    BY Zenon, <1>2, <2>1
<1>6. CASE Close
  <2>1. UNCHANGED <<epoch, diskEpoch>> /\ phase' = "down"
    BY Zenon, <1>6 DEF Close, Forget, disk
  <2> QED
    BY Zenon, <1>2, <2>1
<1>7. CASE openFileRuntimeStore
  <2>1. UNCHANGED <<epoch, diskEpoch>> /\ phase' \in {"opening", "refused"}
    BY Zenon, <1>7 DEF openFileRuntimeStore, disk
  <2> QED
    BY Zenon, <1>2, <2>1
<1>8. CASE \/ reconcileAssignmentPayloadsLocked \/ reconcileStaleEvent
           \/ reconcileEventCounter \/ reconcileFinishedResult \/ reconcileAckedResult
  <2>1. UNCHANGED <<epoch, diskEpoch, phase>>
    BY Zenon, <1>8 DEF reconcileAssignmentPayloadsLocked, reconcileStaleEvent,
       reconcileEventCounter, reconcileFinishedResult, reconcileAckedResult, Repair, disk
  <2> QED
    BY Zenon, <1>2, <2>1
<1>9. CASE startRuntimeSession
  <2>1. /\ epoch' = epoch
        /\ \/ diskEpoch' = diskEpoch + 1 /\ phase' = "session"
           \/ diskEpoch' = diskEpoch /\ phase' = "refused"
    BY Zenon, <1>9 DEF startRuntimeSession
  <2> QED
    BY <1>1, <2>1 DEF EpochOK, EpochGrows
<1>10. CASE FinishOpen
  <2>1. phase = "session" /\ phase' = "up" /\ epoch' = diskEpoch /\ diskEpoch' = diskEpoch
    BY Zenon, <1>10 DEF FinishOpen
  <2> QED
    BY <1>1, <2>1 DEF EpochOK, EpochGrows
<1>11. CASE UNCHANGED vars
  BY Zenon, <1>2, <1>11 DEF vars
<1> QED
  BY Zenon, <1>3, <1>4, <1>5, <1>6, <1>7, <1>8, <1>9, <1>10, <1>11 DEF Next, Open
=============================================================================
