------------------------- MODULE RuntimeStoreProofs -------------------------
(***************************************************************************)
(* Loading a directory keeps the invariant of RuntimeStore, and the        *)
(* theorems that follow from it.  The facts about naturals and finite sets *)
(* that the argument needs are proved here, from the library.              *)
(***************************************************************************)
EXTENDS RuntimeStoreSteps, FiniteSetTheorems

-----------------------------------------------------------------------------
(* Facts about naturals and finite sets.                                   *)

\* A nonempty set of naturals has a least element.
LEMMA NaturalsWellOrdered == WellOrdered
<1> SUFFICES ASSUME NEW T \in SUBSET Nat, T # {}
             PROVE  \E x \in T : \A y \in T : x <= y
  BY DEF WellOrdered
<1> DEFINE R == OpToRel(<, Nat)
<1>1. IsWellFoundedOn(R, Nat)
  BY NatLessThanWellFounded
<1>2. PICK x \in T : \A y \in T : ~(<<y, x>> \in R)
  BY <1>1, WFMin
<1>3. \A y \in T : x <= y
  <2> SUFFICES ASSUME NEW y \in T, ~(x <= y)
               PROVE  FALSE
    OBVIOUS
  <2>1. y < x
    BY SMT
  <2>2. <<y, x>> \in R
    BY <2>1 DEF OpToRel
  <2> QED
    BY <1>2, <2>2
<1> QED
  BY <1>3

\* A part of a finite set has a number of elements.
LEMMA PartCounted ==
  ASSUME NEW S, IsFiniteSet(S), NEW T, T \subseteq S
  PROVE  Cardinality(T) \in Nat
  BY FS_Subset, FS_CardinalityType

\* Pairs of an element of a finite set and a number below a bound are finite.
LEMMA PairsFinite ==
  ASSUME NEW S, IsFiniteSet(S), NEW m \in Nat
  PROVE  IsFiniteSet(S \X (1..m))
<1>1. IsFiniteSet(1..m)
  BY FS_Interval
<1> QED
  BY <1>1, FS_Product

-----------------------------------------------------------------------------
(* Loading a directory.                                                    *)

\* The spool is finite, so the record count is a number.
LEMMA SpoolRecordsType ==
  ASSUME NEW ev, NEW res, NEW pay
  PROVE  SpoolRecords(ev, res, pay) \in Nat
<1> DEFINE E == {p \in Attempts \X Seqs : p[2] \in ev[p[1]]}
           R == {a \in Attempts : res[a] # NoFile}
           P == {a \in Attempts : pay[a]}
<1>1. IsFiniteSet(Attempts \X Seqs)
  BY RuntimeStoreAssumption, PairsFinite DEF Seqs
<1>2. Cardinality(E) \in Nat
  <2>1. E \subseteq Attempts \X Seqs
    OBVIOUS
  <2> QED
    BY <1>1, <2>1, PartCounted
<1>3. Cardinality(R) \in Nat /\ Cardinality(P) \in Nat
  BY RuntimeStoreAssumption, PartCounted
<1> QED
  BY <1>2, <1>3 DEF SpoolRecords

\* openFileRuntimeStore loads exactly what is durable.
LEMMA OpenStoreOK ==
  ASSUME WellOrdered, IInv, openFileRuntimeStore
  PROVE  IInv'
<1>1. /\ phase = "down" /\ diskEpoch < MaxEpoch
      /\ UNCHANGED <<wal, torn, snap, evFiles, resFile, payFile, diskEpoch>>
      /\ UNCHANGED <<poisoned, epoch, work, faults>>
  BY DEF openFileRuntimeStore, disk
<1>2. TypeOK /\ DiskOK /\ PhaseOK /\ WorkOK
  BY DEF IInv
<1>3. ~poisoned /\ work = NoWork
  BY <1>1, <1>2 DEF PhaseOK, WorkOK, Running
<1>4. DiskOK'
  <2>1. InterruptedWrite
    BY <1>1 DEF InterruptedWrite, disk
  <2> QED
    BY <2>1, InterruptedDisk
<1>5. CASE WALReplays /\ SnapshotMatches
  <2>1. /\ phase' = "opening" /\ jnl' = Durable /\ seq' = Len(wal)
        /\ evIdx' = evFiles /\ resIdx' = resFile /\ payIdx' = payFile
        /\ records' = SpoolRecords(evFiles, resFile, payFile)
    BY <1>5 DEF openFileRuntimeStore
  <2>2. Durable' = Durable
    BY <1>1 DEF Durable, JournalAt
  <2>3. Durable \in Journal /\ Len(wal) \in Nat
    <3> DEFINE F == [seq : Nat, jnl : Journal]
    <3>1. wal \in Seq(F) /\ Len(wal) \in Nat
      BY <1>2 DEF TypeOK
    <3>2. EmptyJournal \in Journal
      BY NoEntryOK DEF EmptyJournal, Journal
    <3>3. ASSUME Len(wal) # 0
          PROVE  wal[Len(wal)].jnl \in Journal
      <4>1. Len(wal) \in 1..Len(wal)
        BY <3>1, <3>3
      <4> HIDE DEF F
      <4>2. wal[Len(wal)] \in F
        BY <3>1, <4>1, SeqElement
      <4> QED
        BY <4>2 DEF F
    <3> QED
      BY <3>1, <3>2, <3>3 DEF Durable, JournalAt
  <2>4. TypeOK'
    BY <1>1, <1>2, <2>1, <2>3, SpoolRecordsType DEF TypeOK
  <2>5. MemoryOK'
    BY <1>1, <2>1, <2>2 DEF MemoryOK, IndexOK
  <2>6. WorkOK' /\ CountedOK' /\ PhaseOK'
    BY <1>1, <1>3, <2>1 DEF WorkOK, CountedOK, PhaseOK
  <2> QED
    BY <1>4, <2>4, <2>5, <2>6 DEF IInv
<1>6. CASE ~(WALReplays /\ SnapshotMatches)
  <2>1. phase' = "refused" /\ UNCHANGED <<jnl, seq, evIdx, resIdx, payIdx, records>>
    BY <1>6 DEF openFileRuntimeStore, memory
  <2>2. torn
    BY <1>2, <1>6 DEF WALReplays, DiskOK
  <2>3. TypeOK'
    BY <1>1, <1>2, <2>1 DEF TypeOK
  <2>4. MemoryOK' /\ WorkOK' /\ CountedOK'
    BY <1>1, <1>3, <2>1 DEF MemoryOK, Opened, WorkOK, CountedOK
  <2>5. PhaseOK'
    BY <1>1, <1>3, <2>1, <2>2 DEF PhaseOK
  <2> QED
    BY <1>4, <2>3, <2>4, <2>5 DEF IInv
<1> QED
  BY <1>5, <1>6

\* Every step of open keeps the invariant.
LEMMA OpenOK ==
  ASSUME WellOrdered, IInv, Open
  PROVE  IInv'
  BY OpenStoreOK, ReconcilePayloadsOK, ReconcileStaleEventOK, ReconcileEventCounterOK,
     ReconcileFinishedResultOK, ReconcileAckedResultOK, StartSessionOK, FinishOpenOK DEF Open

-----------------------------------------------------------------------------
(* The theorems.                                                           *)

\* IInv is an invariant: it holds initially, and every operation, disk write,
\* crash, I/O error and open step keeps it.
THEOREM StoreInvariant == Spec => []IInv
<1>1. IInv /\ [Next]_vars => IInv'
  BY NaturalsWellOrdered, OperationOK, StepOK, OpenOK, CloseOK, CrashOK, IOErrorOK, StutterOK
  DEF Next
<1> QED
  BY InitOK, <1>1, PTL DEF Spec

\* Every variable keeps its type.
THEOREM TypeCorrect == Spec => []TypeOK
<1>1. IInv => TypeOK
  BY DEF IInv
<1> QED
  BY StoreInvariant, <1>1, PTL

\* openFileRuntimeStore reports corruption only when the WAL really ends in an
\* incomplete frame, however many crashes and I/O errors came before.
THEOREM ReopensUnlessTorn == Spec => []RefusedOnlyWhenTorn
<1>1. IInv => RefusedOnlyWhenTorn
  BY DEF IInv, PhaseOK, RefusedOnlyWhenTorn
<1> QED
  BY StoreInvariant, <1>1, PTL

\* The event and result files of an assignment are gone before its deletion is
\* durable, and its payload file before the next session.
THEOREM DeletionIsClean == Spec => []DeletedLeavesNothing
<1>1. IInv => DeletedLeavesNothing
  <2> SUFFICES ASSUME IInv, NEW a \in Attempts, Durable[a].deleted
               PROVE  evFiles[a] = {} /\ resFile[a] = NoFile /\ (phase = "session" => ~payFile[a])
    BY DEF DeletedLeavesNothing
  <2>1. evFiles[a] = {} /\ resFile[a] = NoFile
    BY  Zenon DEF IInv, DiskOK, FilesOK, Live
  <2>2. phase = "session" => ~payFile[a]
    BY  Zenon DEF IInv, MemoryOK, PhaseOK, Opened
  <2> QED
    BY <2>1, <2>2
<1> QED
  BY StoreInvariant, <1>1, PTL

\* What callers read from memory is what the next open recovers.
THEOREM ReturnsAreDurable == Spec => []MemoryIsDurable
  BY StoreInvariant, DurableReturns, PTL

\* The session epoch of a data directory only ever increases.
THEOREM EpochsIncrease == Spec => SessionEpochsIncrease
<1>1. Init => EpochOK
  BY DEF Init, EpochOK
<1>2. TypeOK /\ EpochOK /\ [Next]_vars => EpochOK'
  BY EpochStep
<1>3. TypeOK /\ EpochOK /\ [Next]_vars => [EpochGrows]_vars
  BY EpochStep
<1> QED
  BY <1>1, <1>2, <1>3, TypeCorrect, PTL DEF Spec, SessionEpochsIncrease, EpochGrows
=============================================================================
