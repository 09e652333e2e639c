------------------------ MODULE SegmentBuffer_proofs ------------------------
(* Proofs about the segment buffer, for every value of its constants. *)
EXTENDS SegmentBuffer, FiniteSetTheorems, TLAPS

-----------------------------------------------------------------------------
(* Type correctness *)

\* What the buffer chooses to evict or to pin is part of its ring.
LEMMA ChosenFromRing ==
  /\ Evictable \subseteq committed
  /\ \A d \in Nat : WithinLast(d) \subseteq committed
BY DEF Evictable, WithinLast

\* Whatever the capture time of a frame, its fragment is stamped after the last.
LEMMA NextPtsRises ==
  ASSUME pts \in Nat, NEW g \in Gaps
  PROVE  NextPts(pts + g) \in Nat /\ pts < NextPts(pts + g)
<1>1. g \in Int
  BY ConstantsAssumption
<1> QED
  BY <1>1 DEF NextPts

\* A fragment pushed into a well-typed pending segment leaves one.
LEMMA AccumulateType ==
  ASSUME NEW f \in Fragment, pending \in Pending, pts \in Nat, format \in Format
  PROVE  Accumulate(pending, f) \in Pending
BY DEF Accumulate, Pending, Fragment

\* The bounds are natural numbers.
LEMMA BoundsAreNat ==
  /\ Target \in Nat /\ Window \in Nat /\ DiskCap \in Nat
  /\ MaxIndex \in Nat /\ MaxPts \in Nat /\ MaxFormat \in Nat /\ MaxFaults \in Nat
BY ConstantsAssumption

\* The initial state is well typed.
LEMMA InitType == Init => TypeOK
<1> SUFFICES ASSUME Init PROVE TypeOK
  OBVIOUS
<1>1. 0 \in Index /\ 0 \in Format
  BY BoundsAreNat DEF Index, Format
<1>2. EmptyPending \in Pending /\ NoSegment \in Segment
  BY <1>1 DEF EmptyPending, Pending, NoSegment, Segment
<1>3. frag \in Fragment
  BY DEF Init, Fragment
<1>4. EncoderTypeOK
  BY <1>1, <1>3 DEF Init, EncoderTypeOK
<1>5. LockTypeOK
  BY DEF Init, LockTypeOK
<1>6. RingTypeOK
  BY <1>1, <1>2 DEF Init, RingTypeOK
<1>7. PendingTypeOK
  BY <1>2 DEF Init, PendingTypeOK
<1>8. SnapshotTypeOK
  BY DEF Init, SnapshotTypeOK
<1>9. DiskTypeOK
  BY DEF Init, DiskTypeOK
<1> QED
  BY <1>4, <1>5, <1>6, <1>7, <1>8, <1>9 DEF TypeOK

-----------------------------------------------------------------------------
\* Every step keeps every type; one step per action.
LEMMA NextType == TypeOK /\ [Next]_vars => TypeOK'
<1> SUFFICES ASSUME TypeOK, [Next]_vars PROVE TypeOK'
  OBVIOUS
<1> USE DEF TypeOK, EncoderTypeOK, LockTypeOK, RingTypeOK, PendingTypeOK,
   SnapshotTypeOK, DiskTypeOK, encoderVars, lockVars, segmentVars, pendingVars,
   snapshotVars, diskVars, processVars
<1>1. CASE Configure
  BY <1>1 DEF Configure
<1>2. CASE PersistInit
  <2>1. DiskTypeOK'
    BY <1>2 DEF PersistInit
  <2>2. EncoderTypeOK' /\ LockTypeOK' /\ RingTypeOK'
    BY <1>2 DEF PersistInit
  <2>3. PendingTypeOK' /\ SnapshotTypeOK'
    BY <1>2 DEF PersistInit
  <2> QED
    BY <2>1, <2>2, <2>3
<1>3. CASE PersistInitFails
  BY <1>3 DEF PersistInitFails, Fault
<1>4. CASE EndOfStream
  BY <1>4 DEF EndOfStream
<1>5. CASE SetClosing
  BY <1>5 DEF SetClosing
<1>6. ASSUME NEW f \in Fragment, DropFragment(f) PROVE TypeOK'
  BY <1>6 DEF DropFragment, Fragment
<1>7. ASSUME NEW f \in Fragment, Push(f) PROVE TypeOK'
  BY <1>7, AccumulateType DEF Push, AppendFragment, AfterPush, Fragment
<1>8. ASSUME NEW u \in {"push", "format", "finalize"}, CommitPending(u), seenKey' \in BOOLEAN,
             frag' \in Fragment, nextIndex < MaxIndex
      PROVE  TypeOK'
  <2>1. nextIndex' \in Index
    BY <1>8, BoundsAreNat DEF CommitPending, Index
  <2>2. seg' \in [Index -> Segment]
    BY <1>8 DEF CommitPending, Segment, Pending
  <2>3. pending' \in Pending
    BY <1>8 DEF CommitPending, EmptyPending, Pending, Format
  <2>4. committed' \subseteq Index
    BY <1>8 DEF CommitPending
  <2>5. victims' \subseteq committed'
    BY <1>8, ChosenFromRing DEF CommitPending, Evictable
  <2>6. bytes' \in Int
    BY <1>8 DEF CommitPending, Pending
  <2> QED
    BY <1>8, <2>1, <2>2, <2>3, <2>4, <2>5, <2>6 DEF CommitPending
<1>9. ASSUME NEW u \in {"push", "format", "finalize"}, CommitPendingFails(u),
             seenKey' \in BOOLEAN, frag' \in Fragment, nextIndex < MaxIndex
      PROVE  TypeOK'
  <2>1. nextIndex' \in Index
    BY <1>9, BoundsAreNat DEF CommitPendingFails, Index
  <2> QED
    BY <1>9, <2>1 DEF CommitPendingFails, Fault
<1>10. ASSUME NEW f \in Fragment, PushCommits(f) PROVE TypeOK'
  <2>1. /\ CommitPending("push") \/ CommitPendingFails("push")
        /\ seenKey' \in BOOLEAN /\ frag' \in Fragment /\ nextIndex < MaxIndex
    BY <1>10, BoundsAreNat DEF PushCommits, Index
  <2> HIDE DEF TypeOK
  <2> QED
    BY <2>1, <1>8, <1>9
<1>11. CASE FormatChange
  <2>1. format' \in Format
    BY <1>11 DEF FormatChange, MarkFormatChange, Format
  <2>2. PendingTypeOK'
    BY <1>11 DEF FormatChange, MarkFormatChange
  <2>3. EncoderTypeOK' /\ LockTypeOK'
    BY <1>11, <2>1 DEF FormatChange
  <2>4. RingTypeOK' /\ SnapshotTypeOK' /\ DiskTypeOK'
    BY <1>11 DEF FormatChange
  <2> QED
    BY <2>2, <2>3, <2>4
<1>12. CASE FormatChangeCommits
  <2>1. /\ CommitPending("format") \/ CommitPendingFails("format")
        /\ seenKey' \in BOOLEAN /\ frag' \in Fragment /\ nextIndex < MaxIndex
    BY <1>12, BoundsAreNat DEF FormatChangeCommits, Index
  <2> HIDE DEF TypeOK
  <2> QED
    BY <2>1, <1>8, <1>9
<1>13. CASE Finalize
  BY <1>13 DEF Finalize
<1>14. CASE FinalizeCommits
  <2>1. /\ CommitPending("finalize") \/ CommitPendingFails("finalize")
        /\ seenKey' \in BOOLEAN /\ frag' \in Fragment /\ nextIndex < MaxIndex
    BY <1>14, BoundsAreNat DEF FinalizeCommits, Index
  <2> HIDE DEF TypeOK
  <2> QED
    BY <2>1, <1>8, <1>9
<1>15. CASE EvictOne
  <2>1. PICK i \in victims :
          /\ victims' = victims \ {i}
          /\ \/ RemoveSegment(i) /\ UNCHANGED faults
             \/ Fault /\ UNCHANGED <<files, committed, bytes, removed>>
    BY <1>15 DEF EvictOne
  <2>2. seg[i].size \in Nat
    BY DEF Segment
  <2>3. CASE RemoveSegment(i) /\ UNCHANGED faults
    BY <1>15, <2>1, <2>2, <2>3 DEF EvictOne, RemoveSegment
  <2>4. CASE Fault /\ UNCHANGED <<files, committed, bytes, removed>>
    BY <1>15, <2>1, <2>4 DEF EvictOne, Fault
  <2> QED
    BY <2>1, <2>3, <2>4
<1>16. CASE EvictDone
  BY <1>16 DEF EvictDone
<1>17. CASE PushEnds
  BY <1>17, AccumulateType DEF PushEnds, WriteManifest, AppendFragment, AfterPush, Fragment
<1>18. CASE FormatChangeEnds
  <2>1. format' \in Format
    BY <1>18 DEF FormatChangeEnds, MarkFormatChange, Format
  <2> QED
    BY <1>18, <2>1 DEF FormatChangeEnds, WriteManifest, MarkFormatChange
<1>19. CASE FinalizeEnds
  BY <1>19 DEF FinalizeEnds, WriteManifest
<1>20. CASE ReleaseEnds
  BY <1>20 DEF ReleaseEnds, WriteManifest
<1>21. CASE WriteManifestFails
  BY <1>21 DEF WriteManifestFails, Fault
<1>22. CASE StopSession
  BY <1>22 DEF StopSession, UnchangedByRpc
<1>23. ASSUME NEW s \in Snap, NEW p \in {"free", "waiting", "pinning", "pinned", "held",
                                         "unpinning", "leaked"}, SetPhase(s, p)
       PROVE  phase' \in [Snap -> {"free", "waiting", "pinning", "pinned", "held",
                                   "unpinning", "leaked"}]
  BY <1>23 DEF SetPhase
<1>24. ASSUME NEW s \in Snap, Save(s) PROVE TypeOK'
  BY <1>23, <1>24 DEF Save, UnchangedByRpc
<1>25. ASSUME NEW s \in Snap, SaveSeesClose(s) PROVE TypeOK'
  BY <1>23, <1>25 DEF SaveSeesClose, UnchangedByRpc
<1>26. ASSUME NEW s \in Snap, SaveTimesOut(s) PROVE TypeOK'
  BY <1>23, <1>26 DEF SaveTimesOut, UnchangedByRpc
<1>27. ASSUME NEW s \in Snap, RegisterSnapshot(s) PROVE TypeOK'
  BY <1>23, <1>27 DEF RegisterSnapshot, UnchangedByRpc
<1>28. ASSUME NEW s \in Snap, RemoveSnapshot(s) PROVE TypeOK'
  BY <1>23, <1>28 DEF RemoveSnapshot, UnchangedByRpc
<1>29. ASSUME NEW s \in Snap, AbortDispatch(s) PROVE TypeOK'
  BY <1>23, <1>29 DEF AbortDispatch, UnchangedByRpc
<1>30. ASSUME NEW s \in Snap, NEW d \in SaveDurations, PinSnapshot(s, d) PROVE TypeOK'
  <2>1. d \in Nat /\ WithinLast(d) \subseteq Index
    BY ConstantsAssumption, ChosenFromRing
  <2>2. pins' \in [Index -> Nat] /\ held' \in [Snap -> SUBSET Index]
    BY <1>30, <2>1 DEF PinSnapshot, PinAll
  <2>3. phase' \in [Snap -> {"free", "waiting", "pinning", "pinned", "held",
                             "unpinning", "leaked"}]
    BY <1>23, <1>30 DEF PinSnapshot
  <2> QED
    BY <1>30, <2>2, <2>3 DEF PinSnapshot, UnchangedByRpc
<1>31. ASSUME NEW s \in Snap, ReleaseSnapshot(s) PROVE TypeOK'
  <2>1. pins' \in [Index -> Nat]
    BY <1>31 DEF ReleaseSnapshot
  <2>2. held' \in [Snap -> SUBSET Index]
    BY <1>31 DEF ReleaseSnapshot
  <2>3. phase' \in [Snap -> {"free", "waiting", "pinning", "pinned", "held",
                             "unpinning", "leaked"}]
    BY <1>23, <1>31 DEF ReleaseSnapshot
  <2>4. victims' \subseteq committed'
    BY <1>31, ChosenFromRing DEF ReleaseSnapshot, Evictable
  <2>5. EncoderTypeOK' /\ PendingTypeOK' /\ DiskTypeOK'
    BY <1>31 DEF ReleaseSnapshot, UnchangedByRpc
  <2>6. RingTypeOK'
    BY <1>31, <2>1 DEF ReleaseSnapshot, UnchangedByRpc
  <2>7. LockTypeOK'
    BY <1>31, <2>4, <2>6 DEF ReleaseSnapshot
  <2>8. SnapshotTypeOK'
    BY <2>2, <2>3
  <2> QED
    BY <2>5, <2>6, <2>7, <2>8
<1>32. CASE Crash
  BY <1>32 DEF Crash, UnchangedByProcess
<1>33. CASE Scan
  BY <1>33 DEF Scan, UnchangedByProcess
<1>34. CASE UNCHANGED vars
  BY <1>34 DEF vars
<1>35. CASE Encoder
  <2>1. ASSUME NEW g \in Gaps, NEW k \in BOOLEAN, NEW d \in FragDurations, NEW b \in FragSizes
        PROVE  [pts |-> NextPts(pts + g), key |-> k, dur |-> d, size |-> b] \in Fragment
    BY NextPtsRises, ConstantsAssumption DEF Fragment
  <2> QED
    BY <1>35, <2>1, <1>1, <1>2, <1>3, <1>4, <1>5, <1>6, <1>7, <1>10, <1>11, <1>12,
       <1>13, <1>14 DEF Encoder
<1> QED
  BY <1>35, <1>15, <1>16, <1>17, <1>18, <1>19, <1>20, <1>21, <1>22, <1>24, <1>25, <1>26,
     <1>27, <1>28, <1>29, <1>30, <1>31, <1>32, <1>33, <1>34 DEF Next, UnderLock, Rpc

\* TypeOK: every variable of the buffer keeps its type.
THEOREM TypeCorrect == Spec => []TypeOK
<1>1. Init => TypeOK
  BY InitType
<1>2. TypeOK /\ [Next]_vars => TypeOK'
  BY NextType
<1> QED
  BY <1>1, <1>2, PTL DEF Spec

-----------------------------------------------------------------------------
(* Pins *)

\* The steps that leave pin counts and snapshots alone.
SnapshotsUntouched == UNCHANGED <<pins, held>> /\ \A s \in Snap : Pinning(s)' = Pinning(s)

\* Such a step keeps the pin counts exact.
LEMMA HoldersUntouched ==
  ASSUME SnapshotsUntouched, PinsExact
  PROVE  PinsExact'
BY DEF SnapshotsUntouched, PinsExact, Holders

\* Finitely many snapshots hold a segment, so their number is a natural number.
LEMMA HoldersAreFinite ==
  \A i \in Index : IsFiniteSet(Holders(i)) /\ Cardinality(Holders(i)) \in Nat
<1> TAKE i \in Index
<1>1. IsFiniteSet(Snap) /\ Holders(i) \subseteq Snap
  BY ConstantsAssumption DEF Holders
<1> QED
  BY <1>1, FS_Subset, FS_CardinalityType

\* PinInv, the inductive form of PinsExact and PinnedOnDisk, holds initially.
LEMMA InitPins == Init => PinInv
<1> SUFFICES ASSUME Init PROVE PinInv
  OBVIOUS
<1>1. \A i \in Index : Holders(i) = {}
  BY DEF Init, Holders, Pinning
<1>2. PinsExact
  BY <1>1, FS_EmptySet DEF Init, PinsExact
<1> QED
  BY <1>2 DEF Init, PinInv, HeldByHolders, RingOnDisk, VictimsUnpinned, StoredBelowNext

\* The parts of PinInv that a step leaves alone when it changes none of their
\* variables.
LEMMA DiskUntouched ==
  ASSUME PinInv, UNCHANGED <<pins, held, phase, lockVars, segmentVars, files, stage, nextIndex>>
  PROVE  PinInv'
BY DEF PinInv, PinsExact, Holders, HeldByHolders, RingOnDisk, VictimsUnpinned,
   StoredBelowNext, Pinning, Unpinned, lockVars, segmentVars

\* A commit adds a segment nobody holds and chooses unpinned victims.
LEMMA CommitKeepsPins ==
  ASSUME TypeOK, PinInv, NEW u, CommitPending(u), nextIndex < MaxIndex
  PROVE  PinInv'
<1> USE DEF PinInv, snapshotVars
<1>1. SnapshotsUntouched
  BY DEF CommitPending, SnapshotsUntouched, Pinning
<1>2. PinsExact'
  BY <1>1, HoldersUntouched
<1>3. HeldByHolders'
  BY DEF CommitPending, HeldByHolders, Pinning
<1>4. RingOnDisk'
  BY DEF CommitPending, RingOnDisk, processVars
<1>5. VictimsUnpinned'
  BY DEF CommitPending, VictimsUnpinned, Evictable
<1>6. StoredBelowNext'
  BY DEF CommitPending, StoredBelowNext, TypeOK, RingTypeOK, Index
<1> QED
  BY <1>2, <1>3, <1>4, <1>5, <1>6

\* A commit that fails can only leave a file of an index that is used up.
LEMMA CommitFailsKeepsPins ==
  ASSUME TypeOK, PinInv, NEW u, CommitPendingFails(u), nextIndex < MaxIndex
  PROVE  PinInv'
<1> USE DEF PinInv, snapshotVars
<1>1. SnapshotsUntouched
  BY DEF CommitPendingFails, SnapshotsUntouched, Pinning
<1>2. PinsExact'
  BY <1>1, HoldersUntouched
<1>3. HeldByHolders' /\ RingOnDisk' /\ VictimsUnpinned'
  BY DEF CommitPendingFails, HeldByHolders, RingOnDisk, VictimsUnpinned, Pinning, Unpinned,
     processVars, segmentVars, lockVars
<1>4. StoredBelowNext'
  BY DEF CommitPendingFails, StoredBelowNext, TypeOK, RingTypeOK, Index, segmentVars
<1> QED
  BY <1>2, <1>3, <1>4

\* A removal takes an unpinned segment, so no snapshot that counts holds it.
LEMMA EvictionKeepsPins ==
  ASSUME TypeOK, PinInv, EvictOne
  PROVE  PinInv'
<1> USE DEF PinInv, snapshotVars
<1>1. PICK i \in victims :
        /\ victims' = victims \ {i}
        /\ \/ RemoveSegment(i) /\ UNCHANGED faults
           \/ Fault /\ UNCHANGED <<files, committed, bytes, removed>>
  BY DEF EvictOne
<1>2. i \in Index /\ i \in committed /\ pins[i] = 0
  BY DEF EvictOne, VictimsUnpinned, Unpinned, TypeOK, LockTypeOK
<1>3. Holders(i) = {}
  BY <1>2, HoldersAreFinite, FS_EmptySet DEF PinsExact
<1>4. \A s \in Snap : i \notin held[s]
  BY <1>3 DEF Holders, HeldByHolders
<1>5. SnapshotsUntouched
  BY DEF EvictOne, SnapshotsUntouched, Pinning
<1>6. PinsExact'
  BY <1>5, HoldersUntouched
<1>7. HeldByHolders'
  BY <1>1, <1>4 DEF EvictOne, RemoveSegment, HeldByHolders, Pinning
<1>8. RingOnDisk'
  BY <1>1 DEF EvictOne, RemoveSegment, RingOnDisk, processVars
<1>9. VictimsUnpinned'
  BY <1>1 DEF EvictOne, RemoveSegment, VictimsUnpinned, Unpinned
<1>10. StoredBelowNext'
  BY DEF EvictOne, StoredBelowNext
<1> QED
  BY <1>6, <1>7, <1>8, <1>9, <1>10

\* A pin adds one snapshot to the holders of each segment it takes.
LEMMA PinKeepsPins ==
  ASSUME TypeOK, PinInv, NEW s \in Snap, NEW d \in SaveDurations, PinSnapshot(s, d)
  PROVE  PinInv'
<1> USE DEF PinInv
<1> DEFINE refs == WithinLast(d)
<1>1. d \in Nat /\ refs \subseteq committed /\ refs \subseteq Index
  BY ConstantsAssumption, ChosenFromRing DEF TypeOK, RingTypeOK
<1>2. /\ pins' = PinAll(refs) /\ held' = [held EXCEPT ![s] = refs]
      /\ phase' = [phase EXCEPT ![s] = IF refs = {} THEN "free" ELSE "pinned"]
      /\ UNCHANGED <<lockVars, segmentVars, nextIndex, files, stage>> /\ lock = "free"
  BY DEF PinSnapshot, SetPhase, UnchangedByRpc, diskVars, processVars
<1>3. ~Pinning(s) /\ held[s] = {}
  BY DEF PinSnapshot, Pinning, HeldByHolders
<1> HIDE DEF refs
<1>4. \A t \in Snap \ {s} : Pinning(t)' = Pinning(t) /\ held'[t] = held[t]
  BY <1>2 DEF Pinning, TypeOK, SnapshotTypeOK
<1>5. /\ Pinning(s)' = (refs # {})
      /\ held'[s] = refs
  BY <1>2 DEF Pinning, TypeOK, SnapshotTypeOK
<1>6. PinsExact'
  <2> SUFFICES ASSUME NEW i \in Index PROVE pins'[i] = Cardinality(Holders(i)')
    BY DEF PinsExact
  <2>1. pins[i] = Cardinality(Holders(i)) /\ IsFiniteSet(Holders(i))
    BY HoldersAreFinite DEF PinsExact
  <2>2. CASE i \in refs
    <3>1. Holders(i)' = Holders(i) \cup {s} /\ s \notin Holders(i)
      BY <1>3, <1>4, <1>5, <2>2 DEF Holders
    <3>2. pins'[i] = pins[i] + 1
      BY <1>2, <2>2 DEF PinAll
    <3> QED
      BY <2>1, <3>1, <3>2, FS_AddElement
  <2>3. CASE i \notin refs
    <3>1. Holders(i)' = Holders(i)
      BY <1>3, <1>4, <1>5, <2>3 DEF Holders
    <3>2. pins'[i] = pins[i]
      BY <1>2, <2>3 DEF PinAll
    <3> QED
      BY <2>1, <3>1, <3>2
  <2> QED
    BY <2>2, <2>3
<1>7. HeldByHolders'
  BY <1>1, <1>2, <1>4, <1>5 DEF HeldByHolders, segmentVars
<1>8. RingOnDisk' /\ VictimsUnpinned' /\ StoredBelowNext'
  BY <1>2 DEF RingOnDisk, VictimsUnpinned, StoredBelowNext, segmentVars, lockVars
<1> QED
  BY <1>6, <1>7, <1>8

\* A release takes one snapshot away from the holders of each of its segments.
LEMMA ReleaseKeepsPins ==
  ASSUME TypeOK, PinInv, NEW s \in Snap, ReleaseSnapshot(s)
  PROVE  PinInv'
<1> USE DEF PinInv
<1>1. /\ held' = [held EXCEPT ![s] = {}]
      /\ phase' = [phase EXCEPT ![s] = "free"]
      /\ UNCHANGED <<segmentVars, nextIndex, files, stage>>
  BY DEF ReleaseSnapshot, SetPhase, UnchangedByRpc, diskVars, processVars
<1>2. Pinning(s) /\ held[s] \subseteq committed
  BY DEF ReleaseSnapshot, Pinning, HeldByHolders
<1>3. \A t \in Snap \ {s} : Pinning(t)' = Pinning(t) /\ held'[t] = held[t]
  BY <1>1 DEF Pinning, TypeOK, SnapshotTypeOK
<1>4. ~Pinning(s)' /\ held'[s] = {}
  BY <1>1 DEF Pinning, TypeOK, SnapshotTypeOK
<1>5. PinsExact'
  <2> SUFFICES ASSUME NEW i \in Index PROVE pins'[i] = Cardinality(Holders(i)')
    BY DEF PinsExact
  <2>1. /\ pins[i] = Cardinality(Holders(i)) /\ IsFiniteSet(Holders(i)) /\ pins[i] \in Nat
    BY HoldersAreFinite DEF PinsExact
  <2>2. CASE i \in held[s]
    <3>1. Holders(i)' = Holders(i) \ {s} /\ s \in Holders(i)
      BY <1>2, <1>3, <1>4, <2>2 DEF Holders
    <3>2. Cardinality(Holders(i)') = Cardinality(Holders(i)) - 1
      BY <2>1, <3>1, FS_RemoveElement
    <3>3. IsFiniteSet(Holders(i) \ {s}) /\ Cardinality(Holders(i) \ {s}) \in Nat
      BY <2>1, FS_RemoveElement, FS_CardinalityType
    <3>4. pins[i] > 0
      BY <2>1, <3>1, <3>2, <3>3
    <3>5. pins'[i] = pins[i] - 1
      BY <1>2, <2>2, <3>4 DEF ReleaseSnapshot
    <3> QED
      BY <2>1, <3>2, <3>5
  <2>3. CASE i \notin held[s]
    <3>1. Holders(i)' = Holders(i)
      BY <1>3, <1>4, <2>3 DEF Holders
    <3>2. pins'[i] = pins[i]
      BY <2>3 DEF ReleaseSnapshot
    <3> QED
      BY <2>1, <3>1, <3>2
  <2> QED
    BY <2>2, <2>3
<1>6. HeldByHolders'
  BY <1>1, <1>3, <1>4 DEF HeldByHolders, segmentVars
<1>7. RingOnDisk' /\ StoredBelowNext'
  BY <1>1 DEF RingOnDisk, StoredBelowNext, segmentVars
<1>8. VictimsUnpinned'
  BY DEF ReleaseSnapshot, VictimsUnpinned, Evictable
<1> QED
  BY <1>5, <1>6, <1>7, <1>8

\* A request that moves on without pinning or unpinning.
LEMMA PhaseKeepsPins ==
  ASSUME TypeOK, PinInv, NEW s \in Snap, NEW p, SetPhase(s, p),
         (p \in {"pinned", "held", "unpinning", "leaked"}) = Pinning(s),
         UNCHANGED <<pins, held, lockVars, segmentVars, files, stage, nextIndex>>
  PROVE  PinInv'
<1> USE DEF PinInv
<1>1. SnapshotsUntouched
  BY DEF SetPhase, SnapshotsUntouched, Pinning, TypeOK, SnapshotTypeOK
<1>2. PinsExact'
  BY <1>1, HoldersUntouched
<1>3. HeldByHolders'
  BY <1>1 DEF SnapshotsUntouched, HeldByHolders, segmentVars
<1>4. RingOnDisk' /\ VictimsUnpinned' /\ StoredBelowNext'
  BY DEF RingOnDisk, VictimsUnpinned, StoredBelowNext, segmentVars, lockVars, Unpinned
<1> QED
  BY <1>2, <1>3, <1>4

\* The lock moves on without choosing new victims.
LEMMA LockKeepsPins ==
  ASSUME PinInv, UNCHANGED <<pins, held, phase, victims, segmentVars, files, stage, nextIndex>>,
         lock' # "evict"
  PROVE  PinInv'
BY DEF PinInv, PinsExact, Holders, HeldByHolders, RingOnDisk, VictimsUnpinned,
   StoredBelowNext, Pinning, segmentVars

\* Every step keeps PinInv.
LEMMA NextPins == TypeOK /\ PinInv /\ [Next]_vars => PinInv'
<1> SUFFICES ASSUME TypeOK, PinInv, [Next]_vars PROVE PinInv'
  OBVIOUS
<1>1. CASE Encoder
  <2>1. ASSUME NEW u, CommitPending(u) \/ CommitPendingFails(u), nextIndex < MaxIndex
        PROVE  PinInv'
    BY <2>1, CommitKeepsPins, CommitFailsKeepsPins
  <2>2. nextIndex \in Int /\ MaxIndex \in Int
    BY BoundsAreNat DEF TypeOK, RingTypeOK, Index
  <2>3. ASSUME NEW f, PushCommits(f) PROVE PinInv'
    BY <2>1, <2>2, <2>3 DEF PushCommits
  <2>4. CASE FormatChangeCommits
    BY <2>1, <2>2, <2>4 DEF FormatChangeCommits
  <2>5. CASE FinalizeCommits
    BY <2>1, <2>5 DEF FinalizeCommits
  <2>6. ASSUME NEW f, DropFragment(f) \/ Push(f) PROVE PinInv'
    BY <2>6, DiskUntouched DEF DropFragment, Push, snapshotVars, diskVars, processVars
  <2>7. CASE Configure \/ PersistInit \/ PersistInitFails \/ EndOfStream \/ SetClosing
    BY <2>7, DiskUntouched DEF Configure, PersistInit, PersistInitFails, EndOfStream,
       SetClosing, snapshotVars, diskVars, processVars
  <2>8. CASE FormatChange \/ Finalize
    BY <2>8, DiskUntouched DEF FormatChange, Finalize, snapshotVars, diskVars, processVars
  <2> QED
    BY <1>1, <2>3, <2>4, <2>5, <2>6, <2>7, <2>8 DEF Encoder
<1>2. CASE UnderLock
  <2>1. CASE EvictOne
    BY <2>1, EvictionKeepsPins
  <2>2. CASE EvictDone
    BY <2>2, LockKeepsPins DEF EvictDone, snapshotVars, diskVars, processVars
  <2>3. ASSUME NEW u, WriteManifest(u) PROVE PinInv'
    BY <2>3, LockKeepsPins DEF WriteManifest, snapshotVars, processVars
  <2>4. CASE WriteManifestFails
    BY <2>4, LockKeepsPins DEF WriteManifestFails, snapshotVars, processVars
  <2> QED
    BY <1>2, <2>1, <2>2, <2>3, <2>4 DEF UnderLock, PushEnds, FormatChangeEnds, FinalizeEnds,
       ReleaseEnds
<1>3. CASE Rpc
  <2>1. CASE StopSession
    BY <2>1, DiskUntouched DEF StopSession, UnchangedByRpc, snapshotVars, diskVars, processVars
  <2>2. ASSUME NEW s \in Snap, Save(s) \/ SaveSeesClose(s) \/ SaveTimesOut(s)
        PROVE  PinInv'
    BY <2>2, PhaseKeepsPins DEF Save, SaveSeesClose, SaveTimesOut, Pinning, UnchangedByRpc,
       diskVars, processVars
  <2>3. ASSUME NEW s \in Snap, RegisterSnapshot(s) \/ RemoveSnapshot(s)
        PROVE  PinInv'
    BY <2>3, PhaseKeepsPins DEF RegisterSnapshot, RemoveSnapshot, Pinning, UnchangedByRpc,
       diskVars, processVars
  <2>4. ASSUME NEW s \in Snap, AbortDispatch(s) PROVE PinInv'
    BY <2>4, PhaseKeepsPins DEF AbortDispatch, Pinning, UnchangedByRpc, diskVars, processVars
  <2>5. ASSUME NEW s \in Snap, ReleaseSnapshot(s) PROVE PinInv'
    BY <2>5, ReleaseKeepsPins
  <2>6. ASSUME NEW s \in Snap, NEW d \in SaveDurations, PinSnapshot(s, d) PROVE PinInv'
    BY <2>6, PinKeepsPins
  <2> QED
    BY <1>3, <2>1, <2>2, <2>3, <2>4, <2>5, <2>6 DEF Rpc
<1>4. CASE Crash
  BY <1>4 DEF Crash, UnchangedByProcess, PinInv, PinsExact, Holders, HeldByHolders, RingOnDisk,
     VictimsUnpinned, StoredBelowNext, Pinning, Unpinned, lockVars, segmentVars, snapshotVars, Up
<1>5. CASE Scan
  BY <1>5 DEF Scan, UnchangedByProcess, PinInv, PinsExact, Holders, HeldByHolders, RingOnDisk,
     VictimsUnpinned, StoredBelowNext, Pinning, Unpinned, lockVars, segmentVars, snapshotVars
<1>6. CASE UNCHANGED vars
  BY <1>6, DiskUntouched DEF vars, snapshotVars, diskVars, processVars
<1> QED
  BY <1>1, <1>2, <1>3, <1>4, <1>5, <1>6 DEF Next

\* PinInv: the pin counts, the ring and the disk agree in every state.
THEOREM PinInvCorrect == Spec => []PinInv
<1>1. Init => PinInv
  BY InitPins
<1>2. TypeOK /\ PinInv /\ [Next]_vars => PinInv'
  BY NextPins
<1> QED
  BY <1>1, <1>2, TypeCorrect, PTL DEF Spec

\* PinsExact: a pin count is the number of snapshots that hold the segment.
THEOREM PinsAreExact == Spec => []PinsExact
BY PinInvCorrect, PTL DEF PinInv

\* PinnedOnDisk: what a snapshot holds stays in the ring and on disk.
THEOREM PinnedStaysOnDisk == Spec => []PinnedOnDisk
<1>1. PinInv => PinnedOnDisk
  BY DEF PinInv, HeldByHolders, RingOnDisk, PinnedOnDisk, Up
<1> QED
  BY <1>1, PinInvCorrect, PTL

-----------------------------------------------------------------------------
(* Order of segments *)

\* OrderInv, the inductive form of SegmentsDecodable, holds initially.
LEMMA InitOrder == Init => OrderInv
<1> SUFFICES ASSUME Init PROVE OrderInv
  OBVIOUS
<1>1. pending.frags = 0 /\ stored = {} /\ ~seenKey /\ LockFree
  BY DEF Init, EmptyPending, LockFree
<1> QED
  BY <1>1 DEF OrderInv, SegmentsDecodable, StoredBelowNext, PendingInOrder, KeyframeStarts

\* A step that changes no variable of OrderInv keeps it.
LEMMA OrderUntouched ==
  ASSUME OrderInv, UNCHANGED <<stored, seg, nextIndex, pending, pts, enc, seenKey, lock, user, frag>>
  PROVE  OrderInv'
BY DEF OrderInv, SegmentsDecodable, StoredBelowNext, PendingInOrder, KeyframeStarts, LockFree

\* The encoder task leaves its loop, or goes on to persist its init segment.
LEMMA EncoderKeepsOrder ==
  ASSUME OrderInv, UNCHANGED <<stored, seg, nextIndex, pending, pts, seenKey, lock, user, frag>>,
         enc' \in {"run", "setInit"} => enc \in {"configure", "run", "setInit"},
         enc' # "configure"
  PROVE  OrderInv'
BY DEF OrderInv, SegmentsDecodable, StoredBelowNext, PendingInOrder, KeyframeStarts, LockFree

\* A new pending segment starts with a keyframe, an old one only grows.
LEMMA AppendKeepsOrder ==
  ASSUME TypeOK, OrderInv, NEW f \in Fragment, pending.frags = 0 => f.key, pts < f.pts,
         AppendFragment(pending, f), UNCHANGED <<stored, seg, nextIndex>>,
         lock' = "free"
  PROVE  OrderInv'
<1> USE DEF OrderInv, TypeOK, EncoderTypeOK, RingTypeOK, PendingTypeOK
<1>1. pts < pts' /\ pts' = f.pts /\ f.pts \in Nat /\ pts \in Nat
  BY DEF AppendFragment, Fragment
<1>2. pending'.frags > 0
  BY DEF AppendFragment, Accumulate, Pending
<1>3. \A i \in stored : seg[i].start \in Nat /\ seg[i].last \in Nat
  BY DEF Segment
<1>4. /\ pending'.key
      /\ pending'.start <= pending'.last /\ pending'.last <= pts'
      /\ \A i \in stored : seg[i].last < pending'.start
  BY <1>1, <1>3 DEF AppendFragment, Accumulate, PendingInOrder, Pending, Fragment
<1>5. PendingInOrder'
  BY <1>1, <1>3, <1>4 DEF PendingInOrder
<1>6. KeyframeStarts'
  BY <1>2 DEF KeyframeStarts, LockFree
<1> QED
  BY <1>5, <1>6 DEF SegmentsDecodable, StoredBelowNext

\* The committed segment starts where the pending one did, after all others.
LEMMA CommitKeepsOrder ==
  ASSUME TypeOK, OrderInv, NEW u \in {"push", "format", "finalize"}, CommitPending(u),
         nextIndex < MaxIndex, pending.frags > 0,
         u = "push" => frag'.key /\ pts < frag'.pts
  PROVE  OrderInv'
<1> USE DEF OrderInv, TypeOK, EncoderTypeOK, RingTypeOK, PendingTypeOK
<1>1. nextIndex \in Index /\ nextIndex \in Nat /\ nextIndex \notin stored
  BY DEF StoredBelowNext, Index
<1>2. /\ seg'[nextIndex].start = pending.start /\ seg'[nextIndex].last = pending.last
      /\ seg'[nextIndex].key = pending.key
  BY <1>1 DEF CommitPending
<1>3. \A i \in stored : seg'[i] = seg[i] /\ i \in Nat /\ i < nextIndex
  BY <1>1 DEF CommitPending, StoredBelowNext, Index
<1>4. stored' = stored \cup {nextIndex} /\ pts' = pts /\ nextIndex' = nextIndex + 1
  BY DEF CommitPending
<1>5. SegmentsDecodable'
  <2> SUFFICES ASSUME NEW i \in stored'
               PROVE  /\ seg'[i].key
                      /\ \A j \in stored' : i < j => seg'[i].last < seg'[j].start
    BY DEF SegmentsDecodable
  <2>1. CASE i \in stored
    <3>1. seg'[i] = seg[i] /\ seg[i].key /\ i < nextIndex
      BY <1>3, <2>1 DEF SegmentsDecodable
    <3>2. \A j \in stored : i < j => seg'[i].last < seg'[j].start
      BY <1>3, <2>1 DEF SegmentsDecodable
    <3>3. seg'[i].last < seg'[nextIndex].start
      BY <1>2, <2>1, <3>1 DEF PendingInOrder
    <3> QED
      BY <1>4, <3>1, <3>2, <3>3
  <2>2. CASE i = nextIndex
    <3>1. \A j \in stored' : ~(i < j)
      BY <1>1, <1>3, <1>4, <2>2
    <3> QED
      BY <1>2, <2>2, <3>1 DEF PendingInOrder
  <2> QED
    BY <1>4, <2>1, <2>2
<1>6. StoredBelowNext'
  BY <1>1, <1>3, <1>4 DEF StoredBelowNext
<1>7. PendingInOrder'
  BY <1>2, <1>3, <1>4 DEF PendingInOrder, CommitPending, EmptyPending
<1>8. KeyframeStarts'
  <2>1. lock' = "evict" /\ user' = u /\ pending'.frags = 0 /\ pts' = pts
    BY DEF CommitPending, EmptyPending
  <2> QED
    BY <2>1 DEF KeyframeStarts, LockFree
<1> QED
  BY <1>5, <1>6, <1>7, <1>8

\* Every step keeps OrderInv.
LEMMA NextOrder == TypeOK /\ OrderInv /\ [Next]_vars => OrderInv'
<1> SUFFICES ASSUME TypeOK, OrderInv, [Next]_vars PROVE OrderInv'
  OBVIOUS
<1> USE DEF encoderVars, lockVars, segmentVars, pendingVars, snapshotVars, diskVars, processVars
<1>1. pending.frags \in Nat /\ nextIndex \in Int /\ MaxIndex \in Int /\ frag \in Fragment
  BY BoundsAreNat DEF TypeOK, EncoderTypeOK, PendingTypeOK, RingTypeOK, Pending, Index
<1>2. CASE Encoder
  <2>1. ASSUME NEW u, CommitPendingFails(u), lock = "free"
        PROVE  OrderInv'
    <3>1. enc' \in {"done", "ending"} /\ lock' = "free"
      BY <2>1 DEF CommitPendingFails
    <3>2. UNCHANGED <<stored, seg, pending, pts>> /\ nextIndex' = nextIndex + 1
      BY <2>1 DEF CommitPendingFails
    <3>3. StoredBelowNext'
      BY <1>1, <3>2 DEF OrderInv, StoredBelowNext, TypeOK, RingTypeOK, Index
    <3>4. KeyframeStarts'
      BY <3>1 DEF KeyframeStarts, LockFree
    <3> QED
      BY <3>2, <3>3, <3>4 DEF OrderInv, SegmentsDecodable, PendingInOrder
  <2>2. ASSUME NEW f \in Fragment, pts < f.pts, PushCommits(f) PROVE OrderInv'
    <3>1. /\ pending.frags > 0 /\ f.key /\ frag' = f /\ lock = "free" /\ nextIndex < MaxIndex
          /\ CommitPending("push") \/ CommitPendingFails("push")
      BY <1>1, <2>2 DEF PushCommits, ClosesPending, CanPush, LockFree
    <3> QED
      BY <2>1, <2>2, <3>1, CommitKeepsOrder
  <2>3. CASE FormatChangeCommits
    <3>1. /\ pending.frags > 0 /\ lock = "free" /\ nextIndex < MaxIndex
          /\ CommitPending("format") \/ CommitPendingFails("format")
      BY <1>1, <2>3 DEF FormatChangeCommits, LockFree
    <3> QED
      BY <2>1, <3>1, CommitKeepsOrder
  <2>4. CASE FinalizeCommits
    <3>1. /\ pending.frags > 0 /\ lock = "free" /\ nextIndex < MaxIndex
          /\ CommitPending("finalize") \/ CommitPendingFails("finalize")
      BY <2>4 DEF FinalizeCommits, LockFree
    <3> QED
      BY <2>1, <3>1, CommitKeepsOrder
  <2>5. ASSUME NEW f \in Fragment, pts < f.pts, DropFragment(f) PROVE OrderInv'
    <3>1. /\ UNCHANGED <<stored, seg, nextIndex, pending, enc, seenKey, lock, user, frag>>
          /\ pts' = f.pts /\ f.pts \in Nat /\ pts < pts' /\ LockFree
      BY <2>5 DEF DropFragment, CanPush, Fragment
    <3>2. PendingInOrder'
      <4>1. pts \in Nat /\ pending.last \in Nat /\ \A i \in stored : seg[i].last \in Nat
        BY DEF TypeOK, EncoderTypeOK, PendingTypeOK, RingTypeOK, Pending, Segment
      <4> QED
        BY <3>1, <4>1 DEF OrderInv, PendingInOrder
    <3> QED
      BY <3>1, <3>2 DEF OrderInv, SegmentsDecodable, StoredBelowNext, KeyframeStarts, LockFree
  <2>6. ASSUME NEW f \in Fragment, pts < f.pts, Push(f) PROVE OrderInv'
    <3>1. pending.frags = 0 => f.key
      BY <2>6 DEF Push, CanPush, EncoderAt, OrderInv, KeyframeStarts
    <3>2. UNCHANGED <<stored, seg, nextIndex>> /\ lock' = "free" /\ AppendFragment(pending, f)
      BY <2>6 DEF Push, CanPush, LockFree
    <3> QED
      BY <2>6, <3>1, <3>2, AppendKeepsOrder
  <2>7. CASE Configure \/ PersistInit \/ PersistInitFails \/ EndOfStream \/ SetClosing
    BY <2>7, EncoderKeepsOrder DEF Configure, PersistInit, PersistInitFails, EndOfStream,
       SetClosing, EncoderAt
  <2>8. CASE FormatChange
    <3>1. UNCHANGED <<stored, seg, nextIndex, pending, pts, lock>> /\ seenKey' = FALSE /\ lock = "free"
      BY <2>8 DEF FormatChange, MarkFormatChange, LockFree
    <3> QED
      BY <3>1 DEF OrderInv, SegmentsDecodable, StoredBelowNext, PendingInOrder, KeyframeStarts,
         LockFree
  <2>9. CASE Finalize
    BY <2>9, EncoderKeepsOrder DEF Finalize
  <2>10. ASSUME NEW g \in Gaps, NEW k \in BOOLEAN, NEW d \in FragDurations, NEW b \in FragSizes
         PROVE  LET f == [pts |-> NextPts(pts + g), key |-> k, dur |-> d, size |-> b]
                IN  f \in Fragment /\ pts < f.pts
    BY NextPtsRises, ConstantsAssumption DEF Fragment, TypeOK, EncoderTypeOK
  <2> QED
    BY <1>2, <2>2, <2>3, <2>4, <2>5, <2>6, <2>7, <2>8, <2>9, <2>10 DEF Encoder
<1>3. ASSUME lock' = "free", enc' \in {"done", "ending"} \/ (enc' = enc /\ user = "release"),
             UNCHANGED <<stored, seg, nextIndex, pending, pts, seenKey>>
      PROVE  OrderInv'
  BY <1>3 DEF OrderInv, SegmentsDecodable, StoredBelowNext, PendingInOrder, KeyframeStarts,
     LockFree
<1>4. CASE UnderLock
  <2>1. CASE EvictOne
    BY <2>1, OrderUntouched DEF EvictOne
  <2>2. CASE EvictDone
    <3>1. /\ UNCHANGED <<stored, seg, nextIndex, pending, pts, enc, seenKey, user, frag>>
          /\ lock = "evict" /\ (lock' = "free" => user = "release")
      BY <2>2 DEF EvictDone
    <3> QED
      BY <3>1 DEF OrderInv, SegmentsDecodable, StoredBelowNext, PendingInOrder, KeyframeStarts,
         LockFree
  <2>3. CASE PushEnds
    <3>1. /\ UNCHANGED <<stored, seg, nextIndex>> /\ lock' = "free"
          /\ AppendFragment(pending, frag) /\ frag.key /\ pts < frag.pts
      BY <2>3 DEF PushEnds, WriteManifest, OrderInv, KeyframeStarts, LockFree
    <3> QED
      BY <1>1, <3>1, AppendKeepsOrder
  <2>4. CASE FormatChangeEnds
    <3>1. UNCHANGED <<stored, seg, nextIndex, pending, pts>> /\ lock' = "free" /\ seenKey' = FALSE
      BY <2>4 DEF FormatChangeEnds, WriteManifest, MarkFormatChange
    <3> QED
      BY <3>1 DEF OrderInv, SegmentsDecodable, StoredBelowNext, PendingInOrder, KeyframeStarts,
         LockFree
  <2>5. CASE FinalizeEnds
    BY <1>3, <2>5 DEF FinalizeEnds, WriteManifest
  <2>6. CASE ReleaseEnds
    BY <1>3, <2>6 DEF ReleaseEnds, WriteManifest
  <2>7. CASE WriteManifestFails
    BY <1>3, <2>7 DEF WriteManifestFails
  <2> QED
    BY <1>4, <2>1, <2>2, <2>3, <2>4, <2>5, <2>6, <2>7 DEF UnderLock
<1>5. CASE Rpc
  <2>1. ASSUME NEW s \in Snap, ReleaseSnapshot(s) PROVE OrderInv'
    <3>1. /\ UNCHANGED <<stored, seg, nextIndex, pending, pts, enc, seenKey, frag>>
          /\ lock = "free" /\ user' = "release"
      BY <2>1 DEF ReleaseSnapshot, UnchangedByRpc
    <3> QED
      BY <3>1 DEF OrderInv, SegmentsDecodable, StoredBelowNext, PendingInOrder, KeyframeStarts,
         LockFree
  <2>2. ASSUME NEW s \in Snap, \/ Save(s) \/ SaveSeesClose(s) \/ SaveTimesOut(s)
                               \/ RegisterSnapshot(s) \/ RemoveSnapshot(s) \/ AbortDispatch(s)
        PROVE  OrderInv'
    BY <2>2, OrderUntouched DEF Save, SaveSeesClose, SaveTimesOut, RegisterSnapshot,
       RemoveSnapshot, AbortDispatch, UnchangedByRpc
  <2>3. ASSUME NEW s \in Snap, NEW d, PinSnapshot(s, d) PROVE OrderInv'
    BY <2>3, OrderUntouched DEF PinSnapshot, UnchangedByRpc
  <2>4. CASE StopSession
    BY <2>4, OrderUntouched DEF StopSession, UnchangedByRpc
  <2> QED
    BY <1>5, <2>1, <2>2, <2>3, <2>4 DEF Rpc
<1>6. CASE Crash \/ Scan \/ UNCHANGED vars
  BY <1>6, OrderUntouched DEF Crash, Scan, UnchangedByProcess, vars
<1> QED
  BY <1>2, <1>4, <1>5, <1>6 DEF Next

\* SegmentsDecodable: stored segments start on keyframes, and whatever the capture
\* times of the frames, the fragments of a segment are stamped before those of
\* every later one.
THEOREM SegmentsAreDecodable == Spec => []SegmentsDecodable
<1>1. Init => OrderInv
  BY InitOrder
<1>2. TypeOK /\ OrderInv /\ [Next]_vars => OrderInv'
  BY NextOrder
<1>3. OrderInv => SegmentsDecodable
  BY DEF OrderInv
<1> QED
  BY <1>1, <1>2, <1>3, TypeCorrect, PTL DEF Spec

-----------------------------------------------------------------------------
(* What is on disk, for the next helper *)

\* An operation of the encoder task has committed and is not over yet.
Committing == ~LockFree /\ user # "release"

\* The encoder task will commit nothing any more.
Stopped == enc \in {"ending", "finalize", "done"} /\ pending.frags = 0

\* A scan would not delete segment i as one that the manifest does not list.
Listed(i) == manifest = NoManifest \/ i \in manifest

\* After a commit nothing is pending, and the encoder task has not moved on.
CommitInv ==
  Committing => pending.frags = 0 /\ enc = IF user = "finalize" THEN "finalize" ELSE "run"

\* The inductive form of CrashLosesOnlyNewest: what was evicted has no file, and
\* only the segment committed last can be missing in the manifest, while its
\* commit is under way or, when the manifest could not be written, for good.
ManifestInv ==
  /\ files \cap stored \subseteq committed
  /\ \A i \in committed : \/ Listed(i)
                          \/ (Committing \/ Stopped) /\ \A j \in stored : j <= i
  /\ CrashLosesOnlyNewest

\* The encoder task has not got past the point where it persists init.mp4.
BeforeEnd == enc \in {"configure", "run", "setInit"}

\* The inductive form of CleanSegmentsMatchInit: init.mp4 is written once, before
\* the first segment; what is pending without a format change is in its format.
MatchInv ==
  /\ init # NoInit =>
       /\ enc \notin {"configure", "setInit"}
       /\ formatChanged \/ format = init
       /\ pending.frags > 0 => formatChanged \/ pending.format = init
       /\ \A i \in stored : seg[i].disc \/ seg[i].format = init
  /\ init = NoInit =>
       /\ BeforeEnd \/ faults = 0 => stored = {} /\ files = {} /\ ~Committing
       /\ enc \in {"configure", "run"} => ~seenKey /\ pending.frags = 0
       /\ enc = "setInit" /\ pending.frags > 0 => pending.format = format
       /\ ~BeforeEnd /\ faults = 0 => pending.frags = 0
  /\ stage = "scanned" => recovered \subseteq files

StoreInv == CommitInv /\ ManifestInv /\ MatchInv

\* It holds at the start.
LEMMA InitStore == Init => StoreInv
BY DEF Init, StoreInv, CommitInv, ManifestInv, MatchInv, CrashLosesOnlyNewest, Committing, LockFree,
   BeforeEnd, NoInit, EmptyPending

\* A step of others than the encoder task, the lock holder and a crash keeps it.
LEMMA StoreUntouched ==
  ASSUME StoreInv,
         UNCHANGED <<enc, format, lock, user, stored, seg, committed, pending, seenKey, formatChanged,
                     diskVars, processVars, faults>>
  PROVE  StoreInv'
BY DEF StoreInv, CommitInv, ManifestInv, MatchInv, CrashLosesOnlyNewest, Committing, LockFree,
   BeforeEnd, Stopped, Listed, diskVars, processVars

\* The encoder task leaves its loop, drops a fragment or notes a format change.
LEMMA EncoderKeepsStore ==
  ASSUME TypeOK, StoreInv,
         \/ Configure \/ PersistInit \/ PersistInitFails \/ EndOfStream \/ SetClosing \/ FormatChange
         \/ Finalize \/ \E f \in Fragment : DropFragment(f)
  PROVE  StoreInv'
<1> USE DEF StoreInv, CommitInv, ManifestInv, MatchInv, CrashLosesOnlyNewest, Committing, LockFree,
   BeforeEnd, Stopped, Listed, lockVars, segmentVars, diskVars, processVars, pendingVars
<1>1. pending.frags \in Nat /\ faults \in Nat /\ format \in Nat
  BY DEF TypeOK, EncoderTypeOK, PendingTypeOK, DiskTypeOK, Pending, Format
<1>2. CASE Configure
  BY <1>1, <1>2 DEF Configure, EncoderAt
<1>3. CASE PersistInit
  BY <1>1, <1>3 DEF PersistInit, EncoderAt, NoInit, Up
<1>4. CASE PersistInitFails
  BY <1>1, <1>4 DEF PersistInitFails, EncoderAt, Fault
<1>5. CASE EndOfStream \/ SetClosing \/ Finalize
  BY <1>1, <1>5 DEF EndOfStream, SetClosing, Finalize, EncoderAt
<1>6. CASE FormatChange
  BY <1>1, <1>6 DEF FormatChange, MarkFormatChange, EncoderAt
<1>7. CASE \E f \in Fragment : DropFragment(f)
  BY <1>7, StoreUntouched DEF DropFragment
<1> QED
  BY <1>2, <1>3, <1>4, <1>5, <1>6, <1>7

\* A fragment is pushed: without an init segment its keyframe calls for one.
LEMMA AppendKeepsStore ==
  ASSUME TypeOK, StoreInv, NEW f \in Fragment, AppendFragment(pending, f),
         enc = "run", init = NoInit => pending.frags = 0 /\ f.key /\ ~Committing,
         lock' = "free", stage = "up",
         manifest' = committed \/ (manifest' = manifest /\ ~Committing),
         UNCHANGED <<format, stored, seg, committed, formatChanged, files, init, processVars, faults>>
  PROVE  StoreInv'
<1> USE DEF StoreInv, CommitInv, ManifestInv, MatchInv, CrashLosesOnlyNewest, Committing, LockFree,
   BeforeEnd, Stopped, Listed, processVars
<1>1. enc' = IF f.key /\ init = NoInit THEN "setInit" ELSE "run"
  BY DEF AppendFragment, AfterPush
<1>2. pending'.format = IF pending.frags = 0 THEN format ELSE pending.format
  BY DEF AppendFragment, Accumulate
<1>3. CommitInv' /\ ManifestInv'
  BY <1>1
<1>4. MatchInv'
  <2>1. pending.frags \in Nat
    BY DEF TypeOK, PendingTypeOK, Pending
  <2>2. CASE init = NoInit
    BY <1>1, <1>2, <2>1, <2>2
  <2>3. CASE init # NoInit
    BY <1>1, <1>2, <2>1, <2>3
  <2> QED
    BY <2>2, <2>3
<1> QED
  BY <1>3, <1>4

\* A commit adds the one segment that the manifest does not list yet.
LEMMA CommitKeepsStore ==
  ASSUME TypeOK, StoreInv, StoredBelowNext, NEW u \in {"push", "format", "finalize"},
         CommitPending(u), LockFree, Up, pending.frags > 0,
         enc = IF u = "finalize" THEN "finalize" ELSE "run",
         nextIndex < MaxIndex
  PROVE  StoreInv'
<1> USE DEF StoreInv, Committing, LockFree, BeforeEnd, Stopped, Listed, processVars, Up
<1>1. /\ nextIndex \in Index /\ nextIndex \notin stored /\ pending.frags \in Nat
      /\ \A j \in stored : j < nextIndex /\ j \in Nat
  BY DEF TypeOK, RingTypeOK, PendingTypeOK, StoredBelowNext, Pending, Index
<1>2. /\ lock' = "evict" /\ user' = u /\ enc' = enc /\ pending'.frags = 0
      /\ UNCHANGED <<format, formatChanged, manifest, init, stage, recovered, faults>>
      /\ files' = files \cup {nextIndex} /\ stored' = stored \cup {nextIndex}
      /\ committed' = committed \cup {nextIndex}
  BY DEF CommitPending, EmptyPending
<1>3. /\ seg'[nextIndex].disc = formatChanged /\ seg'[nextIndex].format = pending.format
      /\ \A i \in stored : seg'[i] = seg[i]
  BY <1>1 DEF CommitPending, TypeOK, RingTypeOK
<1>4. CommitInv'
  BY <1>2 DEF CommitInv
<1>5. ManifestInv'
  <2>1. \A i \in committed : Listed(i)
    BY <1>1 DEF ManifestInv
  <2>2. \A j \in stored' : j <= nextIndex
    BY <1>1, <1>2 DEF Index
  <2>3. (files \cap stored)' \subseteq committed'
    BY <1>2 DEF ManifestInv
  <2>4. \A i \in committed' : Listed(i)' \/ (Committing' /\ \A j \in stored' : j <= i)
    BY <1>2, <2>1, <2>2
  <2> QED
    BY <1>2, <2>3, <2>4 DEF ManifestInv, CrashLosesOnlyNewest
<1>6. MatchInv'
  BY <1>1, <1>2, <1>3 DEF MatchInv
<1> QED
  BY <1>4, <1>5, <1>6

\* A commit that fails ends the encoder task; its file is of no stored segment.
LEMMA CommitFailsKeepsStore ==
  ASSUME TypeOK, StoreInv, StoredBelowNext, NEW u \in {"push", "format", "finalize"},
         CommitPendingFails(u), LockFree, Up, pending.frags > 0
  PROVE  StoreInv'
<1> USE DEF StoreInv, Committing, LockFree, BeforeEnd, Stopped, Listed, processVars, Up
<1>1. /\ nextIndex \notin stored /\ pending.frags \in Nat /\ faults \in Nat
  BY DEF TypeOK, RingTypeOK, PendingTypeOK, DiskTypeOK, StoredBelowNext, Pending, Index
<1>2. /\ lock' = lock /\ enc' \in {"done", "ending"} /\ faults' = faults + 1
      /\ UNCHANGED <<format, formatChanged, manifest, init, stage, recovered, stored, seg, committed,
                     pending>>
      /\ files' \in {files, files \cup {nextIndex}}
  BY DEF CommitPendingFails, segmentVars, lockVars, Fault
<1>3. CommitInv'
  BY <1>2 DEF CommitInv
<1>4. ManifestInv'
  BY <1>1, <1>2 DEF ManifestInv, CrashLosesOnlyNewest
<1>5. MatchInv'
  BY <1>1, <1>2 DEF MatchInv
<1> QED
  BY <1>3, <1>4, <1>5

\* A segment is evicted with its file, and the manifest is written or not.
LEMMA LockKeepsStore ==
  ASSUME TypeOK, StoreInv, UnderLock PROVE StoreInv'
<1> USE DEF StoreInv, CommitInv, ManifestInv, MatchInv, CrashLosesOnlyNewest, Committing, LockFree,
   BeforeEnd, Stopped, Listed, segmentVars, diskVars, processVars, pendingVars, encoderVars, Up
<1>1. faults \in Nat /\ pending.frags \in Nat
  BY DEF TypeOK, PendingTypeOK, DiskTypeOK, Pending
<1>2. CASE EvictOne
  BY <1>1, <1>2 DEF EvictOne, RemoveSegment, Fault
<1>3. CASE EvictDone
  BY <1>1, <1>3 DEF EvictDone
<1>4. CASE PushEnds
  <2>1. /\ AppendFragment(pending, frag) /\ lock' = "free" /\ stage = "up" /\ manifest' = committed
        /\ UNCHANGED <<format, stored, seg, committed, formatChanged, files, init, processVars, faults>>
        /\ Committing /\ user = "push"
    BY <1>4 DEF PushEnds, WriteManifest
  <2>2. enc = "run" /\ init # NoInit /\ frag \in Fragment
    BY <2>1 DEF TypeOK, EncoderTypeOK
  <2> QED
    BY <2>1, <2>2, AppendKeepsStore
<1>5. CASE FormatChangeEnds
  BY <1>1, <1>5 DEF FormatChangeEnds, WriteManifest, MarkFormatChange
<1>6. CASE FinalizeEnds
  BY <1>1, <1>6 DEF FinalizeEnds, WriteManifest
<1>7. CASE ReleaseEnds
  BY <1>1, <1>7 DEF ReleaseEnds, WriteManifest
<1>8. CASE WriteManifestFails
  BY <1>1, <1>8 DEF WriteManifestFails, Fault
<1> QED
  BY <1>2, <1>3, <1>4, <1>5, <1>6, <1>7, <1>8 DEF UnderLock

\* Every step keeps StoreInv.
LEMMA NextStore == TypeOK /\ PinInv /\ StoreInv /\ [Next]_vars => StoreInv'
<1> SUFFICES ASSUME TypeOK, PinInv, StoreInv, [Next]_vars PROVE StoreInv'
  OBVIOUS
<1>1. /\ nextIndex \in Int /\ MaxIndex \in Int
      /\ \A g \in Gaps, k \in BOOLEAN, d \in FragDurations, b \in FragSizes :
           [pts |-> NextPts(pts + g), key |-> k, dur |-> d, size |-> b] \in Fragment
  BY BoundsAreNat, NextPtsRises, ConstantsAssumption
     DEF TypeOK, EncoderTypeOK, RingTypeOK, Index, Fragment
<1>2. CASE Encoder
  <2>1. ASSUME NEW u \in {"push", "format", "finalize"}, CommitPending(u) \/ CommitPendingFails(u),
               LockFree, Up, pending.frags > 0, nextIndex < MaxIndex,
               u = "finalize" => enc = "finalize", u # "finalize" => enc = "run"
        PROVE  StoreInv'
    <3>1. enc = IF u = "finalize" THEN "finalize" ELSE "run"
      BY <2>1
    <3> QED
      BY <2>1, <3>1, CommitKeepsStore, CommitFailsKeepsStore DEF PinInv
  <2>2. ASSUME NEW f \in Fragment, PushCommits(f) PROVE StoreInv'
    BY <1>1, <2>1, <2>2 DEF PushCommits, CanPush, EncoderAt, ClosesPending
  <2>3. CASE FormatChangeCommits
    <3>1. /\ CommitPending("format") \/ CommitPendingFails("format")
          /\ LockFree /\ Up /\ pending.frags > 0 /\ nextIndex < MaxIndex
          /\ enc = "run"
      BY <1>1, <2>3 DEF FormatChangeCommits, EncoderAt
    <3> QED
      BY <2>1, <3>1
  <2>4. CASE FinalizeCommits
    <3>1. /\ CommitPending("finalize") \/ CommitPendingFails("finalize")
          /\ LockFree /\ Up /\ pending.frags > 0 /\ nextIndex < MaxIndex
          /\ enc = "finalize"
      BY <1>1, <2>4 DEF FinalizeCommits, EncoderAt
    <3> QED
      BY <2>1, <3>1
  <2>5. ASSUME NEW f \in Fragment, Push(f) PROVE StoreInv'
    <3>1. /\ enc = "run" /\ lock = "free" /\ stage = "up" /\ (seenKey \/ f.key)
          /\ AppendFragment(pending, f) /\ ~Committing
          /\ lock' = "free" /\ manifest' = manifest
          /\ UNCHANGED <<format, stored, seg, committed, formatChanged, files, init, processVars, faults>>
      BY <2>5 DEF Push, CanPush, EncoderAt, LockFree, Up, lockVars, segmentVars, diskVars, Committing
    <3>2. init = NoInit => pending.frags = 0 /\ f.key
      BY <3>1 DEF StoreInv, MatchInv
    <3> QED
      BY <3>1, <3>2, AppendKeepsStore
  <2> QED
    BY <1>1, <1>2, <2>2, <2>3, <2>4, <2>5, EncoderKeepsStore DEF Encoder
<1>3. CASE Rpc
  <2>1. ASSUME NEW s \in Snap, ReleaseSnapshot(s) PROVE StoreInv'
    <3>1. /\ UNCHANGED <<enc, format, stored, seg, committed, pending, seenKey, formatChanged,
                         diskVars, processVars, faults>>
          /\ lock = "free" /\ user' = "release"
      BY <2>1 DEF ReleaseSnapshot, UnchangedByRpc, encoderVars, segmentVars, pendingVars
    <3> QED
      BY <3>1 DEF StoreInv, CommitInv, ManifestInv, MatchInv, CrashLosesOnlyNewest, Committing,
         LockFree, BeforeEnd, Stopped, Listed, diskVars, processVars
  <2>2. ASSUME NEW s \in Snap, \/ Save(s) \/ SaveSeesClose(s) \/ SaveTimesOut(s)
                               \/ RegisterSnapshot(s) \/ RemoveSnapshot(s) \/ AbortDispatch(s)
        PROVE  StoreInv'
    BY <2>2, StoreUntouched DEF Save, SaveSeesClose, SaveTimesOut, RegisterSnapshot,
       RemoveSnapshot, AbortDispatch, UnchangedByRpc, encoderVars, lockVars, segmentVars, pendingVars
  <2>3. ASSUME NEW s \in Snap, NEW d, PinSnapshot(s, d) PROVE StoreInv'
    BY <2>3, StoreUntouched DEF PinSnapshot, UnchangedByRpc, encoderVars, lockVars, segmentVars,
       pendingVars
  <2>4. CASE StopSession
    BY <2>4, StoreUntouched DEF StopSession, UnchangedByRpc, encoderVars, lockVars, segmentVars,
       pendingVars
  <2> QED
    BY <1>3, <2>1, <2>2, <2>3, <2>4 DEF Rpc
<1>4. CASE Crash
  BY <1>4 DEF Crash, UnchangedByProcess, StoreInv, CommitInv, ManifestInv, MatchInv,
     CrashLosesOnlyNewest, Committing, LockFree, BeforeEnd, Stopped, Listed, encoderVars, lockVars,
     segmentVars, pendingVars
<1>5. CASE Scan
  <2>1. /\ UNCHANGED <<enc, format, lock, user, stored, seg, committed, pending, seenKey, formatChanged,
                       manifest, init, faults>>
        /\ recovered' = IF manifest = NoManifest THEN files ELSE files \cap manifest
        /\ files' = recovered'
    BY <1>5 DEF Scan, UnchangedByProcess, encoderVars, lockVars, segmentVars, pendingVars
  <2>2. committed \subseteq files
    BY <1>5 DEF Scan, PinInv, RingOnDisk
  <2>3. CrashLosesOnlyNewest'
    BY <2>1, <2>2 DEF StoreInv, ManifestInv, CrashLosesOnlyNewest, Listed
  <2> QED
    BY <2>1, <2>3 DEF StoreInv, CommitInv, ManifestInv, MatchInv, Committing, LockFree, BeforeEnd,
       Stopped, Listed
<1>6. CASE UNCHANGED vars
  BY <1>6, StoreUntouched DEF vars, encoderVars, lockVars, segmentVars, pendingVars
<1> QED
  BY <1>2, <1>3, <1>4, <1>5, <1>6, LockKeepsStore DEF Next

\* StoreInv holds in every state.
THEOREM StoreInvCorrect == Spec => []StoreInv
<1>1. Init => StoreInv
  BY InitStore
<1>2. TypeOK /\ PinInv /\ StoreInv /\ [Next]_vars => StoreInv'
  BY NextStore
<1> QED
  BY <1>1, <1>2, TypeCorrect, PinInvCorrect, PTL DEF Spec

\* CrashLosesOnlyNewest: wherever the helper dies, between the rename of a
\* segment, its evictions and the manifest, the next scan recovers every
\* committed segment but possibly the newest, and no evicted one.
THEOREM CrashKeepsSegments == Spec => []CrashLosesOnlyNewest
BY StoreInvCorrect, PTL DEF StoreInv, ManifestInv

\* CleanSegmentsMatchInit: a segment without a discontinuity is in the format
\* of init.mp4, and without failing writes segments imply an init.mp4.
THEOREM CleanMatchesInit == Spec => []CleanSegmentsMatchInit
<1>1. StoreInv => CleanSegmentsMatchInit
  BY DEF StoreInv, MatchInv, CleanSegmentsMatchInit
<1> QED
  BY <1>1, StoreInvCorrect, PTL

-----------------------------------------------------------------------------
(* Sums over sets of segments *)

\* Among some subsets of a finite set, one contains no other of them.
LEMMA SmallestSubset ==
  ASSUME NEW S, IsFiniteSet(S), NEW T, T \subseteq SUBSET S, T # {}
  PROVE  \E x \in T : \A y \in T : y \subseteq x => y = x
<1> DEFINE R == StrictSubsetOrdering(S)
<1>1. IsWellFoundedOn(R, SUBSET S)
  BY FS_FiniteSubsetsOfFinite, FS_StrictSubsetOrderingWellFounded
<1>2. \E x \in T : \A y \in T : ~ (<<y, x>> \in R)
  <2> HIDE DEF R
  <2> QED
    BY <1>1, WFMin
<1> QED
  BY <1>2 DEF StrictSubsetOrdering

\* h sums the sizes of each subset of S, as a fold over sets does.
IsSum(h, g, S) ==
  h = [s \in SUBSET S |-> IF s = {} THEN 0
                          ELSE LET x == CHOOSE x \in s : TRUE IN g[x].size + h[s \ {x}]]

\* Two such functions agree where both are defined.
LEMMA SumUnique ==
  ASSUME NEW S, IsFiniteSet(S), NEW T, NEW g, NEW h, NEW k, IsSum(h, g, S), IsSum(k, g, T),
         NEW s \in SUBSET S, s \in SUBSET T
  PROVE  h[s] = k[s]
<1> DEFINE Bad == {t \in SUBSET S : t \in SUBSET T /\ h[t] # k[t]}
<1>1. SUFFICES ASSUME Bad # {} PROVE FALSE
  OBVIOUS
<1>2. PICK t \in Bad : \A u \in Bad : u \subseteq t => u = t
  <2>1. Bad \subseteq SUBSET S
    OBVIOUS
  <2> HIDE DEF Bad
  <2> QED
    BY <1>1, <2>1, SmallestSubset
<1> DEFINE x == CHOOSE x \in t : TRUE
<1>3. CASE t = {}
  BY <1>3 DEF IsSum
<1>4. CASE t # {}
  <2>1. x \in t /\ t \ {x} \in SUBSET S /\ t \ {x} \in SUBSET T /\ t \ {x} # t
    BY <1>4
  <2>2. h[t \ {x}] = k[t \ {x}]
    BY <1>2, <2>1
  <2>3. h[t] = g[x].size + h[t \ {x}] /\ k[t] = g[x].size + k[t \ {x}]
    BY <1>4 DEF IsSum
  <2> QED
    BY <2>2, <2>3
<1> QED
  BY <1>3, <1>4

\* There is such a function for every finite set.
LEMMA SumExists ==
  ASSUME NEW S, IsFiniteSet(S), NEW g
  PROVE  \E h : IsSum(h, g, S)
<1> DEFINE Bad == {s \in SUBSET S : ~ \E h : IsSum(h, g, s)}
<1>1. SUFFICES ASSUME Bad # {} PROVE FALSE
  OBVIOUS
<1>2. PICK t \in Bad : \A u \in Bad : u \subseteq t => u = t
  <2>1. Bad \subseteq SUBSET S
    OBVIOUS
  <2> HIDE DEF Bad
  <2> QED
    BY <1>1, <2>1, SmallestSubset
<1> DEFINE F(u) == CHOOSE h : IsSum(h, g, u)
           x    == CHOOSE x \in t : TRUE
           k    == [s \in SUBSET t |-> IF s = {} THEN 0
                      ELSE LET y == CHOOSE y \in s : TRUE IN g[y].size + F(s \ {y})[s \ {y}]]
<1>3. \A u \in SUBSET t : u # t => IsSum(F(u), g, u)
  <2>1. \A u \in SUBSET t : u # t => \E h : IsSum(h, g, u)
    BY <1>2
  <2> QED
    BY <2>1
<1> HIDE DEF F
<1>4. ASSUME NEW s \in SUBSET t, s # {}, NEW y \in s PROVE k[s \ {y}] = F(s \ {y})[s \ {y}]
  <2> DEFINE u == s \ {y}
  <2>1. u \in SUBSET t /\ u # t /\ IsSum(F(u), g, u)
    BY <1>3, <1>4
  <2>2. CASE u = {}
    BY <2>1, <2>2 DEF IsSum
  <2>3. CASE u # {}
    <3> DEFINE z == CHOOSE z \in u : TRUE
    <3>1. z \in u /\ u \ {z} \in SUBSET t /\ u \ {z} # t /\ IsSum(F(u \ {z}), g, u \ {z})
      BY <1>3, <2>1, <2>3
    <3>2. F(u)[u] = g[z].size + F(u)[u \ {z}]
      BY <2>1, <2>3 DEF IsSum
    <3>3. IsFiniteSet(u)
      BY <2>1, FS_Subset
    <3>4. F(u)[u \ {z}] = F(u \ {z})[u \ {z}]
      BY <2>1, <3>1, <3>3, SumUnique
    <3>5. k[u] = g[z].size + F(u \ {z})[u \ {z}]
      BY <2>1, <2>3
    <3> QED
      BY <3>2, <3>4, <3>5
  <2> QED
    BY <2>2, <2>3
<1>5. IsSum(k, g, t)
  <2>1. ASSUME NEW s \in SUBSET t
        PROVE  k[s] = IF s = {} THEN 0
                      ELSE LET y == CHOOSE y \in s : TRUE IN g[y].size + k[s \ {y}]
    <3>1. CASE s = {}
      BY <3>1
    <3>2. CASE s # {}
      <4> DEFINE y == CHOOSE y \in s : TRUE
      <4>1. y \in s
        BY <3>2
      <4>2. k[s] = g[y].size + F(s \ {y})[s \ {y}]
        BY <3>2
      <4>3. k[s \ {y}] = F(s \ {y})[s \ {y}]
        BY <1>4, <3>2, <4>1
      <4> HIDE DEF k
      <4> QED
        BY <3>2, <4>2, <4>3
    <3> QED
      BY <3>1, <3>2
  <2>2. k = [s \in SUBSET t |-> k[s]]
    OBVIOUS
  <2> HIDE DEF k
  <2>3. k = [s \in SUBSET t |-> IF s = {} THEN 0
               ELSE LET y == CHOOSE y \in s : TRUE IN g[y].size + k[s \ {y}]]
    BY <2>1, <2>2
  <2> QED
    BY <2>3 DEF IsSum
<1> QED
  BY <1>2, <1>5

\* The sizes of a set of segments, added up.
Total(g, S) == MapThenSumSet(LAMBDA i : g[i].size, S)

\* The sum over a set is computed from its chosen element and the others.
LEMMA TotalStep ==
  ASSUME NEW S, IsFiniteSet(S), NEW g
  PROVE  /\ S = {} => Total(g, S) = 0
         /\ S # {} => LET x == CHOOSE x \in S : TRUE
                      IN  Total(g, S) = g[x].size + Total(g, S \ {x})
<1> DEFINE F(s) == CHOOSE h : IsSum(h, g, s)
<1>1. \A s : Total(g, s) = F(s)[s]
  BY DEF Total, MapThenSumSet, MapThenFoldSet, IsSum
<1>2. \A s \in SUBSET S : IsSum(F(s), g, s)
  <2>1. \A s \in SUBSET S : \E h : IsSum(h, g, s)
    BY FS_Subset, SumExists
  <2> QED
    BY <2>1
<1> HIDE DEF F
<1>3. CASE S = {}
  BY <1>1, <1>2, <1>3 DEF IsSum
<1>4. CASE S # {}
  <2> DEFINE x == CHOOSE x \in S : TRUE
  <2>1. F(S)[S] = g[x].size + F(S)[S \ {x}]
    BY <1>2, <1>4 DEF IsSum
  <2>2. F(S)[S \ {x}] = F(S \ {x})[S \ {x}]
    BY <1>2, SumUnique
  <2> QED
    BY <1>1, <1>4, <2>1, <2>2
<1> QED
  BY <1>3, <1>4

\* A sum of sizes is a natural number.
LEMMA TotalType ==
  ASSUME NEW S, IsFiniteSet(S), NEW g, \A i \in S : g[i].size \in Nat
  PROVE  Total(g, S) \in Nat
<1> DEFINE Bad == {s \in SUBSET S : Total(g, s) \notin Nat}
<1>1. SUFFICES ASSUME Bad # {} PROVE FALSE
  OBVIOUS
<1>2. PICK t \in Bad : \A u \in Bad : u \subseteq t => u = t
  <2>1. Bad \subseteq SUBSET S
    OBVIOUS
  <2> HIDE DEF Bad
  <2> QED
    BY <1>1, <2>1, SmallestSubset
<1>3. IsFiniteSet(t) /\ t \subseteq S /\ Total(g, t) \notin Nat
  BY FS_Subset
<1>4. CASE t = {}
  BY <1>3, <1>4, TotalStep
<1>5. CASE t # {}
  <2> DEFINE x == CHOOSE x \in t : TRUE
  <2>1. x \in t /\ Total(g, t) = g[x].size + Total(g, t \ {x})
    BY <1>3, <1>5, TotalStep
  <2>2. Total(g, t \ {x}) \in Nat
    BY <1>2, <2>1
  <2> QED
    BY <1>3, <2>1, <2>2
<1> QED
  BY <1>4, <1>5

\* Any segment can be taken out of a sum.
LEMMA TotalRemove ==
  ASSUME NEW S, IsFiniteSet(S), NEW g, \A i \in S : g[i].size \in Nat, NEW y \in S
  PROVE  Total(g, S) = g[y].size + Total(g, S \ {y})
<1> DEFINE Bad == {s \in SUBSET S : \E z \in s : Total(g, s) # g[z].size + Total(g, s \ {z})}
<1>1. SUFFICES ASSUME Bad # {} PROVE FALSE
  OBVIOUS
<1>2. PICK t \in Bad : \A u \in Bad : u \subseteq t => u = t
  <2>1. Bad \subseteq SUBSET S
    OBVIOUS
  <2> HIDE DEF Bad
  <2> QED
    BY <1>1, <2>1, SmallestSubset
<1>3. PICK z \in t : Total(g, t) # g[z].size + Total(g, t \ {z})
  OBVIOUS
<1> DEFINE x == CHOOSE x \in t : TRUE
<1>4. x \in t /\ IsFiniteSet(t) /\ t \subseteq S /\ IsFiniteSet(t \ {z}) /\ IsFiniteSet(t \ {x})
  BY FS_Subset
<1>5. Total(g, t) = g[x].size + Total(g, t \ {x})
  BY <1>4, TotalStep
<1>6. x # z
  BY <1>3, <1>5
<1>7. Total(g, t \ {x}) = g[z].size + Total(g, (t \ {z}) \ {x})
  <2>1. (t \ {x}) \ {z} = (t \ {z}) \ {x}
    OBVIOUS
  <2>2. Total(g, t \ {x}) = g[z].size + Total(g, (t \ {x}) \ {z})
    BY <1>2, <1>4, <1>6
  <2> QED
    BY <2>1, <2>2
<1>8. Total(g, t \ {z}) = g[x].size + Total(g, (t \ {z}) \ {x})
  BY <1>2, <1>3, <1>4, <1>6
<1>9. /\ g[x].size \in Nat /\ g[z].size \in Nat
       /\ Total(g, (t \ {z}) \ {x}) \in Nat
  <2>1. IsFiniteSet((t \ {z}) \ {x}) /\ (t \ {z}) \ {x} \subseteq S
    BY <1>4, FS_Subset
  <2> QED
    BY <1>4, <2>1, TotalType
<1> DEFINE a == Total(g, t \ {x})
           b == Total(g, t \ {z})
           c == Total(g, (t \ {z}) \ {x})
<1>10. /\ Total(g, t) # g[z].size + b /\ Total(g, t) = g[x].size + a
       /\ a = g[z].size + c /\ b = g[x].size + c /\ c \in Nat
  BY <1>3, <1>5, <1>7, <1>8, <1>9
<1> HIDE DEF a, b, c
<1> QED
  BY <1>9, <1>10

\* A sum depends on the sizes of its segments only.
LEMMA TotalSame ==
  ASSUME NEW S, IsFiniteSet(S), NEW g, NEW h, \A i \in S : g[i].size = h[i].size
  PROVE  Total(g, S) = Total(h, S)
<1> DEFINE Bad == {s \in SUBSET S : Total(g, s) # Total(h, s)}
<1>1. SUFFICES ASSUME Bad # {} PROVE FALSE
  OBVIOUS
<1>2. PICK t \in Bad : \A u \in Bad : u \subseteq t => u = t
  <2>1. Bad \subseteq SUBSET S
    OBVIOUS
  <2> HIDE DEF Bad
  <2> QED
    BY <1>1, <2>1, SmallestSubset
<1> DEFINE x == CHOOSE x \in t : TRUE
<1>3. IsFiniteSet(t) /\ t \subseteq S /\ Total(g, t) # Total(h, t)
  BY FS_Subset
<1>4. CASE t = {}
  BY <1>3, <1>4, TotalStep
<1>5. CASE t # {}
  <2>1. x \in t /\ Total(g, t) = g[x].size + Total(g, t \ {x})
    BY <1>3, <1>5, TotalStep
  <2>2. Total(h, t) = h[x].size + Total(h, t \ {x})
    BY <1>3, <1>5, TotalStep
  <2>3. Total(g, t \ {x}) = Total(h, t \ {x})
    BY <1>2, <2>1
  <2> QED
    BY <1>3, <2>1, <2>2, <2>3
<1> QED
  BY <1>4, <1>5

\* More segments are not smaller.
LEMMA TotalGrows ==
  ASSUME NEW S, IsFiniteSet(S), NEW g, \A i \in S : g[i].size \in Nat, NEW T \in SUBSET S
  PROVE  Total(g, T) <= Total(g, S)
<1> DEFINE Bad == {s \in SUBSET S : T \subseteq s /\ ~ (Total(g, T) <= Total(g, s))}
<1>1. SUFFICES ASSUME Bad # {} PROVE FALSE
  OBVIOUS
<1>2. PICK t \in Bad : \A u \in Bad : u \subseteq t => u = t
  <2>1. Bad \subseteq SUBSET S
    OBVIOUS
  <2> HIDE DEF Bad
  <2> QED
    BY <1>1, <2>1, SmallestSubset
<1>3. IsFiniteSet(t) /\ t \subseteq S /\ IsFiniteSet(T) /\ ~ (Total(g, T) <= Total(g, t))
  BY FS_Subset
<1>4. Total(g, T) \in Nat /\ Total(g, t) \in Nat
  BY <1>3, TotalType
<1>5. PICK y \in t : y \notin T
  BY <1>3, <1>4
<1>6. Total(g, t) = g[y].size + Total(g, t \ {y}) /\ g[y].size \in Nat
  BY <1>3, TotalRemove
<1>7. Total(g, T) <= Total(g, t \ {y})
  BY <1>2, <1>3, <1>5
<1>8. Total(g, t \ {y}) \in Nat
  BY <1>3, TotalType, FS_Subset
<1> QED
  BY <1>3, <1>4, <1>6, <1>7, <1>8

-----------------------------------------------------------------------------
(* The eviction scan *)

\* Among some natural numbers there is a least one.
LEMMA SmallestNumber ==
  ASSUME NEW T, T \subseteq Nat, T # {}
  PROVE  \E m \in T : \A n \in T : m <= n
<1>1. PICK k \in T : TRUE
  OBVIOUS
<1> DEFINE K == 0 .. k
           U == {u \in SUBSET K : \E n \in T : n <= k /\ u = 0 .. n}
<1>2. k \in Nat /\ K \in U /\ U \subseteq SUBSET K /\ IsFiniteSet(K)
  BY <1>1, FS_Interval
<1>3. PICK x \in U : \A y \in U : y \subseteq x => y = x
  <2> HIDE DEF U, K
  <2> QED
    BY <1>2, SmallestSubset
<1>4. PICK m \in T : x = 0 .. m /\ m <= k
  OBVIOUS
<1>5. ASSUME NEW n \in T, n < m PROVE FALSE
  <2>1. n \in Nat /\ m \in Nat
    OBVIOUS
  <2>2. 0 .. n \subseteq 0 .. m /\ 0 .. n \subseteq K /\ n <= k
    BY <1>2, <1>4, <1>5, <2>1
  <2>3. 0 .. n \in U
    BY <2>2
  <2>4. 0 .. n = 0 .. m
    BY <1>3, <1>4, <2>2, <2>3
  <2>5. m \in 0 .. n
    BY <2>1, <2>4
  <2> QED
    BY <1>5, <2>1, <2>5
<1>6. \A n \in T : n \in Nat
  OBVIOUS
<1> QED
  BY <1>4, <1>5, <1>6

\* f holds what the eviction scan has chosen to free below each index up to n.
IsScan(f, n) ==
  f = [i \in 0 .. n |->
         IF i = 0 THEN 0
         ELSE LET chosen == /\ i - 1 \in committed
                            /\ Unpinned(i - 1)
                            /\ Expired(i - 1) \/ bytes - f[i - 1] > DiskCap
              IN  f[i - 1] + (IF chosen THEN seg[i - 1].size ELSE 0)]

\* There is such a function up to every index.
LEMMA ScanExists == \A n \in Nat : \E f : IsScan(f, n)
<1> DEFINE Bad == {n \in Nat : ~ \E f : IsScan(f, n)}
<1>1. SUFFICES ASSUME Bad # {} PROVE FALSE
  OBVIOUS
<1>2. PICK m \in Bad : \A n \in Bad : m <= n
  <2>1. Bad \subseteq Nat
    OBVIOUS
  <2> HIDE DEF Bad
  <2> QED
    BY <1>1, <2>1, SmallestNumber
<1>3. CASE m = 0
  <2>1. IsScan([i \in 0 .. 0 |-> 0], 0)
    BY DEF IsScan
  <2> QED
    BY <1>2, <1>3, <2>1
<1>4. CASE m # 0
  <2>1. PICK f : IsScan(f, m - 1)
    BY <1>2, <1>4
  <2> DEFINE Add(i) == IF /\ i - 1 \in committed
                          /\ Unpinned(i - 1)
                          /\ Expired(i - 1) \/ bytes - f[i - 1] > DiskCap
                       THEN seg[i - 1].size ELSE 0
             h == [i \in 0 .. m |-> IF i = 0 THEN 0 ELSE f[i - 1] + Add(i)]
  <2>2. \A i \in 0 .. m - 1 : f[i] = IF i = 0 THEN 0 ELSE f[i - 1] + Add(i)
    BY <1>4, <2>1 DEF IsScan
  <2>3. \A i \in 0 .. m - 1 : h[i] = f[i]
    BY <2>2, <1>4
  <2>4. \A i \in 0 .. m : i # 0 => i - 1 \in 0 .. m - 1 /\ h[i - 1] = f[i - 1]
    <3>1. m \in Nat
      OBVIOUS
    <3>2. \A i \in 0 .. m : i # 0 => i - 1 \in 0 .. m - 1
      BY <3>1
    <3> HIDE DEF h
    <3> QED
      BY <2>3, <3>2
  <2>5. ASSUME NEW i \in 0 .. m
        PROVE  h[i] = IF i = 0 THEN 0
                      ELSE LET chosen == /\ i - 1 \in committed
                                         /\ Unpinned(i - 1)
                                         /\ Expired(i - 1) \/ bytes - h[i - 1] > DiskCap
                           IN  h[i - 1] + (IF chosen THEN seg[i - 1].size ELSE 0)
    <3>1. CASE i = 0
      BY <3>1
    <3>2. CASE i # 0
      <4>1. h[i] = f[i - 1] + Add(i) /\ h[i - 1] = f[i - 1]
        BY <2>4, <3>2
      <4> HIDE DEF h
      <4> QED
        BY <3>2, <4>1
    <3> QED
      BY <3>1, <3>2
  <2>6. h = [i \in 0 .. m |-> h[i]]
    OBVIOUS
  <2>7. IsScan(h, m)
    <3> HIDE DEF h, Add
    <3> QED
      BY <2>5, <2>6 DEF IsScan
  <2> QED
    BY <1>2, <2>7
<1> QED
  BY <1>3, <1>4

\* Freed is the scan over all indices.
LEMMA FreedScan == IsScan(Freed, MaxIndex)
<1>1. Freed = CHOOSE f : IsScan(f, MaxIndex)
  BY DEF Freed, IsScan, Index
<1>2. \E f : IsScan(f, MaxIndex)
  BY BoundsAreNat, ScanExists
<1> QED
  BY <1>1, <1>2

\* What the scan has freed below an index is what it evicts below it.
LEMMA FreedBelow ==
  ASSUME TypeOK
  PROVE  \A i \in Index : Freed[i] = Total(seg, {j \in Evictable : j < i})
<1> DEFINE Below(i) == {j \in Evictable : j < i}
           Bad == {n \in Index : Freed[n] # Total(seg, Below(n))}
<1>1. SUFFICES ASSUME Bad # {} PROVE FALSE
  OBVIOUS
<1>2. PICK m \in Bad : \A n \in Bad : m <= n
  <2>1. Bad \subseteq Nat
    BY DEF Index
  <2> HIDE DEF Bad
  <2> QED
    BY <1>1, <2>1, SmallestNumber
<1>3. /\ m \in Nat /\ m <= MaxIndex /\ MaxIndex \in Nat
      /\ Freed[m] # Total(seg, Below(m))
      /\ \A j \in Evictable : j \in Index /\ j \in Nat /\ seg[j].size \in Nat
  BY BoundsAreNat, ChosenFromRing DEF Index, TypeOK, RingTypeOK, Segment
<1>4. \A i \in Index : Freed[i] =
         IF i = 0 THEN 0
         ELSE LET chosen == /\ i - 1 \in committed
                            /\ Unpinned(i - 1)
                            /\ Expired(i - 1) \/ bytes - Freed[i - 1] > DiskCap
              IN  Freed[i - 1] + (IF chosen THEN seg[i - 1].size ELSE 0)
  BY FreedScan DEF IsScan, Index
<1>5. CASE m = 0
  <2>1. Below(0) = {} /\ Freed[0] = 0
    BY <1>3, <1>4, <1>5
  <2> QED
    BY <1>5, <2>1, TotalStep, FS_EmptySet
<1>6. CASE m # 0
  <2> DEFINE k == m - 1
  <2>1. k \in Index /\ k < m /\ k + 1 = m /\ k \in Nat
    BY <1>3, <1>6 DEF Index
  <2>2. Freed[k] = Total(seg, Below(k))
    BY <1>2, <1>3, <2>1
  <2>3. IsFiniteSet(Below(m)) /\ IsFiniteSet(Below(k))
    <3>1. IsFiniteSet(0 .. MaxIndex)
      BY <1>3, FS_Interval
    <3> QED
      BY <1>3, <3>1, FS_Subset DEF Index
  <2>4. Freed[m] = Freed[k] + (IF k \in Evictable THEN seg[k].size ELSE 0)
    <3>1. k \in Evictable <=> /\ k \in committed /\ Unpinned(k)
                              /\ Expired(k) \/ bytes - Freed[k] > DiskCap
      BY DEF Evictable
    <3> QED
      BY <1>4, <1>6, <3>1
  <2>5. CASE k \in Evictable
    <3>1. k \in Below(m) /\ Below(m) \ {k} = Below(k)
      BY <1>3, <2>1, <2>5
    <3>2. Total(seg, Below(m)) = seg[k].size + Total(seg, Below(m) \ {k})
      BY <1>3, <2>3, <3>1, TotalRemove
    <3>3. Total(seg, Below(k)) \in Nat /\ seg[k].size \in Nat
      BY <1>3, <2>3, <2>5, TotalType
    <3>4. Total(seg, Below(m)) = seg[k].size + Total(seg, Below(k))
      BY <3>1, <3>2
    <3> HIDE DEF Below
    <3> QED
      BY <1>3, <2>2, <2>4, <2>5, <3>3, <3>4
  <2>6. CASE k \notin Evictable
    <3>1. Below(m) = Below(k)
      BY <1>3, <2>1, <2>6
    <3>2. Total(seg, Below(k)) \in Nat
      BY <1>3, <2>3, TotalType
    <3>3. Total(seg, Below(m)) = Total(seg, Below(k))
      BY <3>1
    <3> HIDE DEF Below
    <3> QED
      BY <1>3, <2>2, <2>4, <2>6, <3>2, <3>3
  <2> QED
    BY <2>5, <2>6
<1> QED
  BY <1>5, <1>6

\* The byte count is within the cap, or all of S is pinned.
Capped(b, S) == b <= DiskCap \/ \A i \in S : ~Unpinned(i)

\* What is older than the window is pinned.
NoneExpired(S) == \A i \in S : Expired(i) => ~Unpinned(i)

\* The newest segment stays, and with it the end of the window, or only pinned
\* ones do.
NewestStays(S, V) == S = {} \/ Newest(S) \notin V \/ \A i \in S \ V : ~Unpinned(i)

\* A non-empty set of indices has a newest one.
LEMMA NewestIs ==
  ASSUME NEW S \in SUBSET Index, S # {}
  PROVE  Newest(S) \in S /\ \A j \in S : j <= Newest(S)
<1>1. MaxIndex \in Nat /\ \A i \in S : i \in Nat /\ i <= MaxIndex
  BY BoundsAreNat DEF Index
<1> DEFINE T == {n \in Nat : \E i \in S : n = MaxIndex - i}
<1>2. PICK m \in T : \A n \in T : m <= n
  <2>1. T \subseteq Nat /\ T # {}
    BY <1>1
  <2> HIDE DEF T
  <2> QED
    BY <2>1, SmallestNumber
<1>3. PICK i \in S : m = MaxIndex - i
  OBVIOUS
<1>4. \A j \in S : j <= i
  <2> TAKE j \in S
  <2>1. MaxIndex - j \in T
    BY <1>1
  <2>2. m <= MaxIndex - j
    BY <1>2, <2>1
  <2> HIDE DEF T
  <2> QED
    BY <1>1, <1>3, <2>2
<1> QED
  BY <1>3, <1>4 DEF Newest

\* A newest segment is still the newest of what is left around it.
LEMMA SameNewest ==
  ASSUME NEW S \in SUBSET Index, NEW R \in SUBSET S, Newest(S) \in R
  PROVE  Newest(R) = Newest(S)
<1>1. /\ Newest(R) \in S /\ Newest(R) <= Newest(S)
      /\ Newest(S) \in S /\ Newest(S) <= Newest(R)
  <2>1. R \in SUBSET Index /\ R # {} /\ S # {}
    OBVIOUS
  <2> HIDE DEF Newest
  <2> QED
    BY <2>1, NewestIs
<1>2. Newest(R) \in Nat /\ Newest(S) \in Nat
  <2>1. \A i \in S : i \in Nat
    BY DEF Index
  <2> HIDE DEF Newest
  <2> QED
    BY <1>1, <2>1
<1> HIDE DEF Newest
<1> QED
  BY <1>1, <1>2

\* Removing what the scan has chosen is enough: it leaves the cap respected or
\* only pinned segments, and nothing expired that is not pinned; and as it goes
\* from the oldest to the newest, it takes the newest only with all the others.
LEMMA EvictsEnough ==
  TypeOK =>
    /\ Capped(bytes - Total(seg, Evictable), committed \ Evictable)
    /\ NoneExpired(committed \ Evictable) /\ NewestStays(committed, Evictable)
<1> SUFFICES ASSUME TypeOK
             PROVE  /\ Capped(bytes - Total(seg, Evictable), committed \ Evictable)
                    /\ NoneExpired(committed \ Evictable) /\ NewestStays(committed, Evictable)
  OBVIOUS
<1>1. NoneExpired(committed \ Evictable)
  BY DEF NoneExpired, Evictable
<1>2. ASSUME NEW i \in committed \ Evictable, Unpinned(i)
      PROVE  bytes - Total(seg, Evictable) <= DiskCap
  <2>1. i \in Index /\ Evictable \subseteq Index /\ bytes \in Int /\ DiskCap \in Int
    BY BoundsAreNat, ChosenFromRing DEF TypeOK, RingTypeOK
  <2>2. IsFiniteSet(Evictable) /\ \A j \in Evictable : seg[j].size \in Nat
    <3>1. IsFiniteSet(0 .. MaxIndex)
      BY BoundsAreNat, FS_Interval
    <3> QED
      BY <2>1, <3>1, FS_Subset DEF TypeOK, RingTypeOK, Segment, Index
  <2>3. ~ (bytes - Freed[i] > DiskCap)
    BY <1>2 DEF Evictable
  <2> DEFINE Below == {j \in Evictable : j < i}
  <2>4. Freed[i] = Total(seg, Below)
    BY <2>1, FreedBelow
  <2>5. /\ Below \in SUBSET Evictable /\ IsFiniteSet(Below)
        /\ Total(seg, Below) \in Nat /\ Total(seg, Evictable) \in Nat
    <3>1. Below \in SUBSET Evictable /\ IsFiniteSet(Below)
      BY <2>2, FS_Subset
    <3> QED
      BY <2>2, <3>1, TotalType
  <2>6. Total(seg, Below) <= Total(seg, Evictable)
    BY <2>2, <2>5, TotalGrows
  <2> DEFINE a == Total(seg, Below)
             b == Total(seg, Evictable)
  <2>7. ~ (bytes - a > DiskCap) /\ a <= b /\ a \in Nat /\ b \in Nat
    BY <2>3, <2>4, <2>5, <2>6
  <2> HIDE DEF a, b, Below
  <2>8. bytes - b <= DiskCap
    BY <2>1, <2>7
  <2> QED
    BY <2>8 DEF b
<1>3. ASSUME NEW n \in Evictable, n = Newest(committed), NEW i \in committed \ Evictable, Unpinned(i)
      PROVE  FALSE
  <2>1. /\ i \in Index /\ n \in Index /\ committed \in SUBSET Index /\ n \in committed
        /\ Evictable \in SUBSET Index /\ bytes \in Int /\ DiskCap \in Int
        /\ i \in Nat /\ n \in Nat
    BY BoundsAreNat, ChosenFromRing DEF TypeOK, RingTypeOK, Index
  <2>2. i < n
    BY <1>3, <2>1, NewestIs
  <2>3. ~ Expired(n)
    <3>1. NewestEnd = seg[n].end
      BY <1>3, <2>1 DEF NewestEnd
    <3>2. seg[n].end \in Nat /\ Window \in Nat
      BY <2>1, BoundsAreNat DEF TypeOK, RingTypeOK, Segment
    <3> QED
      BY <3>1, <3>2 DEF Expired
  <2>4. bytes - Freed[n] > DiskCap /\ ~ (bytes - Freed[i] > DiskCap)
    BY <1>3, <2>3 DEF Evictable
  <2> DEFINE Below(m) == {j \in Evictable : j < m}
  <2>5. Freed[i] = Total(seg, Below(i)) /\ Freed[n] = Total(seg, Below(n))
    BY <2>1, FreedBelow
  <2>6. Below(i) \in SUBSET Below(n) /\ Below(n) \in SUBSET Index
    <3>1. \A j \in Evictable : j \in Nat
      BY <2>1 DEF Index
    <3>2. \A j \in Evictable : j < i => j < n
      BY <2>1, <2>2, <3>1
    <3>3. Below(i) \in SUBSET Below(n)
      BY <3>2
    <3> QED
      BY <2>1, <3>3
  <2>7. /\ IsFiniteSet(Below(n)) /\ \A j \in Below(n) : seg[j].size \in Nat
        /\ IsFiniteSet(Below(i))
    <3>1. IsFiniteSet(0 .. MaxIndex)
      BY BoundsAreNat, FS_Interval
    <3> HIDE DEF Below
    <3> QED
      BY <2>6, <3>1, FS_Subset DEF TypeOK, RingTypeOK, Segment, Index
  <2> DEFINE a == Total(seg, Below(i))
             b == Total(seg, Below(n))
  <2>8. a <= b /\ a \in Nat /\ b \in Nat
    <3> HIDE DEF Below
    <3>1. \A j \in Below(i) : seg[j].size \in Nat
      BY <2>6, <2>7
    <3> QED
      BY <2>6, <2>7, <3>1, TotalGrows, TotalType
  <2>9. bytes - b > DiskCap /\ ~ (bytes - a > DiskCap)
    BY <2>4, <2>5
  <2> HIDE DEF a, b
  <2> QED
    BY <2>1, <2>8, <2>9
<1>4. NewestStays(committed, Evictable)
  BY <1>3 DEF NewestStays
<1> QED
  BY <1>1, <1>2, <1>4 DEF Capped

-----------------------------------------------------------------------------
(* The byte counter and the bounds of the ring *)

\* What is in the ring, and its size, once the eviction under way is over.
Left      == IF lock = "evict" THEN committed \ victims ELSE committed
LeftBytes == IF lock = "evict" THEN bytes - Total(seg, victims) ELSE bytes

\* The inductive form of DiskBounded: an eviction that has begun will do.
DiskInv ==
  /\ bytes = Total(seg, committed)
  /\ faults = 0 =>
       /\ Capped(LeftBytes, Left) /\ NoneExpired(Left)
       /\ lock = "evict" => NewestStays(committed, victims)

\* The ring and its parts are finite, and their sizes are natural numbers.
LEMMA RingIsFinite ==
  ASSUME TypeOK, NEW S \in SUBSET Index
  PROVE  IsFiniteSet(S) /\ (\A i \in S : seg[i].size \in Nat) /\ Total(seg, S) \in Nat
<1>1. IsFiniteSet(0 .. MaxIndex)
  BY BoundsAreNat, FS_Interval
<1>2. IsFiniteSet(S) /\ \A i \in S : seg[i].size \in Nat
  BY <1>1, FS_Subset DEF TypeOK, RingTypeOK, Segment, Index
<1> QED
  BY <1>2, TotalType

\* DiskInv holds at the start.
LEMMA InitDisk == Init => DiskInv
<1> SUFFICES ASSUME Init PROVE DiskInv
  OBVIOUS
<1>1. committed = {} /\ bytes = 0 /\ lock = "free" /\ 0 <= DiskCap
  BY BoundsAreNat DEF Init
<1>2. Total(seg, {}) = 0
  BY TotalStep, FS_EmptySet
<1> QED
  BY <1>1, <1>2 DEF DiskInv, Left, LeftBytes, Capped, NoneExpired

\* A step that leaves the ring alone and takes no pin back keeps it.
LEMMA RingUntouched ==
  ASSUME TypeOK, DiskInv, UNCHANGED <<lock, victims, seg, committed, bytes>>,
         faults' = 0 => faults = 0, \A i \in Index : Unpinned(i)' => Unpinned(i)
  PROVE  DiskInv'
<1>1. committed \subseteq Index
  BY DEF TypeOK, RingTypeOK
<1> QED
  BY <1>1 DEF DiskInv, Left, LeftBytes, Capped, NoneExpired, NewestStays, Expired, NewestEnd

\* An eviction that begins chooses enough.
LEMMA EvictionBegins ==
  ASSUME TypeOK', lock' = "evict", victims' = Evictable', bytes' = Total(seg, committed)'
  PROVE  DiskInv'
<1>1. TypeOK' => /\ Capped(bytes - Total(seg, Evictable), committed \ Evictable)'
                 /\ NoneExpired(committed \ Evictable)' /\ NewestStays(committed, Evictable)'
  BY EvictsEnough, PTL
<1> QED
  BY <1>1 DEF DiskInv, Left, LeftBytes, Capped, NoneExpired, NewestStays

\* A commit counts its segment, and begins an eviction.
LEMMA CommitKeepsDisk ==
  ASSUME TypeOK, TypeOK', StoredBelowNext, DiskInv, NEW u, CommitPending(u)
  PROVE  DiskInv'
<1>1. /\ nextIndex \in Index /\ nextIndex \notin committed /\ committed \in SUBSET Index
      /\ pending.size \in Nat
  BY DEF TypeOK, RingTypeOK, PendingTypeOK, Pending, StoredBelowNext, Index
<1>2. /\ committed' = committed \cup {nextIndex} /\ bytes' = bytes + pending.size
      /\ lock' = "evict" /\ victims' = Evictable'
      /\ seg'[nextIndex].size = pending.size /\ \A i \in committed : seg'[i].size = seg[i].size
  BY <1>1 DEF CommitPending, TypeOK, RingTypeOK
<1>3. Total(seg, committed) = Total(seg', committed) /\ Total(seg, committed) \in Nat
  BY <1>1, <1>2, RingIsFinite, TotalSame
<1>4. Total(seg', committed') = pending.size + Total(seg', committed)
  <2>1. IsFiniteSet(committed') /\ \A i \in committed' : seg'[i].size \in Nat
    <3>1. IsFiniteSet(committed) /\ \A i \in committed : seg[i].size \in Nat
      BY <1>1, RingIsFinite
    <3> QED
      BY <1>1, <1>2, <3>1, FS_AddElement
  <2>2. nextIndex \in committed' /\ committed' \ {nextIndex} = committed
    BY <1>1, <1>2
  <2>3. Total(seg', committed') = seg'[nextIndex].size + Total(seg', committed' \ {nextIndex})
    BY <2>1, <2>2, TotalRemove
  <2> QED
    BY <1>2, <2>2, <2>3
<1>5. bytes' = Total(seg', committed')
  <2>1. bytes = Total(seg, committed)
    BY DEF DiskInv
  <2> QED
    BY <1>1, <1>2, <1>3, <1>4, <2>1
<1>6. Total(seg, committed)' = Total(seg', committed')
  OBVIOUS
<1> QED
  BY <1>2, <1>5, <1>6, EvictionBegins

\* A removal takes its segment out of the counter and out of the victims; when
\* it fails the counter does not change either.
LEMMA EvictionKeepsDisk ==
  ASSUME TypeOK, VictimsUnpinned, DiskInv, EvictOne
  PROVE  DiskInv'
<1>1. PICK i \in victims :
        /\ victims' = victims \ {i}
        /\ \/ RemoveSegment(i) /\ UNCHANGED faults
           \/ Fault /\ UNCHANGED <<files, committed, bytes, removed>>
  BY DEF EvictOne
<1>2. lock = "evict" /\ lock' = "evict" /\ seg' = seg /\ pins' = pins
  BY DEF EvictOne
<1>3. /\ committed \in SUBSET Index /\ victims \in SUBSET Index /\ i \in committed
      /\ bytes \in Int /\ faults \in Nat
  BY <1>2 DEF TypeOK, RingTypeOK, LockTypeOK, DiskTypeOK, VictimsUnpinned
<1>4. CASE Fault /\ UNCHANGED <<files, committed, bytes, removed>>
  <2>1. faults' # 0 /\ committed' = committed /\ bytes' = bytes
    BY <1>3, <1>4 DEF Fault
  <2> QED
    BY <1>2, <2>1 DEF DiskInv
<1>5. CASE RemoveSegment(i) /\ UNCHANGED faults
  <2>1. committed' = committed \ {i} /\ bytes' = bytes - seg[i].size /\ faults' = faults
    BY <1>5 DEF RemoveSegment
  <2>2. /\ Total(seg, committed) = seg[i].size + Total(seg, committed \ {i})
        /\ Total(seg, victims) = seg[i].size + Total(seg, victims \ {i})
        /\ seg[i].size \in Nat
        /\ Total(seg, committed \ {i}) \in Nat /\ Total(seg, victims \ {i}) \in Nat
    BY <1>3, RingIsFinite, TotalRemove
  <2>3. bytes' = Total(seg, committed)'
    <3>1. Total(seg, committed)' = Total(seg, committed \ {i})
      BY <1>2, <2>1
    <3> QED
      BY <2>1, <2>2, <3>1 DEF DiskInv
  <2>4. Left' = Left
    BY <1>1, <1>2, <1>3, <2>1 DEF Left
  <2>5. LeftBytes' = LeftBytes
    <3>1. Total(seg, victims)' = Total(seg, victims \ {i})
      BY <1>1, <1>2
    <3>2. LeftBytes' = bytes' - Total(seg, victims)' /\ LeftBytes = bytes - Total(seg, victims)
      BY <1>2 DEF LeftBytes
    <3> QED
      BY <1>3, <2>1, <2>2, <3>1, <3>2
  <2>6. Capped(LeftBytes, Left) => Capped(LeftBytes, Left)'
    BY <1>2, <2>4, <2>5 DEF Capped, Unpinned
  <2>7. committed # {} /\ NewestStays(committed, victims) =>
          (committed' # {} /\ NewestEnd' = NewestEnd) \/ \A j \in Left : ~Unpinned(j)
    <3>1. CASE Newest(committed) = i
      BY <1>2, <1>3, <3>1 DEF NewestStays, Left
    <3>2. CASE Newest(committed) # i
      <4>1. Newest(committed) \in committed'
        BY <1>3, <2>1, <3>2, NewestIs
      <4>2. Newest(committed') = Newest(committed)
        BY <1>3, <2>1, <4>1, SameNewest
      <4>3. NewestEnd = seg[Newest(committed)].end /\ NewestEnd' = seg[Newest(committed')].end
        BY <1>2, <1>3, <4>1 DEF NewestEnd, Newest
      <4> QED
        BY <4>1, <4>2, <4>3
    <3> QED
      BY <3>1, <3>2
  <2>8. NoneExpired(Left) /\ NewestStays(committed, victims) => NoneExpired(Left)'
    BY <1>2, <1>3, <2>4, <2>7 DEF NoneExpired, Unpinned, Expired
  <2>9. NewestStays(committed, victims) => NewestStays(committed, victims)'
    <3>1. committed' \ victims' = Left /\ committed \ victims = Left
      BY <1>2, <2>4 DEF Left
    <3>2. CASE Newest(committed) \in victims
      BY <1>2, <1>3, <3>1, <3>2 DEF NewestStays, Unpinned
    <3>3. CASE Newest(committed) \notin victims
      <4>1. Newest(committed) \in committed'
        BY <1>3, <2>1, <3>3, NewestIs
      <4>2. Newest(committed') = Newest(committed)
        BY <1>3, <2>1, <4>1, SameNewest
      <4>3. Newest(committed)' = Newest(committed')
        BY DEF Newest
      <4> QED
        BY <1>1, <3>3, <4>2, <4>3 DEF NewestStays
    <3> QED
      BY <3>2, <3>3
  <2> QED
    BY <1>2, <2>1, <2>3, <2>6, <2>8, <2>9 DEF DiskInv
<1> QED
  BY <1>1, <1>4, <1>5

\* An eviction that is over has removed all it had chosen.
LEMMA EvictDoneKeepsDisk ==
  ASSUME TypeOK, DiskInv, EvictDone PROVE DiskInv'
<1>1. /\ lock = "evict" /\ victims = {} /\ lock' # "evict"
      /\ UNCHANGED <<victims, seg, committed, bytes, pins, faults>> /\ bytes \in Int
  BY DEF EvictDone, segmentVars, TypeOK, RingTypeOK
<1>2. Total(seg, victims) = 0
  BY <1>1, TotalStep, FS_EmptySet
<1>3. Left' = Left /\ LeftBytes' = LeftBytes
  BY <1>1, <1>2 DEF Left, LeftBytes
<1>4. Total(seg, committed)' = Total(seg, committed)
  BY <1>1
<1> QED
  BY <1>1, <1>3, <1>4 DEF DiskInv, Capped, NoneExpired, Expired, NewestEnd, Unpinned

\* Every step keeps DiskInv.
LEMMA NextDisk == TypeOK /\ PinInv /\ DiskInv /\ [Next]_vars => DiskInv'
<1> SUFFICES ASSUME TypeOK, PinInv, DiskInv, [Next]_vars PROVE DiskInv'
  OBVIOUS
<1>1. TypeOK'
  BY NextType
<1>2. faults \in Nat /\ pins \in [Index -> Nat] /\ StoredBelowNext /\ VictimsUnpinned
  BY DEF TypeOK, RingTypeOK, DiskTypeOK, PinInv
<1>3. ASSUME UNCHANGED <<lock, victims, seg, committed, bytes, pins>>, faults' = faults \/ Fault
      PROVE  DiskInv'
  BY <1>2, <1>3, RingUntouched DEF Fault, Unpinned
<1>4. CASE Encoder
  <2>1. ASSUME NEW u, CommitPending(u) \/ CommitPendingFails(u) PROVE DiskInv'
    <3>1. CASE CommitPending(u)
      BY <1>1, <1>2, <3>1, CommitKeepsDisk
    <3>2. CASE CommitPendingFails(u)
      BY <1>3, <3>2 DEF CommitPendingFails, lockVars, segmentVars
    <3> QED
      BY <2>1, <3>1, <3>2
  <2>2. ASSUME NEW f, PushCommits(f) PROVE DiskInv'
    BY <2>1, <2>2 DEF PushCommits
  <2>3. CASE FormatChangeCommits \/ FinalizeCommits
    BY <2>1, <2>3 DEF FormatChangeCommits, FinalizeCommits
  <2>4. ASSUME NEW f, DropFragment(f) \/ Push(f) PROVE DiskInv'
    BY <1>3, <2>4 DEF DropFragment, Push, lockVars, segmentVars
  <2>5. CASE Configure \/ PersistInit \/ PersistInitFails \/ EndOfStream \/ SetClosing
    BY <1>3, <2>5 DEF Configure, PersistInit, PersistInitFails, EndOfStream, SetClosing, lockVars,
       segmentVars
  <2>6. CASE FormatChange \/ Finalize
    BY <1>3, <2>6 DEF FormatChange, Finalize, lockVars, segmentVars
  <2> QED
    BY <1>4, <2>2, <2>3, <2>4, <2>5, <2>6 DEF Encoder
<1>5. CASE UnderLock
  <2>1. CASE EvictOne
    BY <1>2, <2>1, EvictionKeepsDisk
  <2>2. CASE EvictDone
    BY <2>2, EvictDoneKeepsDisk
  <2>3. ASSUME lock # "evict", lock' # "evict", UNCHANGED <<victims, segmentVars, bytes, pins>>,
               faults' = faults \/ Fault
        PROVE  DiskInv'
    <3>1. faults' = 0 => faults = 0
      BY <1>2, <2>3 DEF Fault
    <3>2. Left' = Left /\ LeftBytes' = LeftBytes /\ Total(seg, committed)' = Total(seg, committed)
      BY <2>3 DEF Left, LeftBytes, segmentVars
    <3> QED
      BY <2>3, <3>1, <3>2 DEF DiskInv, Capped, NoneExpired, Expired, NewestEnd, Unpinned, segmentVars
  <2>4. ASSUME NEW u, WriteManifest(u) PROVE DiskInv'
    BY <2>3, <2>4 DEF WriteManifest
  <2>5. CASE WriteManifestFails
    BY <2>3, <2>5 DEF WriteManifestFails
  <2> QED
    BY <1>5, <2>1, <2>2, <2>4, <2>5 DEF UnderLock, PushEnds, FormatChangeEnds, FinalizeEnds, ReleaseEnds
<1>6. CASE Rpc
  <2>1. ASSUME NEW s \in Snap, ReleaseSnapshot(s) PROVE DiskInv'
    <3>1. /\ lock' = "evict" /\ victims' = Evictable'
          /\ UNCHANGED <<segmentVars, bytes>>
      BY <2>1 DEF ReleaseSnapshot, UnchangedByRpc
    <3>2. bytes = Total(seg, committed) /\ Total(seg, committed)' = Total(seg, committed)
      BY <3>1 DEF DiskInv, segmentVars
    <3> QED
      BY <1>1, <3>1, <3>2, EvictionBegins
  <2>2. ASSUME NEW s \in Snap, NEW d, PinSnapshot(s, d) PROVE DiskInv'
    <3>1. UNCHANGED <<lock, victims, seg, committed, bytes, faults>>
      BY <2>2 DEF PinSnapshot, UnchangedByRpc, lockVars, segmentVars
    <3>2. pins' = PinAll(WithinLast(d))
      BY <2>2 DEF PinSnapshot
    <3>3. \A i \in Index : Unpinned(i)' => Unpinned(i)
      BY <1>2, <3>2 DEF PinAll, Unpinned
    <3> QED
      BY <3>1, <3>3, RingUntouched
  <2>3. ASSUME NEW s \in Snap, \/ Save(s) \/ SaveSeesClose(s) \/ SaveTimesOut(s)
                               \/ RegisterSnapshot(s) \/ RemoveSnapshot(s) \/ AbortDispatch(s)
        PROVE  DiskInv'
    BY <1>3, <2>3 DEF Save, SaveSeesClose, SaveTimesOut, RegisterSnapshot, RemoveSnapshot,
       AbortDispatch, UnchangedByRpc, lockVars, segmentVars
  <2>4. CASE StopSession
    BY <1>3, <2>4 DEF StopSession, UnchangedByRpc, lockVars, segmentVars
  <2> QED
    BY <1>6, <2>1, <2>2, <2>3, <2>4 DEF Rpc
<1>7. CASE Crash \/ Scan \/ UNCHANGED vars
  BY <1>3, <1>7 DEF Crash, Scan, UnchangedByProcess, vars, lockVars, segmentVars
<1> QED
  BY <1>4, <1>5, <1>6, <1>7 DEF Next

\* DiskBounded: the byte counter is the size of the ring whatever deletion has
\* failed; and between the operations, while no file operation has failed, the
\* ring respects the disk cap or is all pinned, and nothing expired is unpinned.
THEOREM RingIsBounded == Spec => []DiskBounded
<1>1. Init => TypeOK /\ PinInv /\ DiskInv
  BY InitType, InitPins, InitDisk
<1>2. TypeOK /\ PinInv /\ DiskInv /\ [Next]_vars => (TypeOK /\ PinInv /\ DiskInv)'
  BY NextType, NextPins, NextDisk
<1>3. DiskInv => DiskBounded
  <2>1. DiskInv => bytes = MapThenSumSet(LAMBDA i : seg[i].size, committed)
    BY DEF DiskInv, Total
  <2> QED
    BY <2>1 DEF DiskInv, DiskBounded, LockFree, Left, LeftBytes, Capped, NoneExpired
<1> QED
  BY <1>1, <1>2, <1>3, PTL DEF Spec

-----------------------------------------------------------------------------
(* The buffer implements the abstract store *)

\* Every step of the buffer is a step of the store, or leaves it alone: a
\* commit records, one file removal forgets, a pin takes, a release returns.
LEMMA StepRefines ==
  ASSUME TypeOK, PinInv, [Next]_vars
  PROVE  [Store!Next]_(Store!vars)
<1> USE DEF Store!vars
<1>1. ASSUME UNCHANGED <<nextIndex, committed, held>> PROVE [Store!Next]_(Store!vars)
  BY <1>1
<1>2. ASSUME NEW u, CommitPending(u) \/ CommitPendingFails(u) PROVE [Store!Next]_(Store!vars)
  <2>1. /\ nextIndex' = nextIndex + 1 /\ held' = held
        /\ committed' \in {committed, committed \cup {nextIndex}}
    BY <1>2 DEF CommitPending, CommitPendingFails, snapshotVars, segmentVars
  <2> QED
    BY <2>1 DEF Store!Next, Store!Record
<1>3. CASE Encoder
  <2>1. ASSUME NEW f, PushCommits(f) PROVE [Store!Next]_(Store!vars)
    BY <1>2, <2>1 DEF PushCommits
  <2>2. CASE FormatChangeCommits \/ FinalizeCommits
    BY <1>2, <2>2 DEF FormatChangeCommits, FinalizeCommits
  <2>3. ASSUME NEW f, DropFragment(f) \/ Push(f) PROVE UNCHANGED <<nextIndex, committed, held>>
    BY <2>3 DEF DropFragment, Push, segmentVars, snapshotVars
  <2>4. ASSUME \/ Configure \/ PersistInit \/ PersistInitFails \/ EndOfStream
               \/ SetClosing \/ FormatChange \/ Finalize
        PROVE  UNCHANGED <<nextIndex, committed, held>>
    BY <2>4 DEF Configure, PersistInit, PersistInitFails, EndOfStream, SetClosing, FormatChange,
       Finalize, segmentVars, snapshotVars
  <2> QED
    BY <1>1, <1>3, <2>1, <2>2, <2>3, <2>4 DEF Encoder
<1>4. CASE EvictOne
  <2>1. PICK i \in victims :
          \/ RemoveSegment(i) /\ UNCHANGED faults
          \/ Fault /\ UNCHANGED <<files, committed, bytes, removed>>
    BY <1>4 DEF EvictOne
  <2>2. UNCHANGED <<nextIndex, held>>
    BY <1>4 DEF EvictOne, snapshotVars
  <2>3. CASE RemoveSegment(i)
    <3>1. i \in Index /\ i \in committed /\ pins[i] = 0
      BY <1>4 DEF EvictOne, PinInv, VictimsUnpinned, Unpinned, TypeOK, LockTypeOK
    <3>2. Holders(i) = {}
      BY <3>1, HoldersAreFinite, FS_EmptySet DEF PinInv, PinsExact
    <3>3. \A s \in Snap : i \notin held[s]
      BY <3>2 DEF Holders, PinInv, HeldByHolders
    <3> QED
      BY <2>2, <2>3, <3>1, <3>3 DEF RemoveSegment, Store!Next, Store!Forget
  <2> QED
    BY <1>1, <2>1, <2>2, <2>3
<1>5. CASE UnderLock
  <2>1. ASSUME NEW u, WriteManifest(u) PROVE UNCHANGED <<nextIndex, committed, held>>
    BY <2>1 DEF WriteManifest, segmentVars, snapshotVars
  <2>2. ASSUME WriteManifestFails \/ EvictDone PROVE UNCHANGED <<nextIndex, committed, held>>
    BY <2>2 DEF WriteManifestFails, EvictDone, segmentVars, snapshotVars
  <2> QED
    BY <1>1, <1>4, <1>5, <2>1, <2>2 DEF UnderLock, PushEnds, FormatChangeEnds, FinalizeEnds,
       ReleaseEnds
<1>6. ASSUME NEW s \in Snap, NEW d \in SaveDurations, PinSnapshot(s, d)
      PROVE  [Store!Next]_(Store!vars)
  <2>1. /\ held' = [held EXCEPT ![s] = WithinLast(d)] /\ held[s] = {}
        /\ UNCHANGED <<nextIndex, committed>>
    BY <1>6 DEF PinSnapshot, UnchangedByRpc, segmentVars, PinInv, HeldByHolders, Pinning
  <2>2. WithinLast(d) \subseteq committed
    BY ConstantsAssumption, ChosenFromRing
  <2>3. \A i \in WithinLast(d), j \in committed : j > i => j \in WithinLast(d)
    <3> SUFFICES ASSUME NEW i \in WithinLast(d), NEW j \in committed, j > i,
                        NEW k \in committed, k >= j
                 PROVE  seg[k].end > NewestEnd - d
      BY DEF WithinLast
    <3>1. i \in Int /\ j \in Int /\ k \in Int
      <4>1. i \in committed
        BY <2>2
      <4>2. committed \subseteq Int
        BY DEF TypeOK, RingTypeOK, Index
      <4> QED
        BY <4>1, <4>2
    <3>2. k >= i
      BY <3>1
    <3> QED
      BY <3>2 DEF WithinLast
  <2>4. Store!Take(s, WithinLast(d))
    BY <2>1, <2>3 DEF Store!Take
  <2> QED
    BY <2>2, <2>4 DEF Store!Next
<1>7. ASSUME NEW s \in Snap, ReleaseSnapshot(s) PROVE [Store!Next]_(Store!vars)
  <2>1. held' = [held EXCEPT ![s] = {}] /\ UNCHANGED <<nextIndex, committed>>
    BY <1>7 DEF ReleaseSnapshot, UnchangedByRpc, segmentVars
  <2> QED
    BY <2>1 DEF Store!Next, Store!Return
<1>8. CASE Rpc
  <2>1. ASSUME NEW s \in Snap, \/ Save(s) \/ SaveSeesClose(s) \/ SaveTimesOut(s)
                               \/ RegisterSnapshot(s) \/ RemoveSnapshot(s) \/ AbortDispatch(s)
        PROVE  UNCHANGED <<nextIndex, committed, held>>
    BY <2>1 DEF Save, SaveSeesClose, SaveTimesOut, RegisterSnapshot, RemoveSnapshot,
       AbortDispatch, UnchangedByRpc, segmentVars
  <2>2. ASSUME StopSession PROVE UNCHANGED <<nextIndex, committed, held>>
    BY <2>2 DEF StopSession, UnchangedByRpc, segmentVars, snapshotVars
  <2> QED
    BY <1>1, <1>6, <1>7, <1>8, <2>1, <2>2 DEF Rpc
<1>9. CASE Crash \/ Scan \/ UNCHANGED vars
  BY <1>1, <1>9 DEF Crash, Scan, UnchangedByProcess, vars, segmentVars, snapshotVars
<1> QED
  BY <1>3, <1>5, <1>8, <1>9 DEF Next

\* ImplementsReplayStore: the buffer is a log whose end a snapshot can take and
\* whose segments are only forgotten while no snapshot has taken them.
THEOREM Refinement == Spec => ImplementsReplayStore
<1>1. Init => Store!Init
  BY DEF Init, Store!Init
<1>2. TypeOK /\ PinInv /\ [Next]_vars => [Store!Next]_(Store!vars)
  BY StepRefines
<1> QED
  BY <1>1, <1>2, TypeCorrect, PinInvCorrect, PTL DEF Spec, Store!Spec, ImplementsReplayStore
=============================================================================
