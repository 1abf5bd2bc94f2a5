------------------------------- MODULE ArmsProofs -------------------------------
(***************************************************************************)
(* What each part of the merge is worth, for every delivery, every cutting *)
(* into batches and every length of log.                                   *)
(*                                                                         *)
(* The argument: the arms only watch the pipeline, so its invariant is     *)
(* theirs.  Where a partition's order is kept, every pending record comes  *)
(* after every one of its key handed over (OrderKept), which is what       *)
(* the guard and the soft delete would have to find out, and what makes    *)
(* the arm without a reduction and the one with versions predictable.      *)
(***************************************************************************)
EXTENDS Arms, PipelineProofs

-----------------------------------------------------------------------------
(* The arms watch the pipeline.                                             *)

LEMMA ArmsStep == [ArmsNext]_armsVars => [PipelineNext]_pipelineVars
BY DEF ArmsNext, Feed, LoadBatch, PipelineNext, armsVars

\* Whatever the pipeline promises holds beside the arms: loading a batch into
\* another warehouse does nothing to the run (load).
THEOREM ArmsAreAPipeline == ArmsSpec => PipelineSpec
<1>1. ArmsInit => PipelineInit
  BY DEF ArmsInit
<1> QED BY <1>1, ArmsStep, PTL DEF ArmsSpec, PipelineSpec

\* A step of the arms: nothing happens to them, or a batch is committed.
LEMMA ArmsCases ==
  ASSUME [ArmsNext]_armsVars
  PROVE  \/ UNCHANGED armVars /\ [Commits \/ Poll \/ StartBatch \/ RunStatement]_pipelineVars
         \/ LoadBatch
BY DEF ArmsNext, Feed, armsVars

-----------------------------------------------------------------------------
(* Types.                                                                   *)

EngineTypes ==
  /\ open \in Targets /\ hard \in Targets /\ unreduced \in Targets
  /\ DOMAIN versions \subseteq Rows \X Nat
  /\ \A k \in DOMAIN versions : versions[k] \in StoredRows
  /\ refused \in BOOLEAN /\ doubled \subseteq Rows

LEMMA WithoutDeletedTyped ==
  ASSUME NEW target \in Targets
  PROVE  WithoutDeleted(target) \in Targets
BY DEF WithoutDeleted, Targets

\* A record of the batch under way that may be staged names a row.
LEMMA StagedRows ==
  ASSUME PipelineBase, FinishBatch
  PROVE  \A i \in Addressable(batch) :
           /\ batch[i] \in Records /\ batch[i] \in InBatch(batch) /\ ~batch[i].tomb
           /\ batch[i].row \in Rows
<1> SUFFICES ASSUME NEW i \in Addressable(batch)
             PROVE  /\ batch[i] \in Records /\ batch[i] \in InBatch(batch) /\ ~batch[i].tomb
                    /\ batch[i].row \in Rows
  OBVIOUS
<1>1. /\ batch \in Seq(Records) /\ InBatch(batch) \subseteq delivered
      /\ delivered \subseteq Stream(log) /\ SourceTypeOK
  BY CommitPending DEF PipelineBase, Base, TypeOK
<1> DEFINE e == batch[i]
<1>2. i \in DOMAIN batch /\ ~e.tomb /\ Slot(e) # Absent
  BY DEF Addressable
<1>3. e \in Records /\ e \in InBatch(batch) /\ e \in Stream(log)
  BY <1>1, <1>2 DEF InBatch
<1>4. CASE ~MergeByRecordKey
  BY <1>2, <1>3, <1>4 DEF Slot, Records
<1>5. CASE MergeByRecordKey
  <2>1. NarrowRows = {}
    BY <1>5, PipelineAssumption DEF PipelineAssumption
  <2> QED BY <1>1, <1>2, <1>3, <2>1, ChangeOfRecord
<1> QED BY <1>2, <1>3, <1>4, <1>5

\* What the reduction by row and position stages.
LEMMA VersionsStaged ==
  ASSUME PipelineBase, FinishBatch
  PROVE  \A e \in ReduceVersioned(batch) : e \in Records /\ e.row \in Rows /\ e.lsn \in Nat
<1> SUFFICES ASSUME NEW e \in ReduceVersioned(batch)
             PROVE  e \in Records /\ e.row \in Rows /\ e.lsn \in Nat
  OBVIOUS
<1>1. PICK i \in Addressable(batch) : e = batch[i]
  BY DEF ReduceVersioned
<1> QED BY <1>1, StagedRows DEF Records

LEMMA MergeVersionsTyped ==
  ASSUME NEW target, DOMAIN target \subseteq Rows \X Nat,
         \A k \in DOMAIN target : target[k] \in StoredRows,
         NEW stage, \A e \in stage : e \in Records /\ e.row \in Rows /\ e.lsn \in Nat,
         NEW tombs, NEW n \in Nat
  PROVE  LET merged == EntombIn(MergeVersions(target, stage, n), tombs, n)
         IN  /\ DOMAIN merged \subseteq Rows \X Nat
             /\ \A k \in DOMAIN merged : merged[k] \in StoredRows
<1> DEFINE M == MergeVersions(target, stage, n)
<1>1. DOMAIN M = DOMAIN target \cup {VersionKey(e) : e \in stage}
  BY DEF MergeVersions
<1>2. DOMAIN M \subseteq Rows \X Nat
  BY <1>1 DEF VersionKey
<1>3. ASSUME NEW k \in DOMAIN M PROVE M[k] \in StoredRows
  <2> DEFINE Old == k \in DOMAIN target
                    /\ \A e \in stage : VersionKey(e) = k => ~Matched(e, target[k], TRUE)
  <2>1. M[k] = IF Old THEN target[k] ELSE Stored(CHOOSE e \in stage : VersionKey(e) = k, n)
    BY <1>1, <1>3 DEF MergeVersions
  <2>2. CASE Old
    BY <2>1, <2>2
  <2>3. CASE ~Old
    <3>1. \E e \in stage : VersionKey(e) = k
      BY <1>1, <1>3, <2>3
    <3>2. (CHOOSE e \in stage : VersionKey(e) = k) \in Records
      BY <3>1
    <3> QED BY <2>1, <2>3, <3>2, StoredTyped
  <2> QED BY <2>2, <2>3
<1> HIDE DEF M
<1>4. DOMAIN EntombIn(M, tombs, n) = DOMAIN M
  BY DEF EntombIn
<1>5. ASSUME NEW k \in DOMAIN M PROVE EntombIn(M, tombs, n)[k] \in StoredRows
  <2>1. M[k] \in StoredRows
    BY <1>3
  <2>2. Entomb(M[k], n) \in StoredRows
    BY <2>1 DEF Entomb, StoredRows
  <2> QED BY <2>1, <2>2 DEF EntombIn
<1> QED BY <1>2, <1>4, <1>5 DEF M

\* Of some places of a batch the engine takes the first.
LEMMA FirstPlace ==
  ASSUME NEW b \in Seq(Records), NEW T \in SUBSET DOMAIN b, T # {}
  PROVE  LET first == CHOOSE i \in T : \A j \in T : i <= j
         IN  first \in T /\ \A j \in T : first <= j
<1>1. T \in SUBSET Nat
  OBVIOUS
<1>2. \E m \in T : \A k \in T : m <= k
  BY <1>1, LeastOf
<1> QED BY <1>2

LEMMA MergeUnreducedTyped ==
  ASSUME NEW target \in Targets, NEW b \in Seq(Records), NEW n \in Nat
  PROVE  MergeUnreduced(target, b, n) \in Targets
<1> SUFFICES ASSUME NEW r \in Rows
             PROVE  MergeUnreduced(target, b, n)[r] \in StoredRows \cup {Absent}
  BY DEF Targets, MergeUnreduced
<1> DEFINE taken == {i \in ChangesOf(r, b) : target[r] = Absent \/ Matched(b[i], target[r], TRUE)}
<1> DEFINE first == CHOOSE i \in taken : \A j \in taken : i <= j
<1>1. MergeUnreduced(target, b, n)[r] = IF taken = {} THEN target[r] ELSE Stored(b[first], n)
  BY DEF MergeUnreduced
<1>2. taken \in SUBSET DOMAIN b
  BY DEF ChangesOf, Addressable
<1>3. CASE taken = {}
  BY <1>1, <1>3 DEF Targets
<1>4. CASE taken # {}
  <2>1. first \in DOMAIN b
    <3> HIDE DEF taken
    <3> QED BY <1>2, <1>4, FirstPlace
  <2>2. b[first] \in Records
    BY <2>1
  <2> QED BY <1>1, <1>4, <2>2, StoredTyped
<1> QED BY <1>3, <1>4

LEMMA EngineTypesStep ==
  PipelineBase /\ EngineTypes /\ [ArmsNext]_armsVars => EngineTypes'
<1> SUFFICES ASSUME PipelineBase, EngineTypes, [ArmsNext]_armsVars PROVE EngineTypes'
  OBVIOUS
<1>1. CASE UNCHANGED armVars
  BY <1>1 DEF armVars, EngineTypes
<1>2. CASE LoadBatch
  <2>1. FinishBatch /\ LoadOpen /\ LoadHard /\ LoadVersions /\ LoadUnreduced
    BY <1>2 DEF LoadBatch
  <2>2. batch \in Seq(Records) /\ number \in Nat
    BY <2>1, CommitPending
  <2>3. open' \in Targets
    BY <2>1, <2>2, ApplyTyped DEF LoadOpen, EngineTypes
  <2>4. hard' \in Targets
    <3>1. ApplyTo(hard, batch, number, TRUE, OnTombstone) \in Targets
      BY <2>2, ApplyTyped DEF EngineTypes
    <3> QED BY <2>1, <3>1, WithoutDeletedTyped DEF LoadHard
  <2>5. DOMAIN versions' \subseteq Rows \X Nat /\ \A k \in DOMAIN versions' : versions'[k] \in StoredRows
    <3>1. CASE UNCHANGED versions
      BY <3>1 DEF EngineTypes
    <3>2. CASE versions' = EntombIn(MergeVersions(versions, ReduceVersioned(batch), number),
                                    Tombstones(batch), number)
      <4>1. \A e \in ReduceVersioned(batch) : e \in Records /\ e.row \in Rows /\ e.lsn \in Nat
        BY <2>1, VersionsStaged
      <4> QED BY <2>2, <3>2, <4>1, MergeVersionsTyped DEF EngineTypes
    <3> QED BY <2>1, <3>1, <3>2 DEF LoadVersions
  <2>6. unreduced' \in Targets /\ refused' \in BOOLEAN /\ doubled' \subseteq Rows
    <3>1. EntombIn(MergeUnreduced(unreduced, batch, number), Tombstones(batch), number) \in Targets
      BY <2>2, MergeUnreducedTyped, EntombTyped DEF EngineTypes
    <3> QED BY <2>1, <3>1 DEF LoadUnreduced, EngineTypes
  <2> QED BY <2>3, <2>4, <2>5, <2>6 DEF EngineTypes
<1> QED BY <1>1, <1>2, ArmsCases

\* The arms keep their types, the versions included, in every deployment.
THEOREM ArmsTypes == ArmsSpec => []ArmsTypeOK
<1>1. ArmsInit => PipelineBase /\ EngineTypes
  <2> SUFFICES ASSUME ArmsInit PROVE PipelineBase /\ EngineTypes
    OBVIOUS
  <2>1. EmptyTarget \in Targets
    BY DEF EmptyTarget, Targets
  <2>2. DOMAIN versions = {}
    BY DEF ArmsInit
  <2> QED BY <2>1, <2>2, PipelineInitInv DEF ArmsInit, EngineTypes
<1>2. PipelineBase /\ EngineTypes /\ [ArmsNext]_armsVars => PipelineBase' /\ EngineTypes'
  BY ArmsStep, PipelineBaseStep, EngineTypesStep
<1>3. PipelineBase /\ EngineTypes => ArmsTypeOK
  BY DEF PipelineBase, PipelineTypeOK, Base, WarehouseInv, EngineTypes, ArmsTypeOK
<1> QED BY <1>1, <1>2, <1>3, PTL DEF ArmsSpec

-----------------------------------------------------------------------------
(* Order.                                                                   *)

\* Nothing produced earlier in the partition of a record in H is missing from H.
ClosedUnder(H) ==
  \A e \in H, f \in Stream(log) : SamePartition(e, f) /\ Before(f, e) => f \in H

\* A batch is a prefix of what is left of every partition, in its order.
OrderKept ==
  delivery = "interleave" =>
    /\ ClosedUnder(delivered) /\ ClosedUnder(Handed)
    /\ \A i, j \in DOMAIN pending : i < j =>
         /\ pending[i] # pending[j]
         /\ SamePartition(pending[i], pending[j]) => ~Before(pending[j], pending[i])

LEMMA InAppendedOrder ==
  ASSUME NEW b \in Seq(Records), NEW e \in Records, NEW i \in DOMAIN Append(b, e),
         NEW j \in DOMAIN Append(b, e), i < j
  PROVE  /\ i \in DOMAIN b /\ Append(b, e)[i] = b[i]
         /\ \/ j \in DOMAIN b /\ Append(b, e)[j] = b[j]
            \/ Append(b, e)[j] = e
OBVIOUS

LEMMA OrderKeptStep ==
  PipelineBase /\ OrderKept /\ [PipelineNext]_pipelineVars => OrderKept'
<1> SUFFICES ASSUME PipelineBase, OrderKept, [PipelineNext]_pipelineVars, delivery' = "interleave"
             PROVE  /\ ClosedUnder(delivered)' /\ ClosedUnder(Handed)'
                    /\ \A i, j \in DOMAIN pending' : i < j =>
                         /\ pending'[i] # pending'[j]
                         /\ SamePartition(pending'[i], pending'[j]) => ~Before(pending'[j], pending'[i])
  BY DEF OrderKept
<1>1. delivery' = delivery
  BY DEF PipelineNext, Commits, Poll, StartBatch, RunStatement, FinishBatch, pipelineVars
<1>2. /\ ClosedUnder(delivered) /\ ClosedUnder(Handed)
      /\ \A i, j \in DOMAIN pending : i < j =>
           /\ pending[i] # pending[j]
           /\ SamePartition(pending[i], pending[j]) => ~Before(pending[j], pending[i])
  BY <1>1 DEF OrderKept
<1>3. CASE Commits
  <2>1. delivered = {} /\ delivered' = {} /\ pending' = pending
    BY <1>3 DEF Commits, Produce, consumerVars, warehouseVars, pending
  <2>2. Handed' = {}
    BY <2>1 DEF Handed
  <2> QED BY <1>2, <2>1, <2>2 DEF ClosedUnder
<1>4. CASE Poll
  <2>1. PICK e \in Stream(log) : /\ InPartitionOrder(e, log, delivered)
                                 /\ Deliver(e) /\ buffer' = Append(buffer, e)
    BY <1>1, <1>4 DEF Poll
  <2>2. pc = "idle" /\ pc' = pc /\ log' = log /\ pending = buffer
    BY <1>4 DEF Poll, warehouseVars, sourceVars, pending
  <2>3. Handed' = Handed /\ delivered' = delivered \cup {e} /\ e \notin delivered
    BY <2>1, <2>2, PollPending DEF Deliver, Deliverable
  <2>4. ClosedUnder(delivered)'
    BY <1>2, <2>1, <2>2, <2>3 DEF ClosedUnder, InPartitionOrder, SamePartition
  <2>5. ClosedUnder(Handed)'
    BY <1>2, <2>2, <2>3 DEF ClosedUnder
  <2>6. buffer \in Seq(Records) /\ e \in Records /\ InBatch(buffer) \subseteq delivered
    BY <2>1, <2>2, StreamOfRecords DEF PipelineBase, Base, TypeOK
  <2>7. pending' = Append(buffer, e)
    BY <2>1, <2>2 DEF pending
  <2>8. ASSUME NEW i \in DOMAIN Append(buffer, e), NEW j \in DOMAIN Append(buffer, e), i < j
        PROVE  /\ Append(buffer, e)[i] # Append(buffer, e)[j]
               /\ SamePartition(Append(buffer, e)[i], Append(buffer, e)[j])
                    => ~Before(Append(buffer, e)[j], Append(buffer, e)[i])
    <3>1. /\ i \in DOMAIN buffer /\ Append(buffer, e)[i] = buffer[i]
          /\ \/ j \in DOMAIN buffer /\ Append(buffer, e)[j] = buffer[j]
             \/ Append(buffer, e)[j] = e
      BY <2>6, <2>8, InAppendedOrder
    <3>2. buffer[i] \in delivered
      BY <2>6, <3>1 DEF InBatch
    <3>3. SamePartition(buffer[i], e) => ~Before(e, buffer[i])
      BY <1>2, <2>1, <2>3, <3>2 DEF ClosedUnder
    <3> QED BY <1>2, <2>2, <2>3, <2>8, <3>1, <3>2, <3>3
  <2> QED BY <2>4, <2>5, <2>7, <2>8
<1>5. CASE StartBatch \/ RunStatement \/ UNCHANGED pipelineVars
  <2>1. pending' = pending /\ Handed' = Handed /\ UNCHANGED vars
    BY <1>5, BatchPending
       DEF pending, Handed, InBatch, pipelineVars, warehouseVars, vars
  <2>2. log' = log /\ delivered' = delivered
    BY <2>1 DEF vars
  <2> QED BY <1>2, <2>1, <2>2 DEF ClosedUnder
<1>6. CASE FinishBatch
  <2>1. pending' = <<>> /\ Handed' = delivered /\ log' = log /\ delivered' = delivered
    BY <1>6, CommitPending DEF FinishBatch, vars
  <2> QED BY <1>2, <2>1 DEF ClosedUnder
<1> QED BY <1>3, <1>4, <1>5, <1>6 DEF PipelineNext

\* A pending record of a key comes after every one handed over.
LEMMA PendingIsNewer ==
  ASSUME PipelineBase, OrderKept, MergeIsEnough, delivery = "interleave",
         NEW e \in Handed, NEW f \in InBatch(pending), e.key = f.key
  PROVE  /\ e.lsn \in Nat /\ f.lsn \in Nat
         /\ ~f.tomb => f.lsn > e.lsn
         /\ f.tomb /\ ~e.tomb => f.lsn >= e.lsn
<1>1. /\ SourceTypeOK /\ LogOrdered /\ e \in Stream(log) /\ f \in Stream(log) /\ f \notin Handed
      /\ ClosedUnder(Handed) /\ e # f
  BY DEF PipelineBase, Base, TypeOK, LogInv, OrderKept, Handed
<1>2. ~Before(f, e)
  BY <1>1 DEF ClosedUnder, SamePartition
<1>3. /\ e.at \in DOMAIN log /\ e.lsn = log[e.at].lsn /\ e.lsn \in Nat
      /\ f.at \in DOMAIN log /\ f.lsn = log[f.at].lsn /\ f.lsn \in Nat
      /\ ~e.tomb => e = ChangeRecord(e.at, log[e.at])
      /\ ~f.tomb => f = ChangeRecord(f.at, log[f.at])
  BY <1>1, ChangeOfRecord, DeleteOfTombstone DEF MergeIsEnough
<1>4. e.at \in Nat /\ f.at \in Nat /\ ~(f.at < e.at)
  BY <1>1, <1>2, <1>3 DEF Before, SourceTypeOK
<1>5. f.lsn >= e.lsn
  BY <1>1, <1>3, <1>4 DEF LogOrdered
<1>6. ASSUME ~f.tomb PROVE f.lsn > e.lsn
  <2>1. f.at # e.at
    BY <1>1, <1>2, <1>3, <1>6 DEF Before
  <2>2. e.at < f.at
    BY <1>4, <2>1
  <2> QED BY <1>1, <1>3, <2>2 DEF LogOrdered, MergeIsEnough
<1> QED BY <1>3, <1>5, <1>6

\* What the arms share: the pipeline's invariant and the order of what is pending.
OrderInv == PipelineInv /\ OrderKept

LEMMA OrderInit == ArmsInit => OrderInv
<1> SUFFICES ASSUME ArmsInit PROVE OrderInv
  OBVIOUS
<1>1. PipelineInv /\ delivered = {} /\ pending = <<>> /\ Handed = {}
  BY PipelineInitInv
     DEF ArmsInit, PipelineInit, Init, ConsumerInit, WarehouseInit, PipelineInv, pending, Handed
<1> QED BY <1>1 DEF OrderInv, OrderKept, ClosedUnder

LEMMA OrderInvStep == MergeIsEnough /\ OrderInv /\ [ArmsNext]_armsVars => OrderInv'
BY ArmsStep, PipelineInvStep, OrderKeptStep DEF OrderInv, PipelineInv

-----------------------------------------------------------------------------
(* The guard and the soft delete.                                           *)

\* The committed batch is newer than the row, whatever row of whatever target
\* took its position from a change handed over.
Comes(row, H, r) ==
  row = Absent \/ \E e \in ChangesFor(r, H) : row.lsn = e.lsn /\ row.key = e.key

LEMMA BatchIsNewer ==
  ASSUME MergeIsEnough, OrderInv, FinishBatch, delivery = "interleave", NEW r \in Rows,
         NEW row, Comes(row, Handed, r), row # Absent, NEW e \in ChangesFor(r, InBatch(batch))
  PROVE  e.lsn > row.lsn
<1>1. PICK h \in ChangesFor(r, Handed) : row.lsn = h.lsn
  BY DEF Comes
<1>2. /\ InBatch(batch) = InBatch(pending) /\ PipelineBase /\ SourceTypeOK
      /\ Handed \subseteq Stream(log) /\ InBatch(pending) \subseteq Stream(log)
  BY CommitPending DEF OrderInv, PipelineInv, PipelineBase, Base, TypeOK, Handed
<1>3. h \in Handed /\ e \in InBatch(pending) /\ ~h.tomb /\ ~e.tomb /\ h.row = r /\ e.row = r
  BY <1>1, <1>2 DEF ChangesFor
<1>4. h.key = e.key
  BY <1>2, <1>3, ChangeOfRecord DEF MergeIsEnough
<1> QED BY <1>1, <1>2, <1>3, <1>4, PendingIsNewer DEF OrderInv

LEMMA TargetComes == PipelineInv => \A r \in Rows : Comes(db.target[r], Handed, r)
BY DEF PipelineInv, TableShows, Shows, Comes

\* Every staged change of the row is written, whatever the guard says.
Written(target, b, guard, r) ==
  \A e \in Reduce(b) : e.row = r => target[r] = Absent \/ Matched(e, target[r], guard)

\* One row of a target after the merge and after the tombstones.
LEMMA RowMerged ==
  ASSUME NEW target, NEW b, NEW n, NEW guard, NEW r \in Rows, Written(target, b, guard, r)
  PROVE  Merged(target, b, n, guard)[r] =
           IF \E e \in Reduce(b) : e.row = r
           THEN Stored(CHOOSE e \in Reduce(b) : e.row = r, n) ELSE target[r]
BY DEF Merged, MergeInto, Written

LEMMA RowApplied ==
  ASSUME NEW target, NEW b, NEW n, NEW guard, NEW onT, NEW r \in Rows
  PROVE  ApplyTo(target, b, n, guard, onT)[r] =
           IF /\ onT = "delete" /\ Merged(target, b, n, guard)[r] # Absent
              /\ Entombed(Merged(target, b, n, guard)[r], Tombstones(b))
           THEN Entomb(Merged(target, b, n, guard)[r], n) ELSE Merged(target, b, n, guard)[r]
BY DEF ApplyTo, EntombIn, Merged, MergeInto

LEMMA SameRowApplied ==
  ASSUME NEW target, NEW other, NEW b, NEW n, NEW guard, NEW rule, NEW onT, NEW r \in Rows,
         Written(target, b, guard, r), Written(other, b, rule, r), other[r] = target[r]
  PROVE  ApplyTo(other, b, n, rule, onT)[r] = ApplyTo(target, b, n, guard, onT)[r]
<1>1. Merged(other, b, n, rule)[r] = Merged(target, b, n, guard)[r]
  <2>1. Merged(target, b, n, guard)[r] =
          IF \E e \in Reduce(b) : e.row = r
          THEN Stored(CHOOSE e \in Reduce(b) : e.row = r, n) ELSE target[r]
    BY RowMerged
  <2>2. Merged(other, b, n, rule)[r] =
          IF \E e \in Reduce(b) : e.row = r
          THEN Stored(CHOOSE e \in Reduce(b) : e.row = r, n) ELSE other[r]
    BY RowMerged
  <2> QED BY <2>1, <2>2
<1> QED BY <1>1, RowApplied

LEMMA GoneRowApplied ==
  ASSUME NEW target, NEW other, NEW b, NEW n, NEW guard, NEW rule, NEW onT, NEW r \in Rows,
         Written(target, b, guard, r), Written(other, b, rule, r),
         other[r] = WithoutDeleted(target)[r]
  PROVE  WithoutDeleted(ApplyTo(other, b, n, rule, onT))[r]
           = WithoutDeleted(ApplyTo(target, b, n, guard, onT))[r]
<1> DEFINE m == Merged(target, b, n, guard)[r]
<1> DEFINE mh == Merged(other, b, n, rule)[r]
<1> DEFINE row == ApplyTo(target, b, n, guard, onT)[r]
<1> DEFINE rowh == ApplyTo(other, b, n, rule, onT)[r]
<1>1. other[r] = IF target[r] # Absent /\ target[r].deleted THEN Absent ELSE target[r]
  BY DEF WithoutDeleted
<1>2. mh = m \/ (m # Absent /\ m.deleted /\ mh = Absent)
  <2>1. m = IF \E e \in Reduce(b) : e.row = r
            THEN Stored(CHOOSE e \in Reduce(b) : e.row = r, n) ELSE target[r]
    BY RowMerged
  <2>2. mh = IF \E e \in Reduce(b) : e.row = r
             THEN Stored(CHOOSE e \in Reduce(b) : e.row = r, n) ELSE other[r]
    BY RowMerged
  <2> HIDE DEF m, mh
  <2> QED BY <1>1, <2>1, <2>2
<1>3. row = IF onT = "delete" /\ m # Absent /\ Entombed(m, Tombstones(b))
            THEN Entomb(m, n) ELSE m
  BY RowApplied
<1>4. rowh = IF onT = "delete" /\ mh # Absent /\ Entombed(mh, Tombstones(b))
             THEN Entomb(mh, n) ELSE mh
  BY RowApplied
<1>5. /\ WithoutDeleted(ApplyTo(target, b, n, guard, onT))[r]
           = IF row # Absent /\ row.deleted THEN Absent ELSE row
      /\ WithoutDeleted(ApplyTo(other, b, n, rule, onT))[r]
           = IF rowh # Absent /\ rowh.deleted THEN Absent ELSE rowh
  BY DEF WithoutDeleted
<1> HIDE DEF m, mh, row, rowh
<1>6. CASE mh = m
  BY <1>3, <1>4, <1>5, <1>6
<1>7. CASE m # Absent /\ m.deleted /\ mh = Absent
  <2>1. row = m /\ rowh = Absent
    BY <1>3, <1>4, <1>7 DEF Entombed
  <2> QED BY <1>5, <1>7, <2>1
<1> QED BY <1>2, <1>6, <1>7

\* The arms without a guard and without soft deletes, beside the one with both.
Needless ==
  delivery = "interleave" => open = db.target /\ hard = WithoutDeleted(db.target)

LEMMA NeedlessStep ==
  MergeIsEnough /\ OrderInv /\ EngineTypes /\ Needless /\ [ArmsNext]_armsVars => Needless'
<1> SUFFICES ASSUME MergeIsEnough, OrderInv, EngineTypes, Needless, [ArmsNext]_armsVars,
                    delivery' = "interleave"
             PROVE  open' = db'.target /\ hard' = WithoutDeleted(db'.target)
  BY DEF Needless
<1>1. delivery = "interleave"
  BY ArmsStep DEF PipelineNext, Commits, Poll, StartBatch, RunStatement, FinishBatch, pipelineVars
<1>2. open = db.target /\ hard = WithoutDeleted(db.target) /\ PipelineBase
  BY <1>1 DEF Needless, OrderInv, PipelineInv
<1>3. CASE UNCHANGED armVars /\ [Commits \/ Poll \/ StartBatch \/ RunStatement]_pipelineVars
  <2>1. db' = db
    BY <1>2, <1>3, BatchPending DEF Commits, Poll, pipelineVars, warehouseVars
  <2> QED BY <1>2, <1>3, <2>1 DEF armVars, WithoutDeleted
<1>4. CASE LoadBatch
  <2>1. FinishBatch /\ LoadOpen /\ LoadHard
    BY <1>4 DEF LoadBatch
  <2>2. /\ db'.target = ApplyTo(db.target, batch, number, Guard, OnTombstone)
        /\ db'.target \in Targets /\ db.target \in Targets
    BY <1>2, <2>1, CommitPending, ApplyTyped
  <2> DEFINE on == TRUE
  <2> DEFINE off == FALSE
  <2>3. /\ open' = ApplyTo(open, batch, number, off, OnTombstone)
        /\ hard' = WithoutDeleted(ApplyTo(hard, batch, number, on, OnTombstone))
        /\ \A e, held : Matched(e, held, off)
        /\ \A e, held : e.lsn > held.lsn => Matched(e, held, on) /\ Matched(e, held, Guard)
    BY <2>1 DEF LoadOpen, LoadHard, Matched
  <2> HIDE DEF on, off
  <2>4. ASSUME NEW r \in Rows, NEW e \in Reduce(batch), e.row = r
        PROVE  db.target[r] = Absent \/ e.lsn > db.target[r].lsn
    <3>1. e \in ChangesFor(r, InBatch(batch))
      BY <2>4, ReduceIsPart DEF ChangesFor
    <3> QED BY <1>1, <2>1, <3>1, BatchIsNewer, TargetComes DEF OrderInv
  <2>5. ASSUME NEW r \in Rows
        PROVE  /\ Written(db.target, batch, Guard, r) /\ Written(open, batch, off, r)
               /\ Written(hard, batch, on, r)
    <3>1. hard[r] = IF db.target[r] # Absent /\ db.target[r].deleted THEN Absent ELSE db.target[r]
      BY <1>2 DEF WithoutDeleted
    <3> QED BY <2>3, <2>4, <3>1 DEF Written
  <2>6. open' = db'.target
    <3>1. \A r \in Rows : open'[r] = db'.target[r]
      BY <1>2, <2>2, <2>3, <2>5, SameRowApplied
    <3>2. open' \in Targets
      <4>1. batch \in Seq(Records) /\ number \in Nat
        BY <1>2, <2>1, CommitPending
      <4> QED BY <2>3, <4>1, ApplyTyped DEF EngineTypes
    <3> QED BY <2>2, <3>1, <3>2 DEF Targets
  <2>7. hard' = WithoutDeleted(db'.target)
    <3>1. \A r \in Rows : hard'[r] = WithoutDeleted(db'.target)[r]
      BY <1>2, <2>2, <2>3, <2>5, GoneRowApplied
    <3> QED BY <2>3, <3>1 DEF WithoutDeleted
  <2> QED BY <2>6, <2>7
<1> QED BY <1>3, <1>4, ArmsCases

\* The arms of merge_probe without the guard and without the soft delete: where the
\* order of partitions is kept they end every batch with the very same rows.
THEOREM OrderAlone == MergeIsEnough => (ArmsSpec => []OrderNeedsNeither)
<1> SUFFICES ASSUME MergeIsEnough PROVE ArmsSpec => []OrderNeedsNeither
  OBVIOUS
<1>1. ArmsInit => OrderInv /\ EngineTypes /\ Needless
  <2> SUFFICES ASSUME ArmsInit PROVE OrderInv /\ EngineTypes /\ Needless
    OBVIOUS
  <2>1. EmptyTarget \in Targets /\ DOMAIN versions = {}
    BY DEF ArmsInit, EmptyTarget, Targets
  <2>2. EngineTypes
    BY <2>1 DEF ArmsInit, EngineTypes
  <2>3. db.target = EmptyTarget /\ WithoutDeleted(EmptyTarget) = EmptyTarget
    BY DEF ArmsInit, PipelineInit, WarehouseInit, WithoutDeleted, EmptyTarget
  <2> QED BY <2>2, <2>3, OrderInit DEF ArmsInit, Needless
<1>2. OrderInv /\ EngineTypes /\ Needless /\ [ArmsNext]_armsVars
        => OrderInv' /\ EngineTypes' /\ Needless'
  BY OrderInvStep, EngineTypesStep, NeedlessStep DEF OrderInv, PipelineInv
<1>3. Needless => OrderNeedsNeither
  BY DEF Needless, OrderNeedsNeither
<1> QED BY <1>1, <1>2, <1>3, PTL DEF ArmsSpec

-----------------------------------------------------------------------------
(* The hard delete, in any order.                                           *)

\* A row of the arm without soft deletes carries a change handed over that is no
\* delete, and once the last change of all is among them, that one.
HardShows(row, H, L, r) ==
  /\ row = Absent \/ /\ ~row.deleted
                     /\ \E e \in ChangesFor(r, H) :
                          row.lsn = e.lsn /\ row.val = e.val /\ row.key = e.key
  /\ \A c \in ChangesFor(r, H) :
       c.op # "d" /\ (\A f \in ChangesFor(r, L) : f.lsn <= c.lsn)
         => row # Absent /\ row.lsn = c.lsn

LEMMA HardBatch ==
  ASSUME ~MergeByRecordKey, NEW target \in Targets, NEW b \in Seq(Records), NEW n \in Nat,
         NEW guard, Guards(guard), NEW onT, NEW H, NEW L \in SUBSET Records,
         H \cup InBatch(b) \subseteq L, PositionsTellApart(L), TombstonesFramed(L),
         OneRowPerKey(L), NEW r \in Rows, HardShows(target[r], H, L, r)
  PROVE  HardShows(WithoutDeleted(ApplyTo(target, b, n, guard, onT))[r], H \cup InBatch(b), L, r)
<1> DEFINE G == H \cup InBatch(b)
<1> DEFINE m == Merged(target, b, n, guard)[r]
<1> DEFINE applied == ApplyTo(target, b, n, guard, onT)[r]
<1> DEFINE row == WithoutDeleted(ApplyTo(target, b, n, guard, onT))[r]
<1>1. /\ \A e \in L : e.lsn \in Nat
      /\ PositionsTellApart(InBatch(b))
      /\ ChangesFor(r, G) = ChangesFor(r, H) \cup ChangesFor(r, InBatch(b))
      /\ ChangesFor(r, G) \subseteq ChangesFor(r, L)
      /\ target[r] \in StoredRows \cup {Absent}
  BY DEF Records, PositionsTellApart, ChangesFor, Targets
<1>2. m \in StoredRows \cup {Absent}
  <2>1. Merged(target, b, n, guard) \in Targets
    BY ApplyTyped
  <2> QED BY <2>1 DEF Targets
<1>3. /\ applied = Absent <=> m = Absent
      /\ m # Absent => /\ applied.lsn = m.lsn /\ applied.val = m.val /\ applied.key = m.key
                       /\ applied.deleted => m.deleted \/ Reached(b, m)
  BY ReachedRow
<1>4. row = IF applied # Absent /\ applied.deleted THEN Absent ELSE applied
  <2>1. DOMAIN ApplyTo(target, b, n, guard, onT) = Rows
    BY DEF ApplyTo, EntombIn, MergeInto
  <2> QED BY <2>1 DEF WithoutDeleted
<1>5. m # Absent => \E e \in ChangesFor(r, G) :
                      /\ m.lsn = e.lsn /\ m.val = e.val /\ m.key = e.key
                      /\ m.deleted => e.op = "d"
  <2>1. CASE ChangesFor(r, InBatch(b)) = {}
    <3>1. m = target[r]
      BY <2>1, MergeKeeps
    <3> HIDE DEF m, G
    <3> QED BY <1>1, <3>1 DEF HardShows
  <2>2. CASE ChangesFor(r, InBatch(b)) # {}
    <3>1. PICK e \in ChangesFor(r, InBatch(b)) :
            m = IF target[r] = Absent \/ Matched(e, target[r], guard)
                THEN Stored(e, n) ELSE target[r]
      BY <1>1, <2>2, MergeTakesNewest
    <3> HIDE DEF m, G
    <3> QED BY <1>1, <3>1, StoredFields DEF HardShows
  <2> QED BY <2>1, <2>2
<1>6. ASSUME NEW c \in ChangesFor(r, G), c.op # "d", \A f \in ChangesFor(r, L) : f.lsn <= c.lsn
      PROVE  m # Absent /\ m.lsn = c.lsn /\ ~m.deleted
  <2>1. c \in ChangesFor(r, L) /\ c \in L /\ c.lsn \in Nat
    BY <1>1 DEF ChangesFor
  <2>2. \A f \in ChangesFor(r, G) : f.lsn = c.lsn => f = c
    BY <1>1, <2>1 DEF PositionsTellApart, ChangesFor
  <2>3. m # Absent /\ m.lsn = c.lsn
    <3>1. CASE c \in ChangesFor(r, H)
      <4>1. target[r] # Absent /\ target[r].lsn = c.lsn
        BY <1>6, <3>1 DEF HardShows
      <4>2. \A e \in ChangesFor(r, InBatch(b)) : e.lsn <= target[r].lsn
        BY <1>1, <1>6, <4>1
      <4>3. m = target[r]
        BY <1>1, <2>1, <4>1, <4>2, MergeKeepsNewest
      <4> QED BY <4>1, <4>3
    <3>2. CASE c \notin ChangesFor(r, H)
      <4>1. c \in ChangesFor(r, InBatch(b))
        BY <1>1, <3>2
      <4>2. PICK e \in ChangesFor(r, InBatch(b)) :
              /\ \A f \in ChangesFor(r, InBatch(b)) : f.lsn <= e.lsn
              /\ m = IF target[r] = Absent \/ Matched(e, target[r], guard)
                     THEN Stored(e, n) ELSE target[r]
        BY <1>1, <4>1, MergeTakesNewest
      <4>3. e \in ChangesFor(r, L) /\ e.lsn \in Nat /\ e \in ChangesFor(r, G)
        BY <1>1, <4>2 DEF ChangesFor
      <4>4. e.lsn = c.lsn
        <5>1. c.lsn <= e.lsn /\ e.lsn <= c.lsn
          BY <1>6, <4>1, <4>2, <4>3
        <5> QED BY <2>1, <4>3, <5>1
      <4>5. target[r] = Absent \/ Matched(e, target[r], guard)
        <5> SUFFICES ASSUME target[r] # Absent PROVE e.lsn > target[r].lsn
          BY DEF Guards
        <5>1. PICK h \in ChangesFor(r, H) : target[r].lsn = h.lsn
          BY DEF HardShows
        <5>2. h \in ChangesFor(r, G) /\ h \in ChangesFor(r, L) /\ h # c /\ h.lsn \in Nat
          BY <1>1, <3>2, <5>1 DEF ChangesFor
        <5>3. h.lsn <= c.lsn /\ h.lsn # c.lsn
          BY <1>6, <2>2, <5>2
        <5> QED BY <2>1, <4>4, <5>1, <5>2, <5>3
      <4>6. m = Stored(e, n)
        BY <4>2, <4>5
      <4>7. Stored(e, n) # Absent
        <5>1. e \in Records
          BY <4>3 DEF ChangesFor
        <5> QED BY <5>1, StoredTyped, MergeAssumption
      <4> HIDE DEF m
      <4> QED BY <4>4, <4>6, <4>7, StoredFields
    <3> QED BY <3>1, <3>2
  <2> HIDE DEF m
  <2>4. ~m.deleted
    BY <1>5, <1>6, <2>2, <2>3
  <2> QED BY <2>3, <2>4
<1>7. ASSUME NEW c \in ChangesFor(r, G), c.op # "d", \A f \in ChangesFor(r, L) : f.lsn <= c.lsn
      PROVE  ~Reached(b, m)
  <2> SUFFICES ASSUME Reached(b, m) PROVE FALSE
    OBVIOUS
  <2>1. PICK t \in InBatch(b) : t.tomb /\ t.key = m.key /\ m.lsn <= t.lsn
    BY DEF Reached
  <2>2. m # Absent /\ m.lsn = c.lsn
    BY <1>6, <1>7
  <2>3. PICK e \in ChangesFor(r, G) : m.lsn = e.lsn /\ m.key = e.key
    BY <1>5, <2>2
  <2> HIDE DEF m
  <2>4. t \in L /\ c \in ChangesFor(r, L) /\ c \in L /\ e \in L /\ ~e.tomb /\ e.row = r
        /\ ~c.tomb /\ c.row = r /\ c.lsn \in Nat
    BY <1>1, <2>1, <2>3 DEF ChangesFor
  <2>5. PICK d \in L : ~d.tomb /\ d.op = "d" /\ d.key = t.key /\ d.lsn = t.lsn
    BY <2>1, <2>4 DEF TombstonesFramed
  <2>6. d.row = r /\ d \in ChangesFor(r, L) /\ d.lsn \in Nat
    BY <1>1, <2>1, <2>3, <2>4, <2>5 DEF OneRowPerKey, ChangesFor
  <2>7. d.lsn <= c.lsn /\ c.lsn <= d.lsn
    BY <1>7, <2>1, <2>2, <2>5, <2>6
  <2>8. d.lsn = c.lsn
    BY <2>4, <2>6, <2>7
  <2>9. d = c
    BY <2>4, <2>5, <2>6, <2>8 DEF PositionsTellApart
  <2> QED BY <1>7, <2>5, <2>9
<1>8. row = Absent \/ /\ ~row.deleted
                      /\ \E e \in ChangesFor(r, G) :
                           row.lsn = e.lsn /\ row.val = e.val /\ row.key = e.key
  <2> HIDE DEF row, applied, m, G
  <2> QED BY <1>3, <1>4, <1>5
<1>9. ASSUME NEW c \in ChangesFor(r, G), c.op # "d", \A f \in ChangesFor(r, L) : f.lsn <= c.lsn
      PROVE  row # Absent /\ row.lsn = c.lsn
  <2>1. m # Absent /\ m.lsn = c.lsn /\ ~m.deleted /\ ~Reached(b, m)
    BY <1>6, <1>7, <1>9
  <2> HIDE DEF row, applied, m, G
  <2> QED BY <1>3, <1>4, <2>1
<1> HIDE DEF row, G
<1>10. HardShows(row, G, L, r)
  BY <1>8, <1>9 DEF HardShows
<1> QED BY <1>10 DEF row, G

AllFramed ==
  /\ PositionsTellApart(Stream(log)) /\ TombstonesFramed(Stream(log))
  /\ OneRowPerKey(Stream(log))

LEMMA StreamFramed ==
  ASSUME MergeIsEnough, SourceTypeOK, LogInv
  PROVE  AllFramed
<1>1. TombstonesFramed(Stream(log))
  <2> SUFFICES ASSUME NEW t \in Stream(log), t.tomb
               PROVE  \E d \in Stream(log) : ~d.tomb /\ d.op = "d" /\ d.key = t.key /\ d.lsn = t.lsn
    BY DEF TombstonesFramed
  <2> DEFINE d == ChangeRecord(t.at, log[t.at])
  <2>1. /\ t.at \in DOMAIN log /\ log[t.at].op = "d" /\ t.key = KeyOf[log[t.at].row]
        /\ t.lsn = log[t.at].lsn
    BY DeleteOfTombstone
  <2>2. d \in Stream(log) /\ ~d.tomb /\ d.op = "d" /\ d.key = t.key /\ d.lsn = t.lsn
    BY <2>1, StreamElements, RecordFields
  <2> QED BY <2>2
<1> QED BY <1>1, StreamPositions, StreamKeys DEF MergeIsEnough, AllFramed

HardInv == \A r \in Rows : HardShows(hard[r], Handed, Stream(log), r)

LEMMA HardInvStep ==
  MergeIsEnough /\ PipelineBase /\ EngineTypes /\ HardInv /\ [ArmsNext]_armsVars => HardInv'
<1> SUFFICES ASSUME MergeIsEnough, PipelineBase, EngineTypes, HardInv, [ArmsNext]_armsVars,
                    NEW r \in Rows
             PROVE  HardShows(hard[r], Handed, Stream(log), r)'
  BY DEF HardInv
<1>1. HardShows(hard[r], Handed, Stream(log), r)
  BY DEF HardInv
<1>2. CASE Commits /\ UNCHANGED armVars
  <2>1. delivered = {} /\ delivered' = {} /\ hard' = hard
    BY <1>2 DEF Commits, Produce, consumerVars, armVars
  <2>2. Handed = {} /\ Handed' = {}
    BY <2>1 DEF Handed
  <2> QED BY <1>1, <2>1, <2>2 DEF HardShows, ChangesFor
<1>3. CASE /\ UNCHANGED armVars
           /\ Poll \/ StartBatch \/ RunStatement \/ UNCHANGED pipelineVars
  <2>1. hard' = hard
    BY <1>3 DEF armVars
  <2>2. Handed' = Handed /\ log' = log
    <3>1. CASE Poll
      <4>1. PICK e \in Stream(log) : Deliver(e) /\ buffer' = Append(buffer, e)
        BY <3>1 DEF Poll
      <4>2. pc = "idle" /\ pc' = pc /\ log' = log
        BY <3>1 DEF Poll, warehouseVars, sourceVars
      <4> QED BY <4>1, <4>2, PollPending
    <3>2. CASE StartBatch \/ RunStatement
      BY <3>2, BatchPending DEF vars
    <3>3. CASE UNCHANGED pipelineVars
      BY <3>3 DEF pipelineVars, vars, warehouseVars, Handed, pending, InBatch
    <3> QED BY <1>3, <3>1, <3>2, <3>3
  <2> QED BY <1>1, <2>1, <2>2 DEF HardShows
<1>4. CASE LoadBatch
  <2>1. FinishBatch /\ LoadHard
    BY <1>4 DEF LoadBatch
  <2>2. /\ Handed' = Handed \cup InBatch(batch) /\ log' = log
        /\ batch \in Seq(Records) /\ number \in Nat /\ hard \in Targets
        /\ InBatch(batch) \subseteq delivered
    BY <2>1, CommitPending DEF FinishBatch, vars, PipelineBase, EngineTypes
  <2>3. /\ SourceTypeOK /\ LogInv /\ Stream(log) \in SUBSET Records
        /\ Handed \cup InBatch(batch) \subseteq Stream(log)
    BY <2>2, StreamOfRecords DEF PipelineBase, Base, TypeOK, Handed
  <2> DEFINE on == TRUE
  <2>4. hard' = WithoutDeleted(ApplyTo(hard, batch, number, on, OnTombstone)) /\ Guards(on)
    BY <2>1 DEF LoadHard, Guards, Matched
  <2> HIDE DEF on
  <2>5. AllFramed /\ ~MergeByRecordKey
    BY <2>3, StreamFramed DEF MergeIsEnough
  <2>6. HardShows(WithoutDeleted(ApplyTo(hard, batch, number, on, OnTombstone))[r],
                  Handed \cup InBatch(batch), Stream(log), r)
    BY <1>1, <2>2, <2>3, <2>4, <2>5, HardBatch DEF AllFramed
  <2> QED BY <2>2, <2>4, <2>6 DEF HardShows
<1> QED BY <1>2, <1>3, <1>4, ArmsCases

\* A row of the source is in the arm without soft deletes once all was delivered.
LEMMA HardKeepsTheLiving ==
  ASSUME MergeIsEnough, PipelineBase, HardInv, EngineTypes, Settled, Drained,
         NEW r \in Rows, table[r] # Absent
  PROVE  Live(hard)[r] = table[r]
<1>1. /\ SourceTypeOK /\ LogInv /\ Handed = Stream(log)
      /\ HardShows(hard[r], Handed, Stream(log), r)
  <2>1. Handed = delivered
    BY NothingInEmpty DEF Settled, pending, Handed
  <2> QED BY <2>1 DEF PipelineBase, Base, TypeOK, Drained, HardInv
<1>2. PICK i \in ChangesTo(r) : IsLast(i, ChangesTo(r)) /\ table[r] = log[i].val
  BY <1>1 DEF LogInv, TableIsLastChange
<1> DEFINE c == ChangeRecord(i, log[i])
<1>3. i \in DOMAIN log /\ log[i].row = r /\ log[i].op # "d" /\ log[i] \in Changes
  BY <1>1, <1>2 DEF ChangesTo, LogInv, DeletesAreEmpty, SourceTypeOK
<1>4. /\ c \in Stream(log) /\ ~c.tomb /\ c.op # "d" /\ c.lsn = log[i].lsn
      /\ c.val = table[r] /\ c.row = r
  BY <1>2, <1>3, StreamElements, RecordFields DEF ImageRow
<1>5. ASSUME NEW f \in ChangesFor(r, Stream(log)) PROVE f.lsn <= c.lsn
  <2>1. f \in Stream(log) /\ ~f.tomb /\ f.row = r
    BY DEF ChangesFor
  <2>2. f.at \in DOMAIN log /\ log[f.at].row = r /\ f.lsn = log[f.at].lsn
    BY <1>1, <2>1, ChangeOfRecord DEF MergeIsEnough
  <2>3. f.at <= i
    BY <1>2, <2>2 DEF ChangesTo, IsLast
  <2> QED BY <1>1, <1>3, <1>4, <2>2, <2>3 DEF LogInv, LogOrdered
<1> HIDE DEF c
<1>6. c \in ChangesFor(r, Handed)
  BY <1>1, <1>4 DEF ChangesFor
<1>7. hard[r] # Absent /\ hard[r].lsn = c.lsn /\ ~hard[r].deleted
  BY <1>1, <1>4, <1>5, <1>6 DEF HardShows
<1>8. PICK e \in ChangesFor(r, Handed) : hard[r].lsn = e.lsn /\ hard[r].val = e.val
  BY <1>1, <1>7 DEF HardShows
<1>9. e = c
  <2>1. PositionsTellApart(Stream(log))
    BY <1>1, StreamFramed DEF AllFramed
  <2> QED BY <1>1, <1>4, <1>7, <1>8, <2>1 DEF PositionsTellApart, ChangesFor
<1> QED BY <1>4, <1>7, <1>8, <1>9 DEF Live

\* What the soft delete is for (merge.py, "The delete is soft because the ordering
\* guard needs somewhere to live"): without it a finished run is wrong only about
\* rows it brought back, and only where the order was lost.
THEOREM HardDeletesOnlyResurrect == MergeIsEnough => (ArmsSpec => []HardDeleteOnlyResurrects)
<1> SUFFICES ASSUME MergeIsEnough PROVE ArmsSpec => []HardDeleteOnlyResurrects
  OBVIOUS
<1>1. ArmsSpec => []PipelineInv
  BY ArmsAreAPipeline, PipelineInvariance, PTL
<1>2. ArmsSpec => []WarehouseMatchesSource
  BY ArmsAreAPipeline, WarehouseIsTheSource, PTL
<1>3. ArmsSpec => []OrderNeedsNeither
  BY OrderAlone
<1>4. ArmsInit => HardInv /\ EngineTypes
  <2> SUFFICES ASSUME ArmsInit PROVE HardInv /\ EngineTypes
    OBVIOUS
  <2>1. EmptyTarget \in Targets /\ DOMAIN versions = {} /\ \A r \in Rows : hard[r] = Absent
    BY DEF ArmsInit, EmptyTarget, Targets
  <2>2. delivered = {} /\ Handed = {}
    BY DEF ArmsInit, PipelineInit, Init, ConsumerInit, Handed
  <2> QED BY <2>1, <2>2 DEF ArmsInit, EngineTypes, HardInv, HardShows, ChangesFor
<1>5. PipelineInv /\ HardInv /\ EngineTypes /\ [ArmsNext]_armsVars => HardInv' /\ EngineTypes'
  BY HardInvStep, EngineTypesStep DEF PipelineInv
<1>6. PipelineInv /\ WarehouseMatchesSource /\ OrderNeedsNeither /\ HardInv /\ EngineTypes
        => HardDeleteOnlyResurrects
  <2> SUFFICES ASSUME PipelineInv, WarehouseMatchesSource, OrderNeedsNeither, HardInv,
                      EngineTypes, Settled, Drained, NEW r \in Rows, Live(hard)[r] # table[r]
               PROVE  table[r] = Absent /\ delivery # "interleave"
    BY DEF HardDeleteOnlyResurrects
  <2>1. table[r] = Absent
    BY HardKeepsTheLiving DEF PipelineInv
  <2>2. ASSUME delivery = "interleave" PROVE FALSE
    <3>1. hard = WithoutDeleted(db.target) /\ Live(db.target) = table
      BY <2>2 DEF OrderNeedsNeither, WarehouseMatchesSource
    <3>2. Live(hard)[r] = Live(db.target)[r]
      BY <3>1 DEF Live, WithoutDeleted
    <3> QED BY <3>1, <3>2
  <2> QED BY <2>1, <2>2
<1> QED BY <1>1, <1>2, <1>3, <1>4, <1>5, <1>6, PTL DEF ArmsSpec

-----------------------------------------------------------------------------
(* A key with the position in it.                                           *)

ChangesIn(H) == {e \in H : ~e.tomb}

\* A tombstone among the records came at or after the change.
Covered(e, H) == \E t \in H : t.tomb /\ t.key = e.key /\ e.lsn <= t.lsn

VersionOf(row, e, H) ==
  /\ row \in StoredRows
  /\ row.val = e.val /\ row.key = e.key /\ row.lsn = e.lsn
  /\ row.deleted <=> e.op = "d" \/ Covered(e, H)

\* One version for each change handed over, none taken away.
OneVersionEach(target, H) ==
  /\ DOMAIN target = {VersionKey(e) : e \in ChangesIn(H)}
  /\ \A e \in ChangesIn(H) : VersionOf(target[VersionKey(e)], e, H)

\* Every change of the batch is staged, as no two are one version.
LEMMA AllVersionsStaged ==
  ASSUME NEW b \in Seq(Records), PositionsTellApart(InBatch(b)), ~MergeByRecordKey,
         \A e \in ChangesIn(InBatch(b)) : e.row \in Rows
  PROVE  ReduceVersioned(b) = ChangesIn(InBatch(b))
<1>1. ASSUME NEW i \in DOMAIN b, ~b[i].tomb PROVE i \in Addressable(b)
  <2>1. b[i] \in ChangesIn(InBatch(b))
    BY <1>1 DEF ChangesIn, InBatch
  <2>2. b[i].row # Absent
    BY <2>1, EventsAssumption DEF EventsAssumption
  <2> QED BY <1>1, <2>2 DEF Addressable, Slot
<1>2. ReduceVersioned(b) \subseteq ChangesIn(InBatch(b))
  BY DEF ReduceVersioned, Addressable, ChangesIn, InBatch
<1>3. ASSUME NEW e \in ChangesIn(InBatch(b)) PROVE e \in ReduceVersioned(b)
  <2> DEFINE J == {i \in DOMAIN b : b[i] = e}
  <2>1. J \in SUBSET Nat /\ J # {} /\ Len(b) \in Nat /\ \A k \in J : k <= Len(b)
    BY <1>3 DEF ChangesIn, InBatch
  <2>2. PICK p \in J : \A k \in J : k <= p
    BY <2>1, GreatestOf
  <2>3. p \in DOMAIN b /\ b[p] = e /\ ~e.tomb /\ p \in Addressable(b)
    BY <1>1, <1>3, <2>2 DEF ChangesIn
  <2>4. ASSUME NEW j \in Addressable(b), VersionKey(b[j]) = VersionKey(e)
        PROVE  ~Supersedes(b, j, p)
    <3>1. j \in DOMAIN b /\ ~b[j].tomb /\ b[j].row = e.row /\ b[j].lsn = e.lsn
      BY <2>4 DEF VersionKey, Addressable
    <3>2. b[j] = e
      BY <2>3, <3>1 DEF PositionsTellApart, InBatch
    <3>3. j <= p /\ j \in Nat /\ p \in Nat /\ e.lsn \in Nat
      <4>1. b[p] \in Records
        BY <2>3
      <4> QED BY <2>1, <2>2, <2>3, <3>1, <3>2, <4>1 DEF Records
    <3> QED BY <2>3, <3>2, <3>3 DEF Supersedes
  <2> QED BY <2>3, <2>4 DEF ReduceVersioned
<1> QED BY <1>2, <1>3

\* A batch adds the versions of its changes and marks those its tombstones reach.
LEMMA VersionsBatch ==
  ASSUME NEW target, NEW H \in SUBSET Records, NEW b \in Seq(Records), NEW n \in Nat,
         ~MergeByRecordKey, PositionsTellApart(H \cup InBatch(b)), H \cap InBatch(b) = {},
         \A e \in ChangesIn(InBatch(b)) : e.row \in Rows,
         \A e \in ChangesIn(InBatch(b)) : ~Covered(e, H),
         OneVersionEach(target, H)
  PROVE  OneVersionEach(EntombIn(MergeVersions(target, ReduceVersioned(b), n), Tombstones(b), n),
                        H \cup InBatch(b))
<1> DEFINE G == H \cup InBatch(b)
<1> DEFINE stage == ChangesIn(InBatch(b))
<1> DEFINE M == MergeVersions(target, stage, n)
<1> DEFINE E == EntombIn(M, Tombstones(b), n)
<1>1. ReduceVersioned(b) = stage
  <2>1. PositionsTellApart(InBatch(b))
    BY DEF PositionsTellApart
  <2> QED BY <2>1, AllVersionsStaged
<1>2. /\ InBatch(b) \subseteq Records /\ ChangesIn(G) = ChangesIn(H) \cup stage
      /\ \A e \in G : e.lsn \in Nat
  BY RecordsOfBatch DEF ChangesIn, Records
<1>3. \A e, f \in ChangesIn(G) : VersionKey(e) = VersionKey(f) => e = f
  BY DEF VersionKey, PositionsTellApart, ChangesIn
<1>4. DOMAIN M = DOMAIN target \cup {VersionKey(e) : e \in stage}
  BY DEF MergeVersions
<1>5. DOMAIN M = {VersionKey(e) : e \in ChangesIn(G)}
  BY <1>2, <1>4 DEF OneVersionEach
<1>6. ASSUME NEW e \in ChangesIn(G)
      PROVE  /\ e \in ChangesIn(H) => M[VersionKey(e)] = target[VersionKey(e)]
             /\ e \in stage => M[VersionKey(e)] = Stored(e, n)
  <2> DEFINE k == VersionKey(e)
  <2> DEFINE Old == /\ k \in DOMAIN target
                    /\ \A f \in stage : VersionKey(f) = k => ~Matched(f, target[k], TRUE)
  <2>1. k \in DOMAIN M
    BY <1>5
  <2>2. M[k] = IF Old THEN target[k] ELSE Stored(CHOOSE f \in stage : VersionKey(f) = k, n)
    BY <1>4, <2>1 DEF MergeVersions
  <2>3. ASSUME e \in ChangesIn(H) PROVE Old
    <3>1. k \in DOMAIN target
      BY <2>3 DEF OneVersionEach
    <3>2. ASSUME NEW f \in stage, VersionKey(f) = k PROVE FALSE
      <4>1. f = e
        BY <1>2, <1>3, <3>2
      <4> QED BY <2>3, <4>1 DEF ChangesIn
    <3> QED BY <3>1, <3>2
  <2>4. ASSUME e \in stage PROVE ~Old /\ (CHOOSE f \in stage : VersionKey(f) = k) = e
    <3>1. \A f \in stage : VersionKey(f) = k => f = e
      BY <1>2, <1>3
    <3>2. k \notin DOMAIN target
      <4> SUFFICES ASSUME k \in DOMAIN target PROVE FALSE
        OBVIOUS
      <4>1. PICK h \in ChangesIn(H) : VersionKey(h) = k
        BY DEF OneVersionEach
      <4>2. h = e
        BY <1>2, <1>3, <4>1
      <4> QED BY <2>4, <4>1, <4>2 DEF ChangesIn
    <3> QED BY <2>4, <3>1, <3>2
  <2> HIDE DEF k, Old
  <2> QED BY <2>2, <2>3, <2>4 DEF k
<1>7. DOMAIN E = DOMAIN M
  BY DEF EntombIn
<1>8. ASSUME NEW e \in ChangesIn(G) PROVE VersionOf(E[VersionKey(e)], e, G)
  <2> DEFINE k == VersionKey(e)
  <2> DEFINE m == M[k]
  <2>1. e \in G /\ e \in Records /\ e.lsn \in Nat
    BY <1>2 DEF ChangesIn
  <2>2. VersionOf(m, e, H)
    <3>1. CASE e \in ChangesIn(H)
      BY <1>6, <3>1 DEF OneVersionEach
    <3>2. CASE e \in stage
      <4>1. ~Covered(e, H) /\ m = Stored(e, n) /\ Stored(e, n) \in StoredRows
        BY <1>6, <2>1, <3>2, StoredTyped
      <4> HIDE DEF m
      <4> QED BY <4>1, StoredFields DEF VersionOf
    <3> QED BY <1>2, <3>1, <3>2
  <2>3. k \in DOMAIN M
    BY <1>5
  <2>4. E[k] = IF m # Absent /\ Entombed(m, Tombstones(b)) THEN Entomb(m, n) ELSE m
    BY <2>3 DEF EntombIn
  <2> HIDE DEF m, M, E, k
  <2>5. m \in StoredRows /\ m # Absent /\ m.lsn = e.lsn /\ m.lsn \in Nat /\ m.key = e.key
    BY <2>1, <2>2, MergeAssumption DEF VersionOf
  <2>6. Entombed(m, Tombstones(b)) <=> Covered(e, InBatch(b)) /\ ~m.deleted
    <3>1. Entombed(m, Tombstones(b)) <=> Reached(b, m) /\ ~m.deleted
      BY <2>5, EntombedWhenReached
    <3>2. Reached(b, m) <=> Covered(e, InBatch(b))
      BY <2>5 DEF Reached, Covered
    <3> QED BY <3>1, <3>2
  <2>7. Covered(e, G) <=> Covered(e, H) \/ Covered(e, InBatch(b))
    BY DEF Covered
  <2>8. /\ Entomb(m, n) \in StoredRows /\ Entomb(m, n).deleted
        /\ Entomb(m, n).val = m.val /\ Entomb(m, n).key = m.key /\ Entomb(m, n).lsn = m.lsn
    BY <2>5 DEF Entomb, StoredRows
  <2>9. CASE Entombed(m, Tombstones(b))
    <3>1. E[k] = Entomb(m, n) /\ Covered(e, G)
      BY <2>4, <2>5, <2>6, <2>7, <2>9
    <3> QED BY <2>2, <2>8, <3>1 DEF VersionOf, k
  <2>10. CASE ~Entombed(m, Tombstones(b))
    <3>1. E[k] = m /\ (Covered(e, InBatch(b)) => m.deleted)
      BY <2>4, <2>6, <2>10
    <3>2. m.deleted <=> e.op = "d" \/ Covered(e, H)
      BY <2>2 DEF VersionOf
    <3>3. m.deleted <=> e.op = "d" \/ Covered(e, G)
      BY <2>7, <3>1, <3>2
    <3> QED BY <2>2, <3>1, <3>3 DEF VersionOf, k
  <2> QED BY <2>9, <2>10
<1> HIDE DEF M, E, G
<1>9. OneVersionEach(E, G)
  BY <1>5, <1>7, <1>8 DEF OneVersionEach
<1> QED BY <1>1, <1>9 DEF E, M, G

VersionsInv == delivery = "interleave" => OneVersionEach(versions, Handed)

\* What a step that loads no batch leaves alone.
LEMMA WatchedKept ==
  ASSUME PipelineBase, [Commits \/ Poll \/ StartBatch \/ RunStatement]_pipelineVars
  PROVE  Handed' = Handed /\ db' = db /\ delivery' = delivery
<1>1. CASE Commits
  <2>1. delivered = {} /\ delivered' = {} /\ UNCHANGED <<warehouseVars, delivery>>
    BY <1>1 DEF Commits, Produce, consumerVars
  <2> QED BY <2>1 DEF Handed, warehouseVars
<1>2. CASE Poll
  <2>1. PICK e \in Stream(log) : Deliver(e) /\ buffer' = Append(buffer, e)
    BY <1>2 DEF Poll
  <2>2. pc = "idle" /\ pc' = pc /\ db' = db /\ delivery' = delivery
    BY <1>2 DEF Poll, warehouseVars
  <2> QED BY <2>1, <2>2, PollPending
<1>3. CASE StartBatch \/ RunStatement
  BY <1>3, BatchPending
<1>4. CASE UNCHANGED pipelineVars
  BY <1>4 DEF pipelineVars, vars, warehouseVars, Handed, pending, InBatch
<1> QED BY <1>1, <1>2, <1>3, <1>4

\* The records of the batch under way and of those before it.
LEMMA BatchRecords ==
  ASSUME MergeIsEnough, PipelineBase, FinishBatch
  PROVE  /\ Handed \in SUBSET Records /\ Handed \cap InBatch(batch) = {}
         /\ Handed \cup InBatch(batch) = delivered /\ delivered \subseteq Stream(log)
         /\ PositionsTellApart(Handed \cup InBatch(batch))
         /\ \A e \in delivered : ~e.tomb => e.row \in Rows /\ e.key = KeyOf[e.row]
         /\ InBatch(batch) = InBatch(pending) /\ ~MergeByRecordKey
<1>1. /\ SourceTypeOK /\ LogInv /\ delivered \subseteq Stream(log)
      /\ Stream(log) \subseteq Records /\ InBatch(batch) = InBatch(pending)
      /\ InBatch(pending) \subseteq delivered
  BY CommitPending, StreamOfRecords DEF PipelineBase, Base, TypeOK
<1>2. Handed \cup InBatch(batch) = delivered
  BY <1>1 DEF Handed
<1>3. PositionsTellApart(delivered)
  BY <1>1, StreamPositions DEF MergeIsEnough
<1>4. \A e \in delivered : ~e.tomb => e.row \in Rows /\ e.key = KeyOf[e.row]
  BY <1>1, ChangeOfRecord DEF MergeIsEnough
<1>5. Handed \in SUBSET Records /\ Handed \cap InBatch(batch) = {}
  BY <1>1 DEF Handed
<1> QED BY <1>1, <1>2, <1>3, <1>4, <1>5 DEF MergeIsEnough

LEMMA VersionsInvStep ==
  MergeIsEnough /\ OrderInv /\ VersionsInv /\ [ArmsNext]_armsVars => VersionsInv'
<1> SUFFICES ASSUME MergeIsEnough, OrderInv, VersionsInv, [ArmsNext]_armsVars,
                    delivery' = "interleave"
             PROVE  OneVersionEach(versions, Handed)'
  BY DEF VersionsInv
<1>1. PipelineBase
  BY DEF OrderInv, PipelineInv
<1>2. CASE UNCHANGED armVars /\ [Commits \/ Poll \/ StartBatch \/ RunStatement]_pipelineVars
  <2>1. Handed' = Handed /\ delivery' = delivery /\ versions' = versions
    BY <1>1, <1>2, WatchedKept DEF armVars
  <2> QED BY <2>1 DEF VersionsInv, OneVersionEach
<1>3. CASE LoadBatch
  <2>1. FinishBatch /\ LoadVersions /\ delivery = "interleave"
    BY <1>3 DEF LoadBatch, FinishBatch
  <2>2. /\ Handed' = Handed \cup InBatch(batch) /\ batch \in Seq(Records) /\ number \in Nat
    BY <1>1, <2>1, CommitPending
  <2>3. /\ Handed \in SUBSET Records /\ Handed \cap InBatch(batch) = {} /\ ~MergeByRecordKey
        /\ PositionsTellApart(Handed \cup InBatch(batch)) /\ InBatch(batch) = InBatch(pending)
        /\ \A e \in ChangesIn(InBatch(batch)) : e.row \in Rows
    BY <1>1, <2>1, BatchRecords DEF ChangesIn
  <2>4. \A e \in ChangesIn(InBatch(batch)) : ~Covered(e, Handed)
    <3> SUFFICES ASSUME NEW e \in ChangesIn(InBatch(batch)), NEW t \in Handed,
                        t.key = e.key, e.lsn <= t.lsn
                 PROVE  FALSE
      BY DEF Covered
    <3>1. e \in InBatch(pending) /\ ~e.tomb
      BY <2>3 DEF ChangesIn
    <3>2. e.lsn > t.lsn /\ e.lsn \in Nat /\ t.lsn \in Nat
      BY <1>1, <2>1, <3>1, PendingIsNewer DEF OrderInv
    <3> QED BY <3>2
  <2>5. OneVersionEach(versions, Handed)
    BY <2>1 DEF VersionsInv
  <2>6. versions' = EntombIn(MergeVersions(versions, ReduceVersioned(batch), number),
                             Tombstones(batch), number)
    BY <2>1 DEF LoadVersions
  <2>7. OneVersionEach(EntombIn(MergeVersions(versions, ReduceVersioned(batch), number),
                                Tombstones(batch), number),
                       Handed \cup InBatch(batch))
    BY <2>2, <2>3, <2>4, <2>5, VersionsBatch
  <2> QED BY <2>2, <2>6, <2>7 DEF OneVersionEach
<1> QED BY <1>2, <1>3, ArmsCases

\* The live versions of a row, once nothing is on its way.
LEMMA LiveVersions ==
  ASSUME MergeIsEnough, OrderInv, VersionsInv, Settled, delivery = "interleave", NEW r \in Rows
  PROVE  {<<k[2], versions[k].val>> :
            k \in {k \in DOMAIN versions : k[1] = r /\ ~versions[k].deleted}}
         = {<<log[i].lsn, log[i].val>> :
            i \in {i \in Applied(r) : log[i].op # "d" /\ SinceItsTombstone(r, i)}}
<1> DEFINE K == {k \in DOMAIN versions : k[1] = r /\ ~versions[k].deleted}
<1> DEFINE I == {i \in Applied(r) : log[i].op # "d" /\ SinceItsTombstone(r, i)}
<1>1. /\ TypeOK /\ SourceTypeOK /\ delivered \subseteq Stream(log) /\ Handed = delivered
      /\ OneVersionEach(versions, delivered)
  BY NothingInEmpty
     DEF OrderInv, PipelineInv, PipelineBase, Base, TypeOK, Settled, pending, Handed, VersionsInv
<1>2. ASSUME NEW e \in delivered, ~e.tomb, e.row = r
      PROVE  /\ VersionKey(e) \in DOMAIN versions
             /\ VersionKey(e)[1] = r /\ VersionKey(e)[2] = e.lsn
             /\ versions[VersionKey(e)].val = e.val
             /\ e.at \in Applied(r) /\ e = ChangeRecord(e.at, log[e.at])
             /\ log[e.at].lsn = e.lsn /\ log[e.at].val = e.val
             /\ ~versions[VersionKey(e)].deleted
                  <=> log[e.at].op # "d" /\ SinceItsTombstone(r, e.at)
  <2>1. e \in ChangesIn(delivered) /\ e \in ChangesFor(r, delivered)
    BY <1>2 DEF ChangesIn, ChangesFor
  <2>2. e.at \in Applied(r) /\ e = ChangeRecord(e.at, log[e.at]) /\ e.lsn = log[e.at].lsn
    BY <1>1, <2>1, AppliedRecords
  <2>3. /\ e.key = KeyOf[r] /\ e.val = log[e.at].val /\ e.op = log[e.at].op
        /\ e.lsn \in Nat
    BY <1>1, <1>2, ChangeOfRecord DEF MergeIsEnough
  <2>4. VersionKey(e) \in DOMAIN versions /\ VersionOf(versions[VersionKey(e)], e, delivered)
    BY <1>1, <2>1 DEF OneVersionEach
  <2>5. SinceItsTombstone(r, e.at) <=> ~Covered(e, delivered)
    <3>1. \A t \in delivered : t.lsn \in Nat
      <4>1. Stream(log) \subseteq Records
        BY <1>1, StreamOfRecords
      <4> QED BY <1>1, <4>1 DEF Records
    <3> QED BY <2>2, <2>3, <3>1 DEF SinceItsTombstone, Covered
  <2>6. VersionKey(e)[1] = r /\ VersionKey(e)[2] = e.lsn
    BY <1>2 DEF VersionKey
  <2>7. versions[VersionKey(e)].deleted <=> e.op = "d" \/ Covered(e, delivered)
    BY <2>4 DEF VersionOf
  <2>8. versions[VersionKey(e)].val = e.val
    BY <2>4 DEF VersionOf
  <2> HIDE DEF K, I
  <2> QED BY <2>2, <2>3, <2>4, <2>5, <2>6, <2>7, <2>8
<1>3. ASSUME NEW k \in K PROVE \E i \in I : <<k[2], versions[k].val>> = <<log[i].lsn, log[i].val>>
  <2>1. k \in DOMAIN versions /\ k[1] = r /\ ~versions[k].deleted
    OBVIOUS
  <2>2. PICK e \in ChangesIn(delivered) : k = VersionKey(e)
    BY <1>1, <2>1 DEF OneVersionEach
  <2>3. e \in delivered /\ ~e.tomb /\ e.row = r
    BY <2>1, <2>2 DEF ChangesIn, VersionKey
  <2>4. e.at \in I
    BY <1>2, <2>1, <2>2, <2>3
  <2>5. k[2] = log[e.at].lsn /\ versions[k].val = log[e.at].val
    BY <1>2, <2>2, <2>3
  <2> HIDE DEF I, K
  <2> QED BY <2>4, <2>5
<1>4. ASSUME NEW i \in I PROVE \E k \in K : <<k[2], versions[k].val>> = <<log[i].lsn, log[i].val>>
  <2>1. i \in Applied(r) /\ log[i].op # "d" /\ SinceItsTombstone(r, i)
    OBVIOUS
  <2> DEFINE e == ChangeRecord(i, log[i])
  <2>2. e \in ChangesFor(r, delivered) /\ e.at = i
    BY <1>1, <2>1, AppliedRecords, RecordFields
  <2> HIDE DEF e, I
  <2>3. e \in delivered /\ ~e.tomb /\ e.row = r
    BY <2>2 DEF ChangesFor
  <2>4. VersionKey(e) \in K
    BY <1>2, <2>1, <2>2, <2>3
  <2>5. VersionKey(e)[2] = log[i].lsn /\ versions[VersionKey(e)].val = log[i].val
    BY <1>2, <2>2, <2>3
  <2> HIDE DEF K
  <2> QED BY <2>4, <2>5
<1> HIDE DEF K, I
<1>5. {<<k[2], versions[k].val>> : k \in K} = {<<log[i].lsn, log[i].val>> : i \in I}
  BY <1>3, <1>4
<1> QED BY <1>5 DEF K, I

\* A merge key with the position in it makes of the target a history: the versions a
\* reader takes for live are the changes of the row since its last tombstone.
THEOREM VersionsAreHistory == MergeIsEnough => (ArmsSpec => []VersionedIsHistory)
<1> SUFFICES ASSUME MergeIsEnough PROVE ArmsSpec => []VersionedIsHistory
  OBVIOUS
<1>1. ArmsInit => OrderInv /\ VersionsInv
  <2> SUFFICES ASSUME ArmsInit PROVE OrderInv /\ VersionsInv
    OBVIOUS
  <2>1. DOMAIN versions = {} /\ Handed = {}
    BY DEF ArmsInit, PipelineInit, Init, ConsumerInit, Handed
  <2>2. VersionsInv
    BY <2>1 DEF VersionsInv, OneVersionEach, ChangesIn
  <2> QED BY <2>2, OrderInit
<1>2. OrderInv /\ VersionsInv /\ [ArmsNext]_armsVars => OrderInv' /\ VersionsInv'
  BY OrderInvStep, VersionsInvStep
<1>3. OrderInv /\ VersionsInv => VersionedIsHistory
  BY LiveVersions DEF VersionedIsHistory
<1> QED BY <1>1, <1>2, <1>3, PTL DEF ArmsSpec

-----------------------------------------------------------------------------
(* No reduction.                                                            *)

\* How many changes of a row a batch holds: none, one, or two and more.
LEMMA ChangesCounted ==
  ASSUME NEW b \in Seq(Records), NEW r
  PROVE  /\ Cardinality(ChangesOf(r, b)) = 1 => \E i : ChangesOf(r, b) = {i}
         /\ Cardinality(ChangesOf(r, b)) > 1 => \E i, j \in ChangesOf(r, b) : i # j
         /\ \/ ChangesOf(r, b) = {}
            \/ Cardinality(ChangesOf(r, b)) = 1 \/ Cardinality(ChangesOf(r, b)) > 1
         /\ ChangesOf(r, b) = {} => Cardinality(ChangesOf(r, b)) = 0
<1> DEFINE C == ChangesOf(r, b)
<1>1. IsFiniteSet(C)
  <2>1. C \in SUBSET (1..Len(b)) /\ 1 \in Int /\ Len(b) \in Int
    BY DEF ChangesOf, Addressable
  <2>2. IsFiniteSet(1..Len(b))
    BY <2>1, FS_Interval
  <2> HIDE DEF C
  <2> QED BY <2>1, <2>2, FS_Subset
<1> HIDE DEF C
<1>2. Cardinality(C) \in Nat /\ (Cardinality(C) = 0 <=> C = {})
  BY <1>1, FS_CardinalityType, FS_EmptySet
<1>3. ASSUME Cardinality(C) = 1 PROVE \E i : C = {i}
  BY <1>1, <1>3, FS_Singleton
<1>4. ASSUME Cardinality(C) > 1 PROVE \E i, j \in C : i # j
  <2>1. PICK i \in C : TRUE
    BY <1>2, <1>4
  <2>2. ASSUME C = {i} PROVE FALSE
    <3>1. Cardinality(C) = 1
      BY <2>2, FS_Singleton
    <3> QED BY <1>4, <3>1
  <2> QED BY <2>1, <2>2
<1>5. C = {} \/ Cardinality(C) = 1 \/ Cardinality(C) > 1
  BY <1>2
<1> QED BY <1>2, <1>3, <1>4, <1>5 DEF C

\* The places of a row's changes and the changes themselves.
LEMMA PlacesOfChanges ==
  ASSUME ~MergeByRecordKey, NEW b, NEW r \in Rows
  PROVE  /\ \A i \in ChangesOf(r, b) : i \in DOMAIN b /\ b[i] \in ChangesFor(r, InBatch(b))
         /\ \A e \in ChangesFor(r, InBatch(b)) : \E i \in ChangesOf(r, b) : e = b[i]
<1>1. r # Absent
  BY EventsAssumption DEF EventsAssumption
<1> QED BY <1>1 DEF ChangesOf, Addressable, Slot, ChangesFor, InBatch

\* What the guarded merge makes of a row in order: the newest change delivered, and
\* a tombstone that reaches it finds it deleted.
LEMMA MergedInOrder ==
  ASSUME MergeIsEnough, OrderInv, FinishBatch, delivery = "interleave", NEW r \in Rows
  PROVE  LET m == Merged(db.target, batch, number, Guard)[r]
         IN  /\ ChangesFor(r, InBatch(batch)) = {} => m = db.target[r]
             /\ ChangesFor(r, InBatch(batch)) # {} =>
                  \E e \in ChangesFor(r, InBatch(batch)) :
                    /\ \A f \in ChangesFor(r, InBatch(batch)) : f.lsn <= e.lsn
                    /\ m = Stored(e, number)
             /\ m # Absent /\ Reached(batch, m) => m.deleted
             /\ m \in StoredRows \cup {Absent}
<1> DEFINE m == Merged(db.target, batch, number, Guard)[r]
<1> DEFINE B == ChangesFor(r, InBatch(batch))
<1>1. /\ PipelineBase /\ batch \in Seq(Records) /\ number \in Nat /\ db.target \in Targets
      /\ Guards(Guard) /\ Shows(db.target[r], Handed, r) /\ SourceTypeOK /\ ClosedUnder(delivered)
  BY CommitPending, GuardsWhenOn
     DEF OrderInv, OrderKept, PipelineInv, PipelineBase, Base, TypeOK, TableShows, MergeIsEnough
<1>2. /\ Handed \in SUBSET Records /\ Handed \cup InBatch(batch) = delivered
      /\ delivered \subseteq Stream(log) /\ PositionsTellApart(delivered)
      /\ \A e \in delivered : ~e.tomb => e.row \in Rows /\ e.key = KeyOf[e.row]
      /\ InBatch(batch) = InBatch(pending) /\ ~MergeByRecordKey
      /\ InBatch(batch) \subseteq Records
  BY <1>1, BatchRecords, RecordsOfBatch
<1>3. ChangesFor(r, delivered) = ChangesFor(r, Handed) \cup B
  BY <1>2 DEF ChangesFor
<1>4. B = {} => m = db.target[r]
  BY MergeKeeps
<1>5. ASSUME B # {}
      PROVE  \E e \in B : (\A f \in B : f.lsn <= e.lsn) /\ m = Stored(e, number)
  <2>1. PositionsTellApart(InBatch(batch))
    BY <1>2 DEF PositionsTellApart
  <2>2. PICK e \in B :
          /\ \A f \in B : f.lsn <= e.lsn
          /\ m = IF db.target[r] = Absent \/ Matched(e, db.target[r], Guard)
                 THEN Stored(e, number) ELSE db.target[r]
    BY <1>1, <1>2, <1>5, <2>1, MergeTakesNewest
  <2>3. db.target[r] = Absent \/ Matched(e, db.target[r], Guard)
    BY <1>1, <2>2, BatchIsNewer, TargetComes DEF OrderInv, Guards
  <2> QED BY <2>2, <2>3
<1>6. m \in StoredRows \cup {Absent}
  <2>1. Merged(db.target, batch, number, Guard) \in Targets
    BY <1>1, ApplyTyped
  <2> QED BY <2>1 DEF Targets
<1> HIDE DEF m
<1>7. ASSUME m # Absent
      PROVE  \E e \in ChangesFor(r, delivered) :
               /\ \A f \in ChangesFor(r, delivered) : f.lsn <= e.lsn
               /\ m.lsn = e.lsn /\ m.key = e.key /\ (e.op = "d" => m.deleted)
  <2>1. CASE B = {}
    <3>1. ChangesFor(r, delivered) = ChangesFor(r, Handed) /\ m = db.target[r]
      BY <1>3, <1>4, <2>1
    <3> QED BY <1>1, <1>7, <3>1 DEF Shows
  <2>2. CASE B # {}
    <3>1. PICK e \in B : (\A f \in B : f.lsn <= e.lsn) /\ m = Stored(e, number)
      BY <1>5, <2>2
    <3>2. ASSUME NEW f \in ChangesFor(r, Handed) PROVE f.lsn <= e.lsn
      <4>1. f \in Handed /\ ~f.tomb /\ f.row = r /\ e \in InBatch(pending) /\ ~e.tomb /\ e.row = r
            /\ e \in delivered /\ f \in delivered
        BY <1>2, <3>1 DEF ChangesFor, Handed
      <4>2. f.key = e.key
        BY <1>2, <4>1
      <4>3. e.lsn > f.lsn /\ e.lsn \in Nat /\ f.lsn \in Nat
        BY <1>1, <4>1, <4>2, PendingIsNewer DEF OrderInv
      <4> QED BY <4>3
    <3> QED BY <1>3, <3>1, <3>2, StoredFields
  <2> QED BY <2>1, <2>2
<1>8. ASSUME m # Absent, Reached(batch, m) PROVE m.deleted
  <2>1. PICK e \in ChangesFor(r, delivered) :
          /\ \A f \in ChangesFor(r, delivered) : f.lsn <= e.lsn
          /\ m.lsn = e.lsn /\ m.key = e.key /\ (e.op = "d" => m.deleted)
    BY <1>7, <1>8
  <2>2. PICK t \in InBatch(batch) : t.tomb /\ t.key = e.key /\ e.lsn <= t.lsn
    BY <1>8, <2>1 DEF Reached
  <2>3. /\ e \in delivered /\ ~e.tomb /\ e.row = r /\ e.key = KeyOf[r]
        /\ t \in delivered /\ t \in Stream(log) /\ e \in Stream(log)
    BY <1>2, <2>1, <2>2 DEF ChangesFor
  <2> DEFINE d == ChangeRecord(t.at, log[t.at])
  <2>4. /\ t.at \in DOMAIN log /\ log[t.at].op = "d" /\ t.key = KeyOf[log[t.at].row]
        /\ t.lsn = log[t.at].lsn
    BY <1>1, <2>2, <2>3, DeleteOfTombstone
  <2>5. /\ d \in Stream(log) /\ ~d.tomb /\ d.at = t.at /\ d.key = t.key /\ d.op = "d"
        /\ d.lsn = t.lsn
    BY <2>4, StreamElements, RecordFields
  <2> HIDE DEF d
  <2>6. d \in delivered
    BY <1>1, <2>2, <2>3, <2>5 DEF ClosedUnder, SamePartition, Before
  <2>7. d.row = r
    BY <1>2, <2>2, <2>3, <2>5, <2>6 DEF MergeIsEnough, OneSlotPerKey, SlotOf
  <2>8. d.lsn <= e.lsn /\ e.lsn <= d.lsn /\ d.lsn \in Nat /\ e.lsn \in Nat
    <3>1. d \in ChangesFor(r, delivered) /\ d \in Records /\ e \in Records
      BY <1>2, <2>3, <2>5, <2>6, <2>7 DEF ChangesFor
    <3> QED BY <2>1, <2>2, <2>5, <3>1 DEF Records
  <2>9. d = e
    BY <1>2, <2>3, <2>5, <2>6, <2>7, <2>8 DEF PositionsTellApart
  <2> QED BY <2>1, <2>5, <2>9
<1> QED BY <1>4, <1>5, <1>6, <1>8 DEF m

\* Of one row, the arm without the reduction and the warehouse.
BehindOrEqual(row, held, twice) ==
  IF twice THEN row # Absent /\ held # Absent /\ row.lsn < held.lsn ELSE row = held

UnreducedInv ==
  delivery = "interleave" /\ ~refused =>
    \A r \in Rows : /\ Comes(unreduced[r], Handed, r)
                    /\ BehindOrEqual(unreduced[r], db.target[r], r \in doubled)

\* Of several changes of a row the engine takes the first, which is the oldest.
LEMMA UnreducedMerged ==
  ASSUME MergeIsEnough, OrderInv, FinishBatch, delivery = "interleave", NEW r \in Rows,
         NEW target, Comes(target[r], Handed, r)
  PROVE  LET u == MergeUnreduced(target, batch, number)[r]
         IN  /\ ChangesOf(r, batch) = {} => u = target[r]
             /\ ChangesOf(r, batch) # {} =>
                  \E i \in ChangesOf(r, batch) :
                    /\ \A j \in ChangesOf(r, batch) : i <= j
                    /\ u = Stored(batch[i], number)
<1> DEFINE C == ChangesOf(r, batch)
<1> DEFINE taken == {i \in C : target[r] = Absent \/ Matched(batch[i], target[r], TRUE)}
<1>1. MergeUnreduced(target, batch, number)[r] =
        IF taken = {} THEN target[r]
        ELSE Stored(batch[CHOOSE i \in taken : \A j \in taken : i <= j], number)
  BY DEF MergeUnreduced
<1>2. batch \in Seq(Records) /\ PipelineBase /\ ~MergeByRecordKey
  BY CommitPending DEF OrderInv, PipelineInv, MergeIsEnough
<1>3. taken = C
  <2> SUFFICES ASSUME NEW i \in C, target[r] # Absent PROVE batch[i].lsn > target[r].lsn
    BY DEF Matched
  <2>1. batch[i] \in ChangesFor(r, InBatch(batch))
    BY <1>2, PlacesOfChanges
  <2> QED BY <2>1, BatchIsNewer
<1>4. C \in SUBSET DOMAIN batch
  BY DEF ChangesOf, Addressable
<1> DEFINE first == CHOOSE i \in C : \A j \in C : i <= j
<1>5. C # {} => first \in C /\ \A j \in C : first <= j
  <2> HIDE DEF C
  <2> QED BY <1>2, <1>4, FirstPlace
<1>6. MergeUnreduced(target, batch, number)[r] =
        IF C = {} THEN target[r] ELSE Stored(batch[first], number)
  BY <1>1, <1>3
<1> HIDE DEF first, C
<1> QED BY <1>5, <1>6 DEF C

\* In one batch the first change of a row is older than the others.
LEMMA FirstIsOldest ==
  ASSUME MergeIsEnough, OrderInv, FinishBatch, delivery = "interleave", NEW r \in Rows,
         NEW i \in ChangesOf(r, batch), NEW j \in ChangesOf(r, batch), i < j
  PROVE  batch[i].lsn < batch[j].lsn /\ batch[i].lsn \in Nat /\ batch[j].lsn \in Nat
<1>1. /\ PipelineBase /\ SourceTypeOK /\ LogOrdered /\ ~MergeByRecordKey /\ NarrowRows = {}
      /\ ~Ties
  BY DEF OrderInv, PipelineInv, PipelineBase, Base, TypeOK, LogInv, MergeIsEnough
<1>2. pending = batch /\ batch \in Seq(Records)
  BY <1>1, CommitPending DEF FinishBatch, RecordAndCommit, pending
<1>3. /\ i \in DOMAIN batch /\ batch[i] \in ChangesFor(r, InBatch(batch))
      /\ j \in DOMAIN batch /\ batch[j] \in ChangesFor(r, InBatch(batch))
  BY <1>1, PlacesOfChanges
<1> DEFINE e == batch[i]
<1> DEFINE f == batch[j]
<1>4. e \in Stream(log) /\ f \in Stream(log) /\ ~e.tomb /\ ~f.tomb /\ e.row = r /\ f.row = r
  BY <1>1, <1>2, <1>3 DEF ChangesFor, PipelineBase, Base, TypeOK
<1>5. e # f /\ (SamePartition(e, f) => ~Before(f, e))
  BY <1>2, <1>3 DEF OrderInv, OrderKept
<1> HIDE DEF e, f
<1>6. /\ e.at \in DOMAIN log /\ e = ChangeRecord(e.at, log[e.at]) /\ e.lsn = log[e.at].lsn
      /\ f.at \in DOMAIN log /\ f = ChangeRecord(f.at, log[f.at]) /\ f.lsn = log[f.at].lsn
      /\ e.key = f.key /\ e.lsn \in Nat /\ f.lsn \in Nat
  BY <1>1, <1>4, ChangeOfRecord
<1>7. e.at # f.at /\ ~(f.at < e.at) /\ e.at \in Nat /\ f.at \in Nat
  BY <1>1, <1>5, <1>6 DEF SamePartition, Before, SourceTypeOK
<1>8. e.at < f.at
  BY <1>7
<1>9. e.lsn < f.lsn
  BY <1>1, <1>6, <1>8 DEF LogOrdered
<1> QED BY <1>6, <1>9 DEF e, f

\* A committed batch, row by row.
LEMMA UnreducedBatch ==
  ASSUME MergeIsEnough, OrderInv, FinishBatch, delivery = "interleave", NEW r \in Rows,
         EngineTypes, Comes(unreduced[r], Handed, r),
         BehindOrEqual(unreduced[r], db.target[r], r \in doubled)
  PROVE  LET row == EntombIn(MergeUnreduced(unreduced, batch, number),
                             Tombstones(batch), number)[r]
             held == db'.target[r]
             n == Cardinality(ChangesOf(r, batch))
         IN  /\ Comes(row, delivered, r)
             /\ BehindOrEqual(row, held, n > 1 \/ (n # 1 /\ r \in doubled))
<1> DEFINE C == ChangesOf(r, batch)
<1> DEFINE B == ChangesFor(r, InBatch(batch))
<1> DEFINE n == Cardinality(C)
<1> DEFINE u == MergeUnreduced(unreduced, batch, number)[r]
<1> DEFINE row == EntombIn(MergeUnreduced(unreduced, batch, number), Tombstones(batch), number)[r]
<1> DEFINE m == Merged(db.target, batch, number, Guard)[r]
<1> DEFINE held == db'.target[r]
<1>1. /\ PipelineBase /\ batch \in Seq(Records) /\ number \in Nat /\ ~MergeByRecordKey
      /\ db.target \in Targets
      /\ db'.target = ApplyTo(db.target, batch, number, Guard, OnTombstone)
  BY CommitPending DEF OrderInv, PipelineInv, MergeIsEnough
<1>2. Handed \subseteq delivered /\ InBatch(batch) \subseteq delivered
  BY <1>1, BatchRecords
<1>3. /\ B = {} => m = db.target[r]
      /\ B # {} => \E e \in B : (\A f \in B : f.lsn <= e.lsn) /\ m = Stored(e, number)
      /\ m # Absent /\ Reached(batch, m) => m.deleted
      /\ m \in StoredRows \cup {Absent}
  BY MergedInOrder
<1>4. /\ C = {} => u = unreduced[r]
      /\ C # {} => \E i \in C : (\A j \in C : i <= j) /\ u = Stored(batch[i], number)
  BY UnreducedMerged
<1>5. /\ \A i \in C : i \in DOMAIN batch /\ batch[i] \in B
      /\ \A e \in B : \E i \in C : e = batch[i]
  BY <1>1, PlacesOfChanges
<1>6. /\ n = 1 => \E i : C = {i}
      /\ n > 1 => \E i, j \in C : i # j
      /\ C = {} \/ n = 1 \/ n > 1
      /\ C = {} => n = 0
  BY <1>1, ChangesCounted
<1>7. /\ u \in StoredRows \cup {Absent}
      /\ row = IF u # Absent /\ Entombed(u, Tombstones(batch)) THEN Entomb(u, number) ELSE u
  <2>1. MergeUnreduced(unreduced, batch, number) \in Targets
    BY <1>1, MergeUnreducedTyped DEF EngineTypes
  <2> QED BY <2>1 DEF Targets, EntombIn
<1>8. /\ held \in StoredRows \cup {Absent}
      /\ held = IF OnTombstone = "delete" /\ m # Absent /\ Reached(batch, m) /\ ~m.deleted
                THEN Entomb(m, number) ELSE m
  <2>1. db'.target \in Targets
    BY <1>1, ApplyTyped
  <2>2. m \in StoredRows \/ m = Absent
    BY <1>3
  <2> QED BY <1>1, <2>1, <2>2, TombstonesReach DEF Targets
<1>9. held = m
  BY <1>3, <1>8
<1> HIDE DEF C, B, n, u, row, m, held
<1>10. u # Absent => u.lsn \in Nat
  BY <1>7 DEF StoredRows
<1>11. u # Absent => row # Absent /\ row.lsn = u.lsn /\ row.key = u.key
  <2> SUFFICES ASSUME u # Absent PROVE row # Absent /\ row.lsn = u.lsn /\ row.key = u.key
    OBVIOUS
  <2>1. u \in StoredRows
    BY <1>7
  <2>2. /\ Entomb(u, number) \in StoredRows
        /\ Entomb(u, number).lsn = u.lsn /\ Entomb(u, number).key = u.key
    BY <1>1, <2>1 DEF Entomb, StoredRows
  <2> QED BY <1>7, <2>2, MergeAssumption
<1>12. u = Absent => row = Absent
  BY <1>7
<1>13. u = m => row = held
  <2> SUFFICES ASSUME u = m, m # Absent PROVE ~Entombed(m, Tombstones(batch))
    BY <1>7, <1>9
  <2>1. m.lsn \in Nat
    BY <1>10
  <2> QED BY <1>1, <1>3, <2>1, EntombedWhenReached
<1>14. Comes(row, delivered, r)
  <2>1. CASE C = {}
    <3>1. u = unreduced[r] /\ ChangesFor(r, Handed) \subseteq ChangesFor(r, delivered)
      BY <1>2, <1>4, <2>1 DEF ChangesFor
    <3> QED BY <1>11, <1>12, <3>1 DEF Comes
  <2>2. CASE C # {}
    <3>1. PICK i \in C : u = Stored(batch[i], number)
      BY <1>4, <2>2
    <3>2. batch[i] \in ChangesFor(r, delivered)
      BY <1>2, <1>5, <3>1 DEF ChangesFor, B
    <3>3. u = Absent \/ (row.lsn = batch[i].lsn /\ row.key = batch[i].key)
      BY <1>11, <3>1, StoredFields
    <3> QED BY <1>12, <3>2, <3>3 DEF Comes
  <2> QED BY <2>1, <2>2
<1>15. BehindOrEqual(row, held, n > 1 \/ (n # 1 /\ r \in doubled))
  <2>1. CASE C = {}
    <3>1. n = 0 /\ u = unreduced[r] /\ m = db.target[r]
      <4>1. B = {}
        BY <1>5, <2>1
      <4> QED BY <1>3, <1>4, <1>6, <2>1, <4>1
    <3>2. CASE r \in doubled
      <4>1. u # Absent /\ m # Absent /\ u.lsn < m.lsn
        BY <3>1, <3>2 DEF BehindOrEqual
      <4> QED BY <1>9, <1>11, <3>1, <3>2, <4>1 DEF BehindOrEqual
    <3>3. CASE r \notin doubled
      <4>1. u = m
        BY <3>1, <3>3 DEF BehindOrEqual
      <4> QED BY <1>13, <3>1, <3>3, <4>1 DEF BehindOrEqual
    <3> QED BY <3>2, <3>3
  <2>2. CASE n = 1
    <3>1. PICK i : C = {i}
      BY <1>6, <2>2
    <3>2. u = Stored(batch[i], number) /\ batch[i] \in B
      BY <1>4, <1>5, <3>1
    <3>3. m = Stored(batch[i], number)
      BY <1>3, <1>5, <3>1, <3>2
    <3> QED BY <1>13, <2>2, <3>2, <3>3 DEF BehindOrEqual
  <2>3. CASE n > 1
    <3>1. PICK i \in C, j \in C : i # j
      BY <1>6, <2>3
    <3>2. PICK p \in C : (\A q \in C : p <= q) /\ u = Stored(batch[p], number)
      BY <1>4, <3>1
    <3>3. PICK q \in C : q # p
      BY <3>1
    <3>4. p < q
      <4>1. p \in Nat /\ q \in Nat /\ p <= q
        BY <1>1, <1>5, <3>2
      <4> QED BY <3>3, <4>1
    <3>5. batch[p].lsn < batch[q].lsn /\ batch[p].lsn \in Nat /\ batch[q].lsn \in Nat
      BY <3>4, FirstIsOldest DEF C
    <3>6. PICK e \in B : (\A f \in B : f.lsn <= e.lsn) /\ m = Stored(e, number)
      BY <1>3, <1>5, <3>1
    <3>7. batch[q].lsn <= e.lsn /\ e.lsn \in Nat
      <4>1. e \in Records
        BY <1>1, <3>6, RecordsOfBatch DEF B, ChangesFor
      <4> QED BY <1>5, <3>6, <4>1 DEF Records
    <3>8. /\ u # Absent /\ u.lsn = batch[p].lsn /\ m # Absent /\ m.lsn = e.lsn
      <4>1. batch[p] \in Records /\ e \in Records
        BY <1>1, <1>5, <3>6, RecordsOfBatch DEF B, ChangesFor
      <4>2. Stored(batch[p], number) # Absent /\ Stored(e, number) # Absent
        BY <1>1, <4>1, StoredTyped, MergeAssumption
      <4> QED BY <3>2, <3>6, <4>2, StoredFields
    <3>9. u.lsn < m.lsn
      BY <3>5, <3>7, <3>8
    <3> QED BY <1>9, <1>11, <2>3, <3>8, <3>9 DEF BehindOrEqual
  <2> QED BY <1>6, <2>1, <2>2, <2>3
<1> QED BY <1>14, <1>15 DEF row, held, n, C

LEMMA UnreducedInvStep ==
  MergeIsEnough /\ OrderInv /\ EngineTypes /\ UnreducedInv /\ [ArmsNext]_armsVars => UnreducedInv'
<1> SUFFICES ASSUME MergeIsEnough, OrderInv, EngineTypes, UnreducedInv, [ArmsNext]_armsVars,
                    delivery' = "interleave", ~refused', NEW r \in Rows
             PROVE  /\ Comes(unreduced'[r], Handed', r)
                    /\ BehindOrEqual(unreduced'[r], db'.target[r], r \in doubled')
  BY DEF UnreducedInv, Comes, ChangesFor
<1>1. PipelineBase
  BY DEF OrderInv, PipelineInv
<1>2. CASE UNCHANGED armVars /\ [Commits \/ Poll \/ StartBatch \/ RunStatement]_pipelineVars
  <2>1. /\ Handed' = Handed /\ db' = db /\ delivery' = delivery
        /\ unreduced' = unreduced /\ doubled' = doubled /\ refused' = refused
    BY <1>1, <1>2, WatchedKept DEF armVars
  <2> QED BY <2>1 DEF UnreducedInv
<1>3. CASE LoadBatch
  <2>1. FinishBatch /\ LoadUnreduced /\ delivery = "interleave" /\ Handed' = delivered
    BY <1>1, <1>3, CommitPending DEF LoadBatch, FinishBatch
  <2> DEFINE n == Cardinality(ChangesOf(r, batch))
  <2>2. /\ ~refused
        /\ unreduced' = EntombIn(MergeUnreduced(unreduced, batch, number),
                                 Tombstones(batch), number)
        /\ r \in doubled' <=> n > 1 \/ (n # 1 /\ r \in doubled)
    BY <2>1 DEF LoadUnreduced
  <2>3. /\ Comes(unreduced[r], Handed, r)
        /\ BehindOrEqual(unreduced[r], db.target[r], r \in doubled)
    BY <2>1, <2>2 DEF UnreducedInv
  <2>4. /\ Comes(unreduced'[r], delivered, r)
        /\ BehindOrEqual(unreduced'[r], db'.target[r], n > 1 \/ (n # 1 /\ r \in doubled))
    BY <2>1, <2>2, <2>3, UnreducedBatch
  <2> QED BY <2>1, <2>2, <2>4 DEF BehindOrEqual
<1> QED BY <1>2, <1>3, ArmsCases

\* What the reduction is worth (merge.py, "The reduction is not an optimisation"):
\* without it, and unless the engine refuses, the table is older on exactly the rows
\* whose last batch changed them more than once, and the same on all others.
THEOREM UnreducedIsBehind == MergeIsEnough => (ArmsSpec => []UnreducedIsSilentlyBehind)
<1> SUFFICES ASSUME MergeIsEnough PROVE ArmsSpec => []UnreducedIsSilentlyBehind
  OBVIOUS
<1>1. ArmsInit => OrderInv /\ EngineTypes /\ UnreducedInv
  <2> SUFFICES ASSUME ArmsInit PROVE OrderInv /\ EngineTypes /\ UnreducedInv
    OBVIOUS
  <2>1. EmptyTarget \in Targets /\ DOMAIN versions = {} /\ \A r \in Rows : EmptyTarget[r] = Absent
    BY DEF ArmsInit, EmptyTarget, Targets
  <2>2. EngineTypes
    BY <2>1 DEF ArmsInit, EngineTypes
  <2>3. db.target = EmptyTarget /\ unreduced = EmptyTarget /\ doubled = {}
    BY DEF ArmsInit, PipelineInit, WarehouseInit
  <2>4. UnreducedInv
    BY <2>1, <2>3 DEF UnreducedInv, Comes, BehindOrEqual
  <2> QED BY <2>2, <2>4, OrderInit
<1>2. OrderInv /\ EngineTypes /\ UnreducedInv /\ [ArmsNext]_armsVars
        => OrderInv' /\ EngineTypes' /\ UnreducedInv'
  BY OrderInvStep, EngineTypesStep, UnreducedInvStep DEF OrderInv, PipelineInv
<1>3. UnreducedInv => UnreducedIsSilentlyBehind
  BY DEF UnreducedInv, BehindOrEqual, UnreducedIsSilentlyBehind
<1> QED BY <1>1, <1>2, <1>3, PTL DEF ArmsSpec

=============================================================================
