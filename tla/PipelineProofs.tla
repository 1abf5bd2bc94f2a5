---------------------------- MODULE PipelineProofs ----------------------------
(***************************************************************************)
(* The in-memory consumer, and the warehouse beside it: for every set of   *)
(* rows, every key function, every number of partitions, every size of     *)
(* batch, either delivery order and every length of log.                   *)
(*                                                                         *)
(* The argument for the consumer: deliveries are closed under "earlier in  *)
(* the same partition", positions follow the order of the log, and so the  *)
(* last change applied to a slot is the newest one delivered for it.       *)
(*                                                                         *)
(* The argument for the two: the consumer's invariant says which change is *)
(* the newest delivered for a row; Shows says the table is at the newest   *)
(* of those committed; after a commit the two are the same change, which   *)
(* leaves the tombstones to be compared (HiddenForAReason).                *)
(***************************************************************************)
EXTENDS Pipeline, WarehouseProofs

-----------------------------------------------------------------------------
(* The consumer: the hypotheses a deployment has to meet.                   *)

\* Either the broker's order within partitions, or the guard over positions no
\* two changes share.
OrderIsEnough == Order = "interleave" \/ (Guard /\ ~Ties)

\* Either tombstones are framing only, or a record key names one row.
KeyIsEnough == OnTombstone = "ignore" \/ OneSlotPerKey

\* No two rows of the source share a row of the target.
SlotsNameRows == \A r, q \in Rows : SlotOf(r) = SlotOf(q) => r = q

-----------------------------------------------------------------------------
(* The consumer: the inductive invariant.                                   *)

PartitionClosed ==
  Order = "interleave" =>
    \A e \in delivered, f \in Stream(log) :
      SamePartition(e, f) /\ Before(f, e) => f \in delivered

IndexFinite == \A k \in Keys : IsFiniteSet(underKey[k])

\* What holds whatever the order, the guard and the keys are.
Base == TypeOK /\ IndexFinite /\ LogInv /\ PartitionClosed /\ IndexExact

\* A slot remembers the position of the newest change applied to it: the half of
\* LatestWins that no tombstone can disturb.
SlotMarked(s) ==
  \/ Applied(s) = {} /\ watermark[s] = 0
  \/ \E i \in Applied(s) : IsLast(i, Applied(s)) /\ watermark[s] = log[i].lsn

MarkIsLast == \A s \in Slots : SlotMarked(s)

\* What a deployment with enough order keeps, however wide its keys are.
Marked == Base /\ MarkIsLast

Inv == Marked /\ LatestWins

-----------------------------------------------------------------------------
(* Records and slots.                                                       *)

\* Slots and record keys of a typed change.
LEMMA SlotFacts ==
  ASSUME NEW i, NEW c \in Changes
  PROVE  /\ KeyOf[c.row] \in Keys
         /\ Slot(ChangeRecord(i, c)) # Absent =>
              /\ Slot(ChangeRecord(i, c)) = SlotOf(c.row)
              /\ Slot(ChangeRecord(i, c)) \in Slots
              /\ KeyOfSlot(Slot(ChangeRecord(i, c))) = KeyOf[c.row]
         /\ c.op # "d" => Slot(ChangeRecord(i, c)) # Absent
         /\ NarrowRows = {} => Slot(ChangeRecord(i, c)) # Absent
         /\ SlotOf(c.row) \in Slots
         /\ KeyOfSlot(SlotOf(c.row)) = KeyOf[c.row]
<1>1. c.row \in Rows /\ KeyOf[c.row] \in Keys /\ Absent \notin Rows /\ Absent \notin Keys
  BY EventsAssumption DEF EventsAssumption, Changes
<1>2. CASE MergeByRecordKey
  BY <1>1, <1>2, RecordFields DEF Slot, SlotOf, Slots, KeyOfSlot
<1>3. CASE ~MergeByRecordKey
  BY <1>1, <1>3, RecordFields DEF Slot, SlotOf, Slots, KeyOfSlot, ImageRow
<1> QED BY <1>2, <1>3

LEMMA AbsentIsNoSlot == Absent \notin Slots
BY EventsAssumption DEF EventsAssumption, Slots

-----------------------------------------------------------------------------
(* A commit of the source.                                                  *)

\* The initial state satisfies the invariant.
LEMMA InitInv == Init => Inv
<1> SUFFICES ASSUME Init PROVE Inv
  OBVIOUS
<1> USE DEF Init, SourceInit, ConsumerInit
<1>1. Stream(log) = {}
  BY DEF Stream
<1>2. TypeOK
  BY <1>1, EventsAssumption DEF EventsAssumption, TypeOK, SourceTypeOK, Changes
<1>3. IndexFinite
  BY FS_EmptySet DEF IndexFinite
<1>4. LogInv
  BY SourceInitInv
<1>5. PartitionClosed
  BY DEF PartitionClosed
<1>6. IndexExact
  BY DEF IndexExact
<1>7. LatestWins /\ MarkIsLast
  BY DEF LatestWins, MarkIsLast, SlotMarked, Applied
<1> QED BY <1>2, <1>3, <1>4, <1>5, <1>6, <1>7 DEF Inv, Marked, Base

LEMMA ProduceBase == Base /\ Produce => Base'
<1> SUFFICES ASSUME Base, Produce PROVE Base'
  OBVIOUS
<1>1. /\ TypeOK /\ SourceTypeOK /\ LogInv /\ SourceNext
      /\ delivered' = delivered /\ rows' = rows /\ underKey' = underKey
      /\ watermark' = watermark /\ counters' = counters
  BY DEF Base, TypeOK, Produce, consumerVars
<1>2. LogInv' /\ SourceTypeOK'
  BY <1>1, LogGrows
<1>3. /\ Stream(log) \subseteq Stream(log)'
      /\ \A f \in Stream(log)' \ Stream(log) : f.at = Len(log) + 1
      /\ \A f \in Stream(log) : f.at \in 1..Len(log)
      /\ Len(log) \in Nat
  BY <1>1, StreamGrows
<1>4. delivered \subseteq Stream(log)
  BY <1>1 DEF TypeOK
<1>5. TypeOK'
  BY <1>1, <1>2, <1>3 DEF TypeOK
<1>6. IndexFinite'
  BY <1>1 DEF Base, IndexFinite
<1>7. PartitionClosed'
  <2> SUFFICES ASSUME Order = "interleave", NEW e \in delivered, NEW f \in Stream(log)',
                      SamePartition(e, f), Before(f, e)
               PROVE  f \in delivered
    BY <1>1 DEF PartitionClosed
  <2>1. f \in Stream(log)
    BY <1>3, <1>4 DEF Before
  <2> QED BY <2>1 DEF Base, PartitionClosed
<1>8. IndexExact'
  BY <1>1 DEF Base, IndexExact
<1> QED BY <1>2, <1>5, <1>6, <1>7, <1>8 DEF Base

\* A commit tells the slots nothing until it is delivered.
LEMMA ProduceApplies ==
  ASSUME TypeOK, LogInv, Produce
  PROVE  /\ \A s : Applied(s)' = Applied(s)
         /\ \A s : \A i \in Applied(s) : log'[i] = log[i]
         /\ \A s, i : TombstonedAfter(s, i) => TombstonedAfter(s, i)'
<1>1. SourceTypeOK /\ SourceNext /\ delivered' = delivered
  BY DEF TypeOK, Produce, consumerVars
<1>2. /\ DOMAIN log \subseteq DOMAIN log'
      /\ \A i \in DOMAIN log : log'[i] = log[i]
      /\ DOMAIN log' = 1..(Len(log) + 1) /\ DOMAIN log = 1..Len(log)
  BY <1>1, LogGrows
<1>3. \A f \in delivered : f.at \in DOMAIN log
  BY <1>1, <1>2, StreamGrows DEF TypeOK
<1>4. \A i \in DOMAIN log' : ChangeRecord(i, log'[i]) \in delivered => i \in DOMAIN log
  BY <1>3, RecordFields
<1>5. ASSUME NEW s, NEW i, TombstonedAfter(s, i) PROVE TombstonedAfter(s, i)'
  <2>1. PICK e \in delivered : e.tomb /\ e.at > i /\ SlotOf(log[e.at].row) = s
    BY <1>5 DEF TombstonedAfter
  <2>2. log'[e.at] = log[e.at]
    BY <1>2, <1>3
  <2> QED BY <1>1, <1>5, <2>1, <2>2 DEF TombstonedAfter
<1>6. \A s : Applied(s)' = Applied(s)
  BY <1>1, <1>2, <1>4 DEF Applied
<1> QED BY <1>2, <1>5, <1>6 DEF Applied

LEMMA ProduceMarks == Base /\ MarkIsLast /\ Produce => MarkIsLast'
<1> SUFFICES ASSUME Base, MarkIsLast, Produce, NEW s \in Slots PROVE SlotMarked(s)'
  BY DEF MarkIsLast
<1>1. /\ Applied(s)' = Applied(s) /\ watermark' = watermark
      /\ \A i \in Applied(s) : log'[i] = log[i]
  BY ProduceApplies DEF Base, Produce, consumerVars
<1> QED BY <1>1 DEF MarkIsLast, SlotMarked, IsLast

-----------------------------------------------------------------------------
(* A delivery to the consumer.                                              *)

\* What a change record on its way to a slot tells about that slot.
LEMMA AddressedSlot ==
  ASSUME TypeOK, NEW i \in DOMAIN log, Slot(ChangeRecord(i, log[i])) # Absent
  PROVE  LET e == ChangeRecord(i, log[i]) IN
         /\ Slot(e) = SlotOf(log[i].row) /\ Slot(e) \in Slots
         /\ e.key \in Keys /\ KeyOfSlot(Slot(e)) = e.key
         /\ e.lsn \in Nat /\ e.lsn > 0
<1>1. log[i] \in Changes
  BY DEF TypeOK, SourceTypeOK
<1>2. log[i].lsn \in Nat \ {0}
  BY <1>1 DEF Changes
<1> QED BY <1>1, <1>2, SlotFacts, RecordFields

\* The broker's order within a partition: no change of a slot overtakes another.
LEMMA InOrderPerSlot ==
  ASSUME Base, Order = "interleave",
         NEW i \in DOMAIN log, Deliverable(ChangeRecord(i, log[i])),
         Slot(ChangeRecord(i, log[i])) # Absent,
         NEW j \in Applied(Slot(ChangeRecord(i, log[i])))
  PROVE  j < i
<1> DEFINE e == ChangeRecord(i, log[i])
<1> DEFINE f == ChangeRecord(j, log[j])
<1>1. TypeOK /\ PartitionClosed
  BY DEF Base
<1>2. j \in DOMAIN log /\ f \in delivered /\ Slot(f) = Slot(e)
  BY DEF Applied
<1>3. e.key = f.key
  BY <1>1, <1>2, AddressedSlot
<1>4. e \notin delivered /\ e \in Stream(log)
  BY StreamElements DEF Deliverable
<1>5. e.at = i /\ f.at = j /\ i \in Nat /\ j \in Nat
  BY <1>1, <1>2, RecordFields DEF TypeOK, SourceTypeOK
<1>6. j # i
  BY <1>2, <1>4
<1>7. ~(j > i)
  BY <1>1, <1>2, <1>3, <1>4, <1>5 DEF PartitionClosed, SamePartition, Before
<1> QED BY <1>5, <1>6, <1>7

\* A change dropped as stale has a newer one of its slot in front of it.
LEMMA StaleIsOlder ==
  ASSUME Marked, NEW i \in DOMAIN log, Slot(ChangeRecord(i, log[i])) # Absent,
         Stale(ChangeRecord(i, log[i]))
  PROVE  \E m \in Applied(Slot(ChangeRecord(i, log[i]))) :
           /\ IsLast(m, Applied(Slot(ChangeRecord(i, log[i])))) /\ m > i
<1> DEFINE e == ChangeRecord(i, log[i])
<1> DEFINE s == Slot(e)
<1>1. TypeOK /\ LogOrdered /\ MarkIsLast
  BY DEF Marked, Base, LogInv
<1>2. s \in Slots /\ e.lsn \in Nat /\ e.lsn > 0
  BY <1>1, AddressedSlot
<1>3. watermark[s] > e.lsn
  BY <1>1, <1>2 DEF Stale, TypeOK
<1>4. watermark[s] # 0
  BY <1>2, <1>3
<1>5. PICK m \in Applied(s) : IsLast(m, Applied(s)) /\ watermark[s] = log[m].lsn
  BY <1>1, <1>2, <1>4 DEF MarkIsLast, SlotMarked
<1>6. m \in DOMAIN log /\ m \in Nat /\ i \in Nat
  BY <1>1 DEF Applied, TypeOK, SourceTypeOK
<1>7. log[m].lsn > log[i].lsn /\ log[m].lsn \in Nat /\ log[i].lsn \in Nat
  <2>1. log[m] \in Changes /\ log[i] \in Changes
    BY <1>1, <1>6 DEF TypeOK, SourceTypeOK
  <2> QED BY <2>1, <1>3, <1>5, RecordFields DEF Changes
<1>8. ~(m <= i)
  BY <1>1, <1>6, <1>7 DEF LogOrdered
<1> QED BY <1>5, <1>6, <1>8

\* A change that passes the comparison is the newest of its slot delivered.
LEMMA CurrentIsNewest ==
  ASSUME Marked, OrderIsEnough, NEW i \in DOMAIN log, Deliverable(ChangeRecord(i, log[i])),
         Slot(ChangeRecord(i, log[i])) # Absent, ~Stale(ChangeRecord(i, log[i])),
         NEW j \in Applied(Slot(ChangeRecord(i, log[i])))
  PROVE  j < i
<1>1. CASE Order = "interleave"
  BY <1>1, InOrderPerSlot DEF Marked
<1>2. CASE Guard /\ ~Ties
  <2> DEFINE e == ChangeRecord(i, log[i])
  <2> DEFINE s == Slot(e)
  <2>1. TypeOK /\ LogOrdered /\ MarkIsLast
    BY DEF Marked, Base, LogInv
  <2>2. s \in Slots /\ e.lsn \in Nat /\ e.lsn = log[i].lsn
    BY <2>1, AddressedSlot, RecordFields
  <2>3. watermark[s] <= e.lsn
    BY <1>2, <2>1, <2>2 DEF Stale, TypeOK
  <2>4. PICK m \in Applied(s) : IsLast(m, Applied(s)) /\ watermark[s] = log[m].lsn
    BY <2>1, <2>2 DEF MarkIsLast, SlotMarked
  <2>5. /\ m \in DOMAIN log /\ ChangeRecord(m, log[m]) \in delivered
        /\ j \in DOMAIN log /\ m \in Nat /\ i \in Nat /\ j \in Nat
    BY <2>1 DEF Applied, TypeOK, SourceTypeOK
  <2>6. m # i
    BY <2>5 DEF Deliverable
  <2>7. log[m].lsn <= log[i].lsn /\ log[m].lsn \in Nat /\ log[i].lsn \in Nat
    <3>1. log[m] \in Changes /\ log[i] \in Changes
      BY <2>1, <2>5 DEF TypeOK, SourceTypeOK
    <3> QED BY <3>1, <2>2, <2>3, <2>4 DEF Changes
  <2>8. ~(i < m)
    BY <1>2, <2>1, <2>5, <2>7 DEF LogOrdered
  <2> QED BY <2>4, <2>5, <2>6, <2>8 DEF IsLast
<1> QED BY <1>1, <1>2 DEF OrderIsEnough

\* LatestWins at one slot.
SlotLatest(s) ==
  \/ Applied(s) = {} /\ watermark[s] = 0 /\ rows[s] = Absent
  \/ \E i \in Applied(s) :
       /\ IsLast(i, Applied(s))
       /\ watermark[s] = log[i].lsn
       /\ \/ rows[s] = log[i].val
          \/ rows[s] = Absent /\ TombstonedAfter(s, i)

LEMMA LatestWinsBySlot == LatestWins <=> \A s \in Slots : SlotLatest(s)
BY DEF LatestWins, SlotLatest

LEMMA ProduceLatest == Base /\ LatestWins /\ Produce => LatestWins'
<1> SUFFICES ASSUME Base, LatestWins, Produce, NEW s \in Slots PROVE SlotLatest(s)'
  BY DEF LatestWins, SlotLatest
<1>1. /\ Applied(s)' = Applied(s) /\ watermark' = watermark /\ rows' = rows
      /\ \A i \in Applied(s) : log'[i] = log[i]
      /\ \A i : TombstonedAfter(s, i) => TombstonedAfter(s, i)'
  BY ProduceApplies DEF Base, Produce, consumerVars
<1>2. SlotLatest(s)
  BY LatestWinsBySlot
<1> QED BY <1>1, <1>2 DEF SlotLatest, IsLast

\* A delivery that leaves a slot alone leaves it latest.
LEMMA SlotUntouched ==
  ASSUME NEW s \in Slots, SlotLatest(s), log' = log, delivered \subseteq delivered',
         Applied(s)' = Applied(s), watermark'[s] = watermark[s], rows'[s] = rows[s]
  PROVE  SlotLatest(s)'
<1>1. \A i : TombstonedAfter(s, i) => TombstonedAfter(s, i)'
  BY DEF TombstonedAfter
<1> QED BY <1>1 DEF SlotLatest, IsLast

\* What one delivered record adds to the changes of each slot.
LEMMA AppliedGrows ==
  ASSUME TypeOK, log' = log, NEW e \in Stream(log), delivered' = delivered \cup {e}
  PROVE  /\ e.tomb => \A s \in Slots : Applied(s)' = Applied(s)
         /\ ~e.tomb => \A s \in Slots :
              Applied(s)' = IF Slot(e) = s THEN Applied(s) \cup {e.at} ELSE Applied(s)
<1>1. PICK i \in DOMAIN log : \/ e = ChangeRecord(i, log[i])
                              \/ e = TombstoneRecord(i, log[i])
  BY StreamElements
<1>2. e.at = i
  BY <1>1, RecordFields
<1>3. \A j \in DOMAIN log : ChangeRecord(j, log[j]) = e <=> ~e.tomb /\ j = i
  BY <1>1, RecordFields
<1> QED BY <1>2, <1>3 DEF Applied

\* The typing and the index follow every branch of apply_events.
LEMMA ConsumeTypes ==
  ASSUME Base, NEW e \in Stream(log), Deliver(e), UNCHANGED sourceVars
  PROVE  /\ TypeOK' /\ IndexFinite' /\ LogInv' /\ PartitionClosed'
         /\ Stream(log)' = Stream(log)
<1> USE DEF Base
<1>0. log' = log /\ table' = table /\ delivered' = delivered \cup {e}
  BY DEF Deliver, sourceVars
<1>1. Stream(log)' = Stream(log)
  BY <1>0 DEF Stream, Envelope
<1>2. LogInv' /\ SourceTypeOK'
  BY <1>0 DEF LogInv, LogOrdered, DeletesAreEmpty, TableIsLastChange, ChangesTo, IsLast,
              TypeOK, SourceTypeOK
<1>3. PartitionClosed'
  BY <1>0, <1>1 DEF PartitionClosed, Deliver, Deliverable, InPartitionOrder
<1>4. PICK i \in DOMAIN log : \/ e = ChangeRecord(i, log[i])
                              \/ log[i].op = "d" /\ e = TombstoneRecord(i, log[i])
  BY StreamElements
<1>5. log[i] \in Changes
  BY DEF TypeOK, SourceTypeOK
<1>6. /\ e.key \in Keys /\ e.val \in Values \cup {Absent} /\ e.lsn \in Nat
      /\ ~e.tomb /\ Slot(e) # Absent => Slot(e) \in Slots
  <2>1. KeyOf[log[i].row] \in Keys /\ e.key = KeyOf[log[i].row] /\ e.lsn = log[i].lsn
    BY <1>4, <1>5, SlotFacts, RecordFields
  <2>2. e.val \in Values \cup {Absent}
    BY <1>4, <1>5 DEF ChangeRecord, TombstoneRecord, Changes
  <2>3. log[i].lsn \in Nat
    BY <1>5 DEF Changes
  <2>4. ~e.tomb => e = ChangeRecord(i, log[i])
    BY <1>4, RecordFields
  <2> QED BY <2>1, <2>2, <2>3, <2>4, <1>5, SlotFacts
<1>7. /\ rows' \in [Slots -> Values \cup {Absent}] /\ underKey' \in [Keys -> SUBSET Slots]
      /\ watermark' \in [Slots -> Nat] /\ counters' \in [CounterNames -> Nat]
      /\ IndexFinite'
  <2> USE <1>6 DEF TypeOK
  <2>0. OneIf(TRUE) \in Nat /\ OneIf(FALSE) \in Nat /\ \A b \in BOOLEAN : OneIf(b) \in Nat
    BY DEF OneIf
  <2>1. CASE IgnoreTombstone(e)
    BY <2>1 DEF IgnoreTombstone, IndexFinite
  <2>2. CASE ApplyTombstone(e)
    <3> DEFINE held == underKey[e.key]
    <3> DEFINE kept == {s \in held : Guard /\ watermark[s] > e.lsn}
    <3> DEFINE gone == {s \in held \ kept : rows[s] # Absent}
    <3>1. IsFiniteSet(held) /\ kept \subseteq held /\ gone \subseteq held
      BY DEF IndexFinite
    <3>2. IsFiniteSet(kept) /\ IsFiniteSet(gone)
      BY <3>1, FS_Subset
    <3>3. Cardinality(kept) \in Nat /\ Cardinality(gone) \in Nat
      BY <3>2, FS_CardinalityType
    <3>4. kept \subseteq Slots
      BY <3>1
    <3>5. IndexFinite'
      BY <2>2, <3>2 DEF ApplyTombstone, IndexFinite
    <3>6. rows' \in [Slots -> Values \cup {Absent}]
      BY <2>2 DEF ApplyTombstone
    <3>7. underKey' \in [Keys -> SUBSET Slots] /\ watermark' \in [Slots -> Nat]
      BY <2>2, <3>4 DEF ApplyTombstone
    <3>8. counters' = [counters EXCEPT
             !["rows_kept_from_a_stale_tombstone"] = @ + Cardinality(kept),
             !["rows_removed_by_tombstones"] = @ + Cardinality(gone)]
      BY <2>2 DEF ApplyTombstone
    <3>9. counters' \in [CounterNames -> Nat]
      <4>1. \A p, q \in Nat :
              [counters EXCEPT !["rows_kept_from_a_stale_tombstone"] = @ + p,
                               !["rows_removed_by_tombstones"] = @ + q]
                \in [CounterNames -> Nat]
        BY DEF CounterNames
      <4> QED BY <3>3, <3>8, <4>1
    <3> QED BY <3>5, <3>6, <3>7, <3>9
  <2>3. CASE NoMergeKey(e)
    BY <2>3 DEF NoMergeKey, Bump, CounterNames, IndexFinite
  <2>4. CASE DropStale(e)
    BY <2>4 DEF DropStale, Bump, CounterNames, IndexFinite
  <2>5. CASE ApplyDelete(e)
    <3>1. \A k \in Keys : IsFiniteSet(underKey[k] \ {Slot(e)})
      BY FS_RemoveElement DEF IndexFinite
    <3>2. Slot(e) \in Slots
      BY <2>5 DEF ApplyDelete, Current
    <3>3. IndexFinite'
      BY <2>5, <3>1 DEF ApplyDelete, IndexFinite
    <3>4. counters' \in [CounterNames -> Nat]
      BY <2>5, <2>0 DEF ApplyDelete, CounterNames, OneIf
    <3> QED BY <2>5, <3>2, <3>3, <3>4 DEF ApplyDelete
  <2>6. CASE ApplyUpsert(e)
    <3>1. \A k \in Keys : IsFiniteSet(underKey[k] \cup {Slot(e)})
      BY FS_AddElement DEF IndexFinite
    <3>2. Slot(e) \in Slots
      BY <2>6 DEF ApplyUpsert, Current
    <3>3. IndexFinite'
      BY <2>6, <3>1 DEF ApplyUpsert, IndexFinite
    <3>4. counters' \in [CounterNames -> Nat]
      BY <2>6, <2>0 DEF ApplyUpsert, CounterNames, OneIf
    <3> QED BY <2>6, <3>2, <3>3, <3>4 DEF ApplyUpsert
  <2> QED BY <2>1, <2>2, <2>3, <2>4, <2>5, <2>6 DEF Deliver, ApplyEvent
<1>8. TypeOK'
  BY <1>0, <1>1, <1>2, <1>7 DEF TypeOK
<1> QED BY <1>1, <1>2, <1>3, <1>7, <1>8

\* The index stays exact under every branch, whatever the keys and tombstones.
LEMMA ConsumeIndex ==
  ASSUME Base, NEW e \in Stream(log), Deliver(e)
  PROVE  IndexExact'
<1>1. TypeOK /\ IndexExact /\ DeletesAreEmpty
  BY DEF Base, LogInv
<1>2. PICK i \in DOMAIN log : \/ e = ChangeRecord(i, log[i])
                              \/ log[i].op = "d" /\ e = TombstoneRecord(i, log[i])
  BY StreamElements
<1>3. CASE IgnoreTombstone(e) \/ NoMergeKey(e) \/ DropStale(e)
  BY <1>1, <1>3 DEF IgnoreTombstone, NoMergeKey, DropStale, IndexExact
<1>4. CASE ApplyTombstone(e)
  <2> DEFINE held == underKey[e.key]
  <2> DEFINE kept == {s \in held : Guard /\ watermark[s] > e.lsn}
  <2>1. /\ rows' = [s \in Slots |-> IF s \in held \ kept THEN Absent ELSE rows[s]]
        /\ underKey' = [underKey EXCEPT ![e.key] = kept]
    BY <1>4 DEF ApplyTombstone
  <2>2. log[i] \in Changes
    BY <1>1 DEF TypeOK, SourceTypeOK
  <2>3. e.key \in Keys
    BY <1>2, <2>2, SlotFacts, RecordFields
  <2>4. held = {s \in Slots : rows[s] # Absent /\ KeyOfSlot(s) = e.key}
    BY <1>1, <2>3 DEF IndexExact
  <2> HIDE DEF kept
  <2>5. kept \subseteq held
    BY DEF kept
  <2>6. \A k \in Keys : k # e.key => underKey'[k] = underKey[k]
    BY <1>1, <2>1 DEF TypeOK
  <2>7. \A k \in Keys : k # e.key =>
          underKey'[k] = {s \in Slots : rows'[s] # Absent /\ KeyOfSlot(s) = k}
    BY <1>1, <2>1, <2>4, <2>6 DEF IndexExact
  <2>8. underKey'[e.key] = {s \in Slots : rows'[s] # Absent /\ KeyOfSlot(s) = e.key}
    BY <1>1, <2>1, <2>3, <2>4, <2>5 DEF TypeOK
  <2> QED BY <2>3, <2>7, <2>8 DEF IndexExact
<1>5. ASSUME ~e.tomb, Slot(e) # Absent, ApplyDelete(e) \/ ApplyUpsert(e)
      PROVE  IndexExact'
  <2> DEFINE s == Slot(e)
  <2>1. e = ChangeRecord(i, log[i])
    BY <1>2, <1>5, RecordFields
  <2>2. s \in Slots /\ e.key \in Keys /\ KeyOfSlot(s) = e.key
    BY <1>1, <1>5, <2>1, AddressedSlot
  <2>3. e.op # "d" => e.val # Absent
    BY <1>1, <2>1, RecordFields DEF DeletesAreEmpty
  <2>4. CASE ApplyDelete(e)
    <3>1. rows' = [rows EXCEPT ![s] = Absent] /\ underKey' = [underKey EXCEPT ![e.key] = @ \ {s}]
      BY <2>4 DEF ApplyDelete
    <3> QED BY <1>1, <2>2, <3>1 DEF IndexExact, TypeOK
  <2>5. CASE ApplyUpsert(e)
    <3>1. /\ rows' = [rows EXCEPT ![s] = e.val] /\ e.op # "d"
          /\ underKey' = [underKey EXCEPT ![e.key] = @ \cup {s}]
      BY <2>5 DEF ApplyUpsert
    <3> QED BY <1>1, <2>2, <2>3, <3>1 DEF IndexExact, TypeOK
  <2> QED BY <1>5, <2>4, <2>5
<1> QED BY <1>3, <1>4, <1>5 DEF Deliver, ApplyEvent, ApplyDelete, ApplyUpsert, Current

\* A change moves the mark of its slot forward, or finds it ahead already.
LEMMA ConsumeMarks ==
  ASSUME Marked, OrderIsEnough, NEW e \in Stream(log), Deliver(e), UNCHANGED sourceVars
  PROVE  MarkIsLast'
<1>1. TypeOK /\ MarkIsLast
  BY DEF Marked, Base
<1>2. log' = log /\ delivered' = delivered \cup {e} /\ Deliverable(e)
  BY DEF Deliver, sourceVars
<1>3. PICK i \in DOMAIN log : \/ e = ChangeRecord(i, log[i])
                              \/ log[i].op = "d" /\ e = TombstoneRecord(i, log[i])
  BY StreamElements
<1>4. e.at = i /\ e.lsn = log[i].lsn
  BY <1>3, RecordFields
<1> SUFFICES ASSUME NEW s \in Slots PROVE SlotMarked(s)'
  BY DEF MarkIsLast
<1>5. CASE e.tomb \/ Slot(e) # s
  <2>1. Applied(s)' = Applied(s)
    BY <1>1, <1>2, <1>5, AppliedGrows
  <2>2. watermark'[s] = watermark[s]
    BY <1>1, <1>5 DEF Deliver, ApplyEvent, IgnoreTombstone, ApplyTombstone, NoMergeKey,
         DropStale, ApplyDelete, ApplyUpsert, Current, TypeOK
  <2> QED BY <1>1, <1>2, <2>1, <2>2 DEF MarkIsLast, SlotMarked, IsLast
<1>6. CASE ~e.tomb /\ Slot(e) = s
  <2>1. e = ChangeRecord(i, log[i])
    BY <1>3, <1>6, RecordFields
  <2>2. s # Absent /\ i \in Nat /\ \A j \in Applied(s) : j \in Nat
    BY <1>1, AbsentIsNoSlot DEF TypeOK, SourceTypeOK, Applied
  <2>3. Applied(s)' = Applied(s) \cup {i}
    BY <1>1, <1>2, <1>4, <1>6, AppliedGrows
  <2>4. CASE DropStale(e)
    <3>1. Stale(e) /\ watermark' = watermark
      BY <2>4 DEF DropStale
    <3>2. PICK m \in Applied(s) : IsLast(m, Applied(s)) /\ m > i
      BY <1>6, <2>1, <2>2, <3>1, StaleIsOlder
    <3>3. IsLast(m, Applied(s))'
      BY <2>2, <2>3, <3>2 DEF IsLast
    <3>4. watermark[s] = log[m].lsn
      <4>1. \A n \in Applied(s) : IsLast(n, Applied(s)) => n = m
        BY <2>2, <3>2 DEF IsLast
      <4> QED BY <1>1, <3>2, <4>1 DEF MarkIsLast, SlotMarked
    <3> QED BY <1>2, <3>1, <3>3, <3>4 DEF SlotMarked, IsLast
  <2>5. CASE ApplyDelete(e) \/ ApplyUpsert(e)
    <3>1. ~Stale(e)
      BY <2>5 DEF ApplyDelete, ApplyUpsert, Current
    <3>2. \A j \in Applied(s) : j < i
      BY <1>2, <1>6, <2>1, <2>2, <3>1, CurrentIsNewest
    <3>3. i \in Applied(s)' /\ IsLast(i, Applied(s))'
      BY <2>2, <2>3, <3>2 DEF IsLast
    <3>4. watermark'[s] = log[i].lsn
      BY <1>1, <1>4, <1>6, <2>5 DEF ApplyDelete, ApplyUpsert, TypeOK
    <3> QED BY <1>2, <3>3, <3>4 DEF SlotMarked
  <2> QED BY <1>6, <2>2, <2>4, <2>5
          DEF Deliver, ApplyEvent, IgnoreTombstone, ApplyTombstone, NoMergeKey
<1> QED BY <1>5, <1>6

\* The branches that take a change record.
LEMMA ChangeKeepsLatest ==
  ASSUME Inv, OrderIsEnough, NEW i \in DOMAIN log,
         Deliver(ChangeRecord(i, log[i])), UNCHANGED sourceVars
  PROVE  LatestWins'
<1> DEFINE e == ChangeRecord(i, log[i])
<1>1. TypeOK /\ LatestWins /\ \A s \in Slots : SlotLatest(s)
  BY LatestWinsBySlot DEF Inv, Marked, Base
<1>2. /\ log' = log /\ delivered' = delivered \cup {e} /\ Deliverable(e)
      /\ e \in Stream(log) /\ ~e.tomb /\ e.at = i
  BY StreamElements, RecordFields DEF Deliver, sourceVars
<1>3. \A s \in Slots : Applied(s)' = IF Slot(e) = s THEN Applied(s) \cup {i} ELSE Applied(s)
  BY <1>1, <1>2, AppliedGrows
<1> SUFFICES ASSUME NEW s \in Slots PROVE SlotLatest(s)'
  BY DEF LatestWins, SlotLatest
<1>4. CASE Slot(e) # s
  <2>1. watermark'[s] = watermark[s] /\ rows'[s] = rows[s]
    BY <1>1, <1>2, <1>4 DEF Deliver, ApplyEvent, IgnoreTombstone, ApplyTombstone, NoMergeKey,
         DropStale, ApplyDelete, ApplyUpsert, TypeOK
  <2> QED BY <1>1, <1>2, <1>3, <1>4, <2>1, SlotUntouched
<1>5. CASE Slot(e) = s
  <2>1. s # Absent /\ i \in Nat /\ \A j \in Applied(s) : j \in Nat
    BY <1>1, AbsentIsNoSlot DEF TypeOK, SourceTypeOK, Applied
  <2>2. CASE DropStale(e)
    <3>1. Stale(e) /\ rows' = rows /\ watermark' = watermark
      BY <2>2 DEF DropStale
    <3>2. PICK m \in Applied(s) : IsLast(m, Applied(s)) /\ m > i
      BY <1>5, <2>1, <3>1, StaleIsOlder DEF Inv
    <3>3. IsLast(m, Applied(s))'
      BY <1>3, <1>5, <2>1, <3>2 DEF IsLast
    <3>4. \A n \in Applied(s) : IsLast(n, Applied(s)) => n = m
      BY <2>1, <3>2 DEF IsLast
    <3>5. /\ watermark[s] = log[m].lsn
          /\ rows[s] = log[m].val \/ (rows[s] = Absent /\ TombstonedAfter(s, m))
      BY <1>1, <3>2, <3>4 DEF SlotLatest
    <3>6. TombstonedAfter(s, m) => TombstonedAfter(s, m)'
      BY <1>2 DEF TombstonedAfter
    <3> QED BY <1>2, <3>1, <3>3, <3>5, <3>6 DEF SlotLatest, IsLast
  <2>3. CASE ApplyDelete(e) \/ ApplyUpsert(e)
    <3>1. ~Stale(e)
      BY <2>3 DEF ApplyDelete, ApplyUpsert, Current
    <3>2. \A j \in Applied(s) : j < i
      BY <1>2, <1>5, <2>1, <3>1, CurrentIsNewest DEF Inv
    <3>3. i \in Applied(s)' /\ IsLast(i, Applied(s))'
      BY <1>3, <1>5, <2>1, <3>2 DEF IsLast
    <3>4. watermark'[s] = log[i].lsn
      BY <1>1, <1>5, <2>3, RecordFields DEF ApplyDelete, ApplyUpsert, TypeOK
    <3>5. rows'[s] = log[i].val
      <4>1. CASE ApplyDelete(e)
        BY <1>1, <1>5, <4>1, RecordFields DEF ApplyDelete, TypeOK, Inv, Marked, Base,
            LogInv, DeletesAreEmpty
      <4>2. CASE ApplyUpsert(e)
        BY <1>1, <1>5, <4>2, RecordFields DEF ApplyUpsert, TypeOK
      <4> QED BY <2>3, <4>1, <4>2
    <3> QED BY <1>2, <3>3, <3>4, <3>5 DEF SlotLatest
  <2> QED BY <1>2, <1>5, <2>1, <2>2, <2>3
          DEF Deliver, ApplyEvent, IgnoreTombstone, ApplyTombstone, NoMergeKey
<1> QED BY <1>4, <1>5

\* The branches that take a tombstone.  The slots it removes are its own row's,
\* and the changes applied to them are not newer than the delete it frames.
LEMMA TombstoneKeepsLatest ==
  ASSUME Inv, OrderIsEnough, KeyIsEnough, NEW i \in DOMAIN log, log[i].op = "d",
         Deliver(TombstoneRecord(i, log[i])), UNCHANGED sourceVars
  PROVE  LatestWins'
<1> DEFINE e == TombstoneRecord(i, log[i])
<1>1. /\ TypeOK /\ PartitionClosed /\ IndexExact /\ LogOrdered /\ DeletesAreEmpty
      /\ \A s \in Slots : SlotLatest(s)
  BY LatestWinsBySlot DEF Inv, Marked, Base, LogInv
<1>2. /\ log' = log /\ delivered' = delivered \cup {e} /\ e \notin delivered
      /\ e \in Stream(log) /\ e.tomb /\ e.at = i /\ e.lsn = log[i].lsn
      /\ e.key = KeyOf[log[i].row] /\ log[i] \in Changes
  BY <1>1, StreamElements, RecordFields DEF Deliver, Deliverable, sourceVars, TypeOK, SourceTypeOK
<1>3. \A s \in Slots : Applied(s)' = Applied(s)
  BY <1>1, <1>2, AppliedGrows
<1>4. watermark' = watermark
  BY <1>2 DEF Deliver, ApplyEvent, IgnoreTombstone, ApplyTombstone, NoMergeKey, DropStale,
       ApplyDelete, ApplyUpsert, Current
<1> SUFFICES ASSUME NEW s \in Slots PROVE SlotLatest(s)'
  BY DEF LatestWins, SlotLatest
<1>5. CASE rows'[s] = rows[s]
  BY <1>1, <1>2, <1>3, <1>4, <1>5, SlotUntouched
<1>6. CASE rows'[s] # rows[s]
  <2>1. /\ OnTombstone = "delete" /\ s \in underKey[e.key] /\ rows'[s] = Absent
        /\ ~(Guard /\ watermark[s] > e.lsn)
    BY <1>1, <1>2, <1>6 DEF Deliver, ApplyEvent, IgnoreTombstone, ApplyTombstone, NoMergeKey,
         DropStale, ApplyDelete, ApplyUpsert, Current, TypeOK
  <2>2. rows[s] # Absent /\ KeyOfSlot(s) = e.key
    BY <1>1, <1>2, <2>1, SlotFacts DEF IndexExact
  <2>3. SlotOf(log[i].row) = s
    <3>1. OneSlotPerKey
      BY <2>1 DEF KeyIsEnough
    <3>2. log[i].row \in Rows
      BY <1>2 DEF Changes
    <3> QED BY <1>2, <2>2, <3>1, <3>2 DEF OneSlotPerKey, KeyOfSlot, SlotOf, Slots
  <2>4. PICK m \in Applied(s) : IsLast(m, Applied(s)) /\ watermark[s] = log[m].lsn
                               /\ rows[s] = log[m].val
    BY <1>1, <2>2 DEF SlotLatest
  <2>5. /\ m \in DOMAIN log /\ m \in Nat /\ i \in Nat /\ log[m] \in Changes
        /\ ChangeRecord(m, log[m]) \in delivered /\ Slot(ChangeRecord(m, log[m])) = s
    BY <1>1 DEF Applied, TypeOK, SourceTypeOK
  <2>6. m # i
    BY <1>1, <2>2, <2>4 DEF DeletesAreEmpty
  <2>7. ~(i < m)
    <3>1. CASE Order = "interleave"
      <4>1. ChangeRecord(m, log[m]).key = e.key
        BY <1>1, <2>2, <2>5, AbsentIsNoSlot, AddressedSlot
      <4>2. ChangeRecord(m, log[m]).at = m
        BY RecordFields
      <4> QED BY <1>1, <1>2, <2>5, <3>1, <4>1, <4>2 DEF PartitionClosed, SamePartition, Before
    <3>2. CASE Guard /\ ~Ties
      <4>1. watermark[s] \in Nat /\ log[i].lsn \in Nat
        BY <1>1, <1>2 DEF TypeOK, Changes
      <4>2. log[m].lsn <= log[i].lsn /\ log[m].lsn \in Nat
        BY <1>2, <2>1, <2>4, <3>2, <4>1
      <4> QED BY <1>1, <2>5, <3>2, <4>1, <4>2 DEF LogOrdered
    <3> QED BY <3>1, <3>2 DEF OrderIsEnough
  <2>8. TombstonedAfter(s, m)'
    BY <1>2, <2>1, <2>3, <2>5, <2>6, <2>7 DEF TombstonedAfter
  <2>9. m \in Applied(s)' /\ IsLast(m, Applied(s))'
    BY <1>3, <2>4 DEF IsLast
  <2> QED BY <1>2, <1>4, <2>1, <2>4, <2>8, <2>9 DEF SlotLatest
<1> QED BY <1>5, <1>6

LEMMA ConsumeBase == Base /\ Consume => Base'
BY ConsumeTypes, ConsumeIndex DEF Consume, Base

LEMMA ConsumeMarked == OrderIsEnough /\ Marked /\ Consume => MarkIsLast'
BY ConsumeMarks DEF Consume

LEMMA ConsumeLatest == OrderIsEnough /\ KeyIsEnough /\ Inv /\ Consume => LatestWins'
<1> SUFFICES ASSUME OrderIsEnough, KeyIsEnough, Inv, Consume PROVE LatestWins'
  OBVIOUS
<1>1. PICK e \in Stream(log) : Deliver(e) /\ UNCHANGED sourceVars
  BY DEF Consume
<1>2. PICK i \in DOMAIN log : \/ e = ChangeRecord(i, log[i])
                              \/ log[i].op = "d" /\ e = TombstoneRecord(i, log[i])
  BY StreamElements
<1> QED BY <1>1, <1>2, ChangeKeepsLatest, TombstoneKeepsLatest

-----------------------------------------------------------------------------
(* The theorems.                                                            *)

\* A stuttering step changes nothing the three invariants read.
LEMMA Stutter ==
  ASSUME UNCHANGED vars
  PROVE  (Base => Base') /\ (MarkIsLast => MarkIsLast') /\ (LatestWins => LatestWins')
<1>1. /\ log' = log /\ table' = table /\ delivered' = delivered /\ rows' = rows
      /\ underKey' = underKey /\ watermark' = watermark /\ counters' = counters
  BY DEF vars
<1>2. Stream(log)' = Stream(log)
  BY <1>1 DEF Stream, Envelope
<1>3. Base => (TypeOK /\ IndexFinite /\ PartitionClosed /\ IndexExact)'
  BY <1>1, <1>2 DEF Base, TypeOK, SourceTypeOK, IndexFinite, PartitionClosed, IndexExact
<1>4. Base => LogInv'
  BY <1>1 DEF Base, LogInv, LogOrdered, DeletesAreEmpty, TableIsLastChange, ChangesTo, IsLast
<1>5. \A s \in Slots : Applied(s)' = Applied(s)
  BY <1>1 DEF Applied
<1>6. MarkIsLast => MarkIsLast'
  BY <1>1, <1>5 DEF MarkIsLast, SlotMarked, IsLast
<1>7. LatestWins => LatestWins'
  <2>1. \A s \in Slots : SlotLatest(s) => SlotLatest(s)'
    BY <1>1, <1>5, SlotUntouched
  <2> QED BY <2>1 DEF LatestWins, SlotLatest
<1> QED BY <1>3, <1>4, <1>6, <1>7 DEF Base

\* Types, the order of the log, the partitions read so far and the index: no
\* hypothesis on the order, the guard or the keys.
THEOREM BaseHolds == Spec => []Base
<1>1. Init => Base
  BY InitInv DEF Inv, Marked
<1>2. Base /\ [Next]_vars => Base'
  BY ProduceBase, ConsumeBase, Stutter DEF Next
<1> QED BY <1>1, <1>2, PTL DEF Spec

\* Positions, given enough order, whatever the keys cover.
THEOREM MarkedHolds == OrderIsEnough => (Spec => []Marked)
<1> SUFFICES ASSUME OrderIsEnough PROVE Spec => []Marked
  OBVIOUS
<1>1. Init => Marked
  BY InitInv DEF Inv
<1>2. Marked /\ [Next]_vars => Marked'
  BY ProduceBase, ProduceMarks, ConsumeBase, ConsumeMarked, Stutter DEF Next, Marked
<1> QED BY <1>1, <1>2, PTL DEF Spec

\* The whole invariant, under the order and the key a deployment needs.
THEOREM Invariance == OrderIsEnough /\ KeyIsEnough => (Spec => []Inv)
<1> SUFFICES ASSUME OrderIsEnough, KeyIsEnough PROVE Spec => []Inv
  OBVIOUS
<1>1. Inv /\ Next => LatestWins'
  BY ProduceLatest, ConsumeLatest DEF Next, Inv, Marked
<1>2. Inv /\ UNCHANGED vars => LatestWins'
  BY Stutter DEF Inv
<1>3. Marked' /\ LatestWins' => Inv'
  BY DEF Inv
<1>4. Inv => LatestWins
  BY DEF Inv
<1>5. Init => LatestWins
  BY InitInv DEF Inv
<1>6. Marked /\ LatestWins => Inv
  BY DEF Inv
<1> QED BY MarkedHolds, <1>1, <1>2, <1>3, <1>4, <1>5, <1>6, PTL DEF Spec

\* Every variable keeps its type (Consumer's TypeOK), in every deployment.
THEOREM TypeCorrect == Spec => []TypeOK
<1>1. Base => TypeOK
  BY DEF Base
<1> QED BY BaseHolds, <1>1, PTL

\* The newest change delivered for a row is the one the target shows, for every
\* interleaving of the partitions, or for any order at all under the guard.
THEOREM LatestWinsHolds == OrderIsEnough /\ KeyIsEnough => (Spec => []LatestWins)
<1> SUFFICES ASSUME OrderIsEnough, KeyIsEnough PROVE Spec => []LatestWins
  OBVIOUS
<1>1. Inv => LatestWins
  BY DEF Inv
<1> QED BY Invariance, <1>1, PTL

\* The index behind the tombstones is exact (apply_events, _forget), even where
\* the tombstones themselves remove the wrong rows.
THEOREM IndexExactHolds == Spec => []IndexExact
<1>1. Base => IndexExact
  BY DEF Base
<1> QED BY BaseHolds, <1>1, PTL

\* A drained target that shows the newest change of each slot is the source table.
LEMMA DrainedMatches == SlotsNameRows /\ NarrowRows = {} /\ Inv => TargetMatchesSource
<1> SUFFICES ASSUME SlotsNameRows, NarrowRows = {}, Inv, Drained, NEW r \in Rows
             PROVE  rows[SlotOf(r)] = table[r]
  BY DEF TargetMatchesSource, Matches
<1> DEFINE s == SlotOf(r)
<1>1. TypeOK /\ LatestWins /\ TableIsLastChange /\ \A i \in DOMAIN log : log[i] \in Changes
  BY DEF Inv, Marked, Base, LogInv, TypeOK, SourceTypeOK
<1>2. s \in Slots
  BY EventsAssumption DEF EventsAssumption, SlotOf, Slots
<1>3. Applied(s) = ChangesTo(r)
  <2>1. \A i \in DOMAIN log : ChangeRecord(i, log[i]) \in delivered
    BY StreamElements DEF Drained
  <2>2. \A i \in DOMAIN log : Slot(ChangeRecord(i, log[i])) = SlotOf(log[i].row)
    BY <1>1, SlotFacts
  <2>3. \A i \in DOMAIN log : log[i].row \in Rows
    BY <1>1 DEF Changes
  <2> QED BY <2>1, <2>2, <2>3 DEF Applied, ChangesTo, SlotsNameRows
<1>4. CASE ChangesTo(r) = {}
  <2>1. table[r] = Absent
    BY <1>1, <1>4 DEF TableIsLastChange
  <2> QED BY <1>1, <1>2, <1>3, <1>4, <2>1 DEF LatestWins
<1>5. CASE ChangesTo(r) # {}
  <2>1. PICK m \in ChangesTo(r) : IsLast(m, ChangesTo(r)) /\ table[r] = log[m].val
    BY <1>1, <1>5 DEF TableIsLastChange
  <2>2. PICK n \in Applied(s) :
          /\ IsLast(n, Applied(s))
          /\ rows[s] = log[n].val \/ (rows[s] = Absent /\ TombstonedAfter(s, n))
    BY <1>1, <1>2, <1>3, <1>5 DEF LatestWins
  <2>3. n = m /\ m \in Nat
    BY <1>1, <1>3, <2>1, <2>2 DEF IsLast, ChangesTo, TypeOK, SourceTypeOK
  <2>4. ~TombstonedAfter(s, m)
    <3> SUFFICES ASSUME NEW e \in delivered, e.tomb, e.at > m, SlotOf(log[e.at].row) = s
                 PROVE  FALSE
      BY DEF TombstonedAfter
    <3>1. PICK i \in DOMAIN log : e.at = i
      BY <1>1, StreamElements, RecordFields DEF TypeOK
    <3>2. log[i].row = r
      BY <1>1, <3>1 DEF SlotsNameRows, Changes
    <3>3. i \in ChangesTo(r) /\ i \in Nat
      BY <1>1, <3>1, <3>2 DEF ChangesTo, TypeOK, SourceTypeOK
    <3> QED BY <2>1, <2>3, <3>1, <3>3 DEF IsLast
  <2> QED BY <2>1, <2>2, <2>3, <2>4
<1> QED BY <1>4, <1>5

\* When every record has been delivered the target mirrors the source table, row
\* for row (apply_events, compare).
THEOREM EndToEnd ==
  OrderIsEnough /\ KeyIsEnough /\ SlotsNameRows /\ NarrowRows = {}
    => (Spec => []TargetMatchesSource)
<1> SUFFICES ASSUME OrderIsEnough, KeyIsEnough, SlotsNameRows, NarrowRows = {}
             PROVE  Spec => []TargetMatchesSource
  OBVIOUS
<1>1. Inv => TargetMatchesSource
  BY DrainedMatches
<1> QED BY Invariance, <1>1, PTL

\* A record taken in its partition's order is newer than all its slot has seen.
LEMMA GuardQuiet == Marked /\ GuardNeverFires /\ [Next]_vars => GuardNeverFires'
<1> SUFFICES ASSUME Marked, counters["stale_dropped"] = 0, [Next]_vars, Order = "interleave"
             PROVE  counters'["stale_dropped"] = 0
  BY DEF GuardNeverFires
<1>1. TypeOK
  BY DEF Marked, Base
<1>2. CASE Produce \/ UNCHANGED vars
  BY <1>2 DEF Produce, consumerVars, vars
<1>3. CASE Consume
  <2>1. PICK e \in Stream(log) : Deliver(e)
    BY <1>3 DEF Consume
  <2>2. ~DropStale(e)
    <3> SUFFICES ASSUME DropStale(e) PROVE FALSE
      OBVIOUS
    <3>1. PICK i \in DOMAIN log : e = ChangeRecord(i, log[i])
      BY StreamElements, RecordFields DEF DropStale
    <3>2. Slot(e) # Absent /\ Stale(e) /\ Deliverable(e)
      BY <2>1 DEF DropStale, Deliver
    <3>3. PICK m \in Applied(Slot(e)) : m > i
      BY <3>1, <3>2, StaleIsOlder
    <3>4. m < i
      BY <3>1, <3>2, <3>3, InOrderPerSlot DEF Marked
    <3>5. m \in Nat /\ i \in Nat
      BY <1>1 DEF Applied, TypeOK, SourceTypeOK
    <3> QED BY <3>3, <3>4, <3>5
  <2>3. CASE IgnoreTombstone(e) \/ ApplyTombstone(e)
    BY <1>1, <2>3 DEF IgnoreTombstone, ApplyTombstone, TypeOK, CounterNames
  <2>4. CASE NoMergeKey(e)
    BY <1>1, <2>4 DEF NoMergeKey, Bump, TypeOK, CounterNames
  <2>5. CASE ApplyDelete(e) \/ ApplyUpsert(e)
    BY <1>1, <2>5 DEF ApplyDelete, ApplyUpsert, TypeOK, CounterNames
  <2> QED BY <2>1, <2>2, <2>3, <2>4, <2>5 DEF Deliver, ApplyEvent
<1> QED BY <1>2, <1>3 DEF Next

\* No delivery is dropped as stale while the broker keeps partitions in order:
\* "its count is zero by construction" (cdc/delivery.py, shuffle).
THEOREM GuardIsQuiet == Spec => []GuardNeverFires
<1>1. Init => GuardNeverFires
  BY DEF Init, ConsumerInit, GuardNeverFires, CounterNames
<1>2. CASE Order = "interleave"
  <2>1. OrderIsEnough
    BY <1>2 DEF OrderIsEnough
  <2> QED BY <2>1, MarkedHolds, <1>1, GuardQuiet, PTL DEF Spec
<1>3. CASE Order # "interleave"
  <2>1. GuardNeverFires
    BY <1>3 DEF GuardNeverFires
  <2> QED BY <2>1, PTL
<1> QED BY <1>2, <1>3

\* A position never goes back, and a row that is gone comes back only by a
\* change at or past the position it was removed at.
LEMMA MarkStep ==
  ASSUME Marked, OrderIsEnough, [Next]_vars, NEW s \in Slots
  PROVE  /\ watermark'[s] >= watermark[s]
         /\ rows[s] = Absent /\ rows'[s] # Absent =>
              \E e \in delivered' \ delivered : e.lsn >= watermark[s]
<1>1. TypeOK /\ MarkIsLast /\ LogOrdered /\ watermark[s] \in Nat
  BY DEF Marked, Base, LogInv, TypeOK
<1>2. CASE Produce \/ UNCHANGED vars
  BY <1>1, <1>2 DEF Produce, consumerVars, vars
<1>3. CASE Consume
  <2>1. PICK e \in Stream(log) : Deliver(e)
    BY <1>3 DEF Consume
  <2>2. e \in delivered' \ delivered
    BY <2>1 DEF Deliver, Deliverable
  <2>3. CASE IgnoreTombstone(e) \/ ApplyTombstone(e) \/ NoMergeKey(e) \/ DropStale(e)
    BY <1>1, <2>3 DEF IgnoreTombstone, ApplyTombstone, NoMergeKey, DropStale, TypeOK
  <2>4. CASE ApplyDelete(e) \/ ApplyUpsert(e)
    <3>1. PICK i \in DOMAIN log : e = ChangeRecord(i, log[i])
      BY <2>4, StreamElements, RecordFields DEF ApplyDelete, ApplyUpsert, Current
    <3>2. Slot(e) # Absent /\ ~Stale(e) /\ Deliverable(e)
      BY <2>1, <2>4 DEF ApplyDelete, ApplyUpsert, Current, Deliver
    <3>3. Slot(e) \in Slots /\ e.lsn \in Nat /\ watermark[Slot(e)] \in Nat /\ e.lsn = log[i].lsn
      BY <1>1, <3>1, <3>2, AddressedSlot, RecordFields DEF TypeOK
    <3>4. watermark[Slot(e)] <= e.lsn
      <4>1. CASE Guard
        BY <4>1, <3>2, <3>3 DEF Stale
      <4>2. CASE Order = "interleave" /\ Applied(Slot(e)) # {}
        <5>1. PICK m \in Applied(Slot(e)) : watermark[Slot(e)] = log[m].lsn
          BY <1>1, <3>3, <4>2 DEF MarkIsLast, SlotMarked
        <5>2. m < i
          BY <3>1, <3>2, <4>2, InOrderPerSlot DEF Marked
        <5>3. m \in DOMAIN log /\ m <= i
          BY <1>1, <5>2 DEF Applied, TypeOK, SourceTypeOK
        <5> QED BY <1>1, <3>3, <5>1, <5>3 DEF LogOrdered
      <4>3. CASE Applied(Slot(e)) = {}
        BY <1>1, <3>3, <4>3 DEF MarkIsLast, SlotMarked
      <4> QED BY <4>1, <4>2, <4>3 DEF OrderIsEnough
    <3>5. CASE s = Slot(e)
      BY <1>1, <2>2, <2>4, <3>3, <3>4, <3>5 DEF ApplyDelete, ApplyUpsert, TypeOK
    <3>6. CASE s # Slot(e)
      BY <1>1, <2>4, <3>6 DEF ApplyDelete, ApplyUpsert, TypeOK
    <3> QED BY <3>5, <3>6
  <2> QED BY <2>1, <2>3, <2>4 DEF Deliver, ApplyEvent
<1> QED BY <1>2, <1>3 DEF Next

\* "The high water mark outlives the row" (cdc/consumer.py): no row is ever
\* resurrected by a change its key has moved past.
THEOREM MarkIsMonotone == OrderIsEnough => (Spec => MarkNeverGoesBack)
<1> SUFFICES ASSUME OrderIsEnough PROVE Spec => MarkNeverGoesBack
  OBVIOUS
<1> DEFINE Step ==
  \A s \in Slots :
    /\ watermark'[s] >= watermark[s]
    /\ rows[s] = Absent /\ rows'[s] # Absent =>
         \E e \in delivered' \ delivered : e.lsn >= watermark[s]
<1>1. Marked /\ [Next]_vars => [Step]_vars
  BY MarkStep
<1>2. MarkNeverGoesBack <=> [][Step]_vars
  BY PTL DEF MarkNeverGoesBack
<1> QED BY MarkedHolds, <1>1, <1>2, PTL DEF Spec

-----------------------------------------------------------------------------
(* The compacted topic.                                                     *)

\* A record that survives compaction is the last change of its key and no delete:
\* a delete is followed by its own tombstone.
LEMMA CompactElements ==
  ASSUME Base, NEW e
  PROVE  e \in Compact(Stream(log)) <=>
           \E i \in DOMAIN log :
             /\ e = ChangeRecord(i, log[i]) /\ log[i].op # "d"
             /\ \A j \in DOMAIN log : KeyOf[log[j].row] = KeyOf[log[i].row] => j <= i
<1>1. \A i \in DOMAIN log : i \in Nat /\ log[i] \in Changes
  BY DEF Base, TypeOK, SourceTypeOK
<1>2. ASSUME e \in Compact(Stream(log))
      PROVE  \E i \in DOMAIN log :
               /\ e = ChangeRecord(i, log[i]) /\ log[i].op # "d"
               /\ \A j \in DOMAIN log : KeyOf[log[j].row] = KeyOf[log[i].row] => j <= i
  <2>1. e \in Stream(log) /\ ~e.tomb /\ \A f \in Stream(log) : f.key = e.key => ~Before(e, f)
    BY <1>2 DEF Compact
  <2>2. PICK i \in DOMAIN log : e = ChangeRecord(i, log[i])
    BY <2>1, StreamElements, RecordFields
  <2>3. e.at = i /\ e.key = KeyOf[log[i].row]
    BY <2>2, RecordFields
  <2>4. ASSUME log[i].op = "d" PROVE FALSE
    <3> DEFINE f == TombstoneRecord(i, log[i])
    <3>1. f \in Stream(log) /\ f.key = e.key /\ f.at = i /\ f.tomb
      BY <2>3, <2>4, StreamElements, RecordFields
    <3> QED BY <2>1, <2>3, <3>1 DEF Before
  <2>5. ASSUME NEW j \in DOMAIN log, KeyOf[log[j].row] = KeyOf[log[i].row] PROVE j <= i
    <3> DEFINE f == ChangeRecord(j, log[j])
    <3>1. f \in Stream(log) /\ f.key = e.key /\ f.at = j
      BY <2>3, <2>5, StreamElements, RecordFields
    <3>2. ~(i < j)
      BY <2>1, <2>3, <3>1 DEF Before
    <3> QED BY <1>1, <3>2
  <2> QED BY <2>2, <2>4, <2>5
<1>3. ASSUME NEW i \in DOMAIN log, e = ChangeRecord(i, log[i]), log[i].op # "d",
             \A j \in DOMAIN log : KeyOf[log[j].row] = KeyOf[log[i].row] => j <= i
      PROVE  e \in Compact(Stream(log))
  <2>1. e \in Stream(log) /\ ~e.tomb /\ e.at = i /\ e.key = KeyOf[log[i].row]
    BY <1>3, StreamElements, RecordFields
  <2>2. ASSUME NEW f \in Stream(log), f.key = e.key PROVE ~Before(e, f)
    <3>1. PICK j \in DOMAIN log : \/ f = ChangeRecord(j, log[j])
                                  \/ log[j].op = "d" /\ f = TombstoneRecord(j, log[j])
      BY StreamElements
    <3>2. f.at = j /\ f.key = KeyOf[log[j].row]
      BY <3>1, RecordFields
    <3>3. j <= i /\ i \in Nat /\ j \in Nat
      BY <1>1, <1>3, <2>1, <2>2, <3>2
    <3>4. CASE j = i
      <4>1. f = e
        BY <1>3, <3>1, <3>4
      <4> QED BY <2>1, <3>3, <4>1 DEF Before
    <3>5. CASE j < i
      BY <2>1, <3>2, <3>3, <3>5 DEF Before
    <3> QED BY <3>3, <3>4, <3>5
  <2> QED BY <2>1, <2>2 DEF Compact
<1> QED BY <1>2, <1>3

\* Whatever a record key covers, a compacted topic keeps of it the row changed
\* last, as the source has it, and nothing of a row deleted last (compact).
THEOREM CompactionKeepsTheLastRow == Spec => []CompactionKeepsOneRowPerKey
<1>1. Base => CompactionKeepsOneRowPerKey
  <2> SUFFICES ASSUME Base, NEW r \in Rows
               PROVE  Bootstrapped(r) = IF LastOfItsKey(r) THEN table[r] ELSE Absent
    BY DEF CompactionKeepsOneRowPerKey
  <2> DEFINE kept == {e \in Compact(Stream(log)) : e.row = r}
  <2>1. /\ DeletesAreEmpty /\ TableIsLastChange /\ r # Absent
        /\ \A i \in DOMAIN log : i \in Nat /\ log[i] \in Changes
    BY EventsAssumption DEF EventsAssumption, Base, LogInv, TypeOK, SourceTypeOK
  <2>2. \A i \in DOMAIN log : log[i].op # "d" => ChangeRecord(i, log[i]).row = log[i].row
    BY RecordFields DEF ImageRow
  <2>3. ASSUME NEW e \in kept
        PROVE  \E i \in DOMAIN log :
                 /\ e = ChangeRecord(i, log[i]) /\ log[i].op # "d" /\ log[i].row = r
                 /\ \A j \in DOMAIN log : KeyOf[log[j].row] = KeyOf[r] => j <= i
    <3>1. e \in Compact(Stream(log)) /\ e.row = r
      OBVIOUS
    <3>2. PICK i \in DOMAIN log :
             /\ e = ChangeRecord(i, log[i]) /\ log[i].op # "d"
             /\ \A j \in DOMAIN log : KeyOf[log[j].row] = KeyOf[log[i].row] => j <= i
      BY <3>1, CompactElements
    <3> QED BY <2>2, <3>1, <3>2
  <2>4. Bootstrapped(r) = IF kept = {} THEN Absent ELSE (CHOOSE e \in kept : TRUE).val
    BY DEF Bootstrapped
  <2>5. CASE LastOfItsKey(r)
    <3>1. PICK i \in DOMAIN log :
            log[i].row = r /\ \A j \in DOMAIN log : KeyOf[log[j].row] = KeyOf[r] => j <= i
      BY <2>5 DEF LastOfItsKey
    <3>2. i \in ChangesTo(r) /\ i \in Nat /\ \A j \in ChangesTo(r) : j <= i
      BY <2>1, <3>1 DEF ChangesTo
    <3>3. table[r] = log[i].val
      <4>1. PICK m \in ChangesTo(r) : IsLast(m, ChangesTo(r)) /\ table[r] = log[m].val
        BY <2>1, <3>2 DEF TableIsLastChange
      <4>2. m <= i /\ i <= m /\ m \in Nat
        BY <2>1, <3>2, <4>1 DEF IsLast, ChangesTo
      <4>3. m = i
        BY <3>2, <4>2
      <4> QED BY <4>1, <4>3
    <3>4. ASSUME NEW e \in kept PROVE e.val = log[i].val /\ log[i].op # "d"
      <4>1. PICK k \in DOMAIN log :
               /\ e = ChangeRecord(k, log[k]) /\ log[k].op # "d" /\ log[k].row = r
               /\ \A j \in DOMAIN log : KeyOf[log[j].row] = KeyOf[r] => j <= k
        BY <2>3
      <4>2. k <= i /\ i <= k /\ k \in Nat
        BY <2>1, <3>1, <4>1
      <4>3. k = i
        BY <3>2, <4>2
      <4> QED BY <4>1, <4>3, RecordFields
    <3>5. CASE log[i].op = "d"
      <4>1. kept = {}
        BY <3>4, <3>5
      <4> QED BY <2>1, <2>4, <2>5, <3>3, <3>5, <4>1 DEF DeletesAreEmpty
    <3>6. CASE log[i].op # "d"
      <4>1. ChangeRecord(i, log[i]) \in Compact(Stream(log))
        BY <3>1, <3>6, CompactElements
      <4>2. ChangeRecord(i, log[i]) \in kept
        BY <2>2, <3>1, <3>6, <4>1
      <4>3. (CHOOSE e \in kept : TRUE) \in kept /\ kept # {}
        BY <4>2
      <4> HIDE DEF kept
      <4>4. (CHOOSE e \in kept : TRUE).val = log[i].val
        BY <3>4, <4>3
      <4> QED BY <2>4, <2>5, <3>3, <4>3, <4>4
    <3> QED BY <3>5, <3>6
  <2>6. CASE ~LastOfItsKey(r)
    <3>1. kept = {}
      BY <2>3, <2>6 DEF LastOfItsKey
    <3> QED BY <2>4, <2>6, <3>1
  <2> QED BY <2>5, <2>6
<1> QED BY BaseHolds, <1>1, PTL

-----------------------------------------------------------------------------
(* What tombstones remove under a key that names one row.                   *)

\* Delivered changes whose image does not say which row it was, and those of
\* them whose tombstone has been delivered too.
Unkeyed ==
  {i \in DOMAIN log :
     ChangeRecord(i, log[i]) \in delivered /\ Slot(ChangeRecord(i, log[i])) = Absent}

Rescued == {i \in Unkeyed : TombstoneRecord(i, log[i]) \in delivered}

\* Each such change is counted, and a tombstone removes one row at most for it.
RescueInv ==
  /\ counters["changes_with_no_merge_key"] = Cardinality(Unkeyed)
  /\ counters["rows_removed_by_tombstones"] <= Cardinality(Rescued)
  /\ counters["rows_kept_from_a_stale_tombstone"] = 0

LEMMA RescueFinite ==
  ASSUME TypeOK
  PROVE  /\ IsFiniteSet(Unkeyed) /\ IsFiniteSet(Rescued)
         /\ Cardinality(Unkeyed) \in Nat /\ Cardinality(Rescued) \in Nat
         /\ Cardinality(Rescued) <= Cardinality(Unkeyed)
<1>1. Unkeyed \in SUBSET (1..Len(log)) /\ Len(log) \in Nat
  BY DEF Unkeyed, TypeOK, SourceTypeOK
<1>2. IsFiniteSet(1..Len(log))
  BY <1>1, FS_Interval
<1>3. IsFiniteSet(Unkeyed)
  BY <1>1, <1>2, FS_Subset
<1>4. Rescued \in SUBSET Unkeyed
  BY DEF Rescued
<1> QED BY <1>3, <1>4, FS_Subset, FS_CardinalityType

\* What one delivered record adds to the two sets.
LEMMA RescueGrows ==
  ASSUME Base, NEW i \in DOMAIN log, NEW e, Deliver(e), log' = log,
         e = ChangeRecord(i, log[i]) \/ e = TombstoneRecord(i, log[i])
  PROVE  /\ ~e.tomb /\ Slot(e) = Absent => Unkeyed' = Unkeyed \cup {i} /\ i \notin Unkeyed
         /\ e.tomb \/ Slot(e) # Absent => Unkeyed' = Unkeyed
         /\ e.tomb /\ i \in Unkeyed => Rescued' = Rescued \cup {i} /\ i \notin Rescued
         /\ Rescued \subseteq Rescued'
<1>1. delivered' = delivered \cup {e} /\ e \notin delivered
  BY DEF Deliver, Deliverable
<1>2. \A j \in DOMAIN log : ChangeRecord(j, log[j]) = e <=> ~e.tomb /\ j = i
  BY RecordFields
<1>3. \A j \in DOMAIN log : TombstoneRecord(j, log[j]) = e <=> e.tomb /\ j = i
  BY RecordFields
<1>4. Unkeyed' = {j \in DOMAIN log :
                    /\ ChangeRecord(j, log[j]) \in delivered \/ (~e.tomb /\ j = i)
                    /\ Slot(ChangeRecord(j, log[j])) = Absent}
  BY <1>1, <1>2 DEF Unkeyed
<1>5. Rescued' = {j \in Unkeyed' :
                    TombstoneRecord(j, log[j]) \in delivered \/ (e.tomb /\ j = i)}
  BY <1>1, <1>3 DEF Rescued, Unkeyed
<1>6. ~e.tomb => e = ChangeRecord(i, log[i])
  BY RecordFields
<1>7. e.tomb => e = TombstoneRecord(i, log[i])
  BY RecordFields
<1>8. ~e.tomb /\ Slot(e) = Absent => Unkeyed' = Unkeyed \cup {i} /\ i \notin Unkeyed
  BY <1>1, <1>4, <1>6 DEF Unkeyed
<1>9. e.tomb \/ Slot(e) # Absent => Unkeyed' = Unkeyed
  BY <1>4, <1>6 DEF Unkeyed
<1>10. Unkeyed \subseteq Unkeyed'
  BY <1>8, <1>9
<1>11. Rescued \subseteq Rescued'
  BY <1>5, <1>10 DEF Rescued
<1>12. e.tomb /\ i \in Unkeyed => Rescued' = Rescued \cup {i} /\ i \notin Rescued
  BY <1>1, <1>5, <1>7, <1>9 DEF Rescued
<1> QED BY <1>8, <1>9, <1>11, <1>12

\* In its partition's order a tombstone comes right behind its own delete, so the
\* one slot of its key shows that delete, unless the delete named no slot.
LEMMA TombstoneMeetsDelete ==
  ASSUME Inv, Order = "interleave", OneSlotPerKey, NEW i \in DOMAIN log, log[i].op = "d",
         Deliverable(TombstoneRecord(i, log[i]))
  PROVE  LET s == SlotOf(log[i].row) IN
         /\ underKey[KeyOf[log[i].row]] \subseteq {s}
         /\ watermark[s] <= log[i].lsn
         /\ i \notin Unkeyed => underKey[KeyOf[log[i].row]] = {}
<1> DEFINE e == TombstoneRecord(i, log[i])
           d == ChangeRecord(i, log[i])
           s == SlotOf(log[i].row)
<1>1. /\ TypeOK /\ PartitionClosed /\ IndexExact /\ LogOrdered /\ DeletesAreEmpty
      /\ \A t \in Slots : SlotLatest(t)
      /\ \A j \in DOMAIN log : j \in Nat /\ log[j] \in Changes /\ log[j].lsn \in Nat
  <2>1. TypeOK /\ \A t \in Slots : SlotLatest(t)
    BY LatestWinsBySlot DEF Inv, Marked, Base
  <2>2. \A j \in DOMAIN log : j \in Nat /\ log[j] \in Changes
    BY <2>1 DEF TypeOK, SourceTypeOK
  <2>3. \A c \in Changes : c.lsn \in Nat
    BY DEF Changes
  <2> QED BY <2>1, <2>2, <2>3 DEF Inv, Marked, Base, LogInv
<1>2. /\ s \in Slots /\ KeyOfSlot(s) = KeyOf[log[i].row] /\ KeyOf[log[i].row] \in Keys
      /\ log[i].row \in Rows
  BY <1>1, SlotFacts DEF Changes
<1>3. /\ e \notin delivered /\ e.at = i /\ e.key = KeyOf[log[i].row] /\ e.tomb
      /\ d \in Stream(log) /\ e \in Stream(log) /\ d.at = i /\ d.key = e.key /\ ~d.tomb
  BY StreamElements, RecordFields DEF Deliverable
<1>4. d \in delivered
  BY <1>1, <1>3 DEF Deliverable, InPartitionOrder, SamePartition, Before
<1>5. ASSUME NEW m \in Applied(s) PROVE m <= i
  <2> DEFINE f == ChangeRecord(m, log[m])
  <2>1. m \in DOMAIN log /\ f \in delivered /\ Slot(f) = s /\ f.at = m
    BY RecordFields DEF Applied
  <2>2. f.key = e.key
    BY <1>1, <1>2, <1>3, <2>1, AbsentIsNoSlot, AddressedSlot
  <2>3. ~(i < m)
    BY <1>1, <1>3, <2>1, <2>2 DEF PartitionClosed, SamePartition, Before
  <2> QED BY <1>1, <2>1, <2>3
<1>6. underKey[KeyOf[log[i].row]] \subseteq {s}
  <2>1. ASSUME NEW t \in Slots, KeyOfSlot(t) = KeyOf[log[i].row] PROVE t = s
    BY <1>2, <2>1 DEF OneSlotPerKey, KeyOfSlot, SlotOf, Slots
  <2> QED BY <1>1, <1>2, <2>1 DEF IndexExact
<1>7. watermark[s] <= log[i].lsn
  <2>1. CASE watermark[s] = 0
    BY <1>1, <2>1
  <2>2. CASE watermark[s] # 0
    <3>1. PICK m \in Applied(s) : watermark[s] = log[m].lsn
      BY <1>1, <1>2, <2>2 DEF SlotLatest
    <3>2. m \in DOMAIN log /\ m <= i
      BY <1>5 DEF Applied
    <3> QED BY <1>1, <3>1, <3>2 DEF LogOrdered
  <2> QED BY <2>1, <2>2
<1>8. ASSUME i \notin Unkeyed PROVE underKey[KeyOf[log[i].row]] = {}
  <2>1. Slot(d) # Absent
    BY <1>4, <1>8 DEF Unkeyed
  <2>2. Slot(d) = s
    BY <1>1, <2>1, AddressedSlot
  <2>3. i \in Applied(s)
    BY <1>4, <2>2 DEF Applied
  <2>4. PICK m \in Applied(s) : IsLast(m, Applied(s)) /\ (rows[s] = log[m].val \/ rows[s] = Absent)
    BY <1>1, <1>2, <2>3 DEF SlotLatest
  <2>5. m <= i /\ i <= m /\ m \in Nat
    BY <1>1, <1>5, <2>3, <2>4 DEF IsLast, Applied
  <2>6. m = i
    BY <1>1, <2>5
  <2>7. rows[s] = Absent
    BY <1>1, <2>4, <2>6 DEF DeletesAreEmpty
  <2>8. s \notin underKey[KeyOf[log[i].row]]
    BY <1>1, <1>2, <2>7 DEF IndexExact
  <2> QED BY <1>6, <2>8
<1> QED BY <1>6, <1>7, <1>8

LEMMA RescueStep ==
  ASSUME Inv, RescueInv, Order = "interleave", OneSlotPerKey, [Next]_vars
  PROVE  RescueInv'
<1>1. TypeOK /\ Base /\ counters \in [CounterNames -> Nat]
  BY DEF Inv, Marked, Base, TypeOK
<1>2. /\ Cardinality(Unkeyed) \in Nat /\ Cardinality(Rescued) \in Nat
      /\ IsFiniteSet(Unkeyed) /\ IsFiniteSet(Rescued)
  BY <1>1, RescueFinite
<1>3. CASE UNCHANGED vars
  BY <1>3 DEF RescueInv, Unkeyed, Rescued, vars
<1>4. CASE Produce
  <2>1. /\ SourceTypeOK /\ LogInv /\ SourceNext
        /\ delivered' = delivered /\ counters' = counters
    BY <1>1, <1>4 DEF TypeOK, Base, Produce, consumerVars
  <2>2. /\ \A i \in DOMAIN log : log'[i] = log[i]
        /\ DOMAIN log' = 1..(Len(log) + 1) /\ DOMAIN log = 1..Len(log) /\ Len(log) \in Nat
    BY <2>1, LogGrows DEF SourceTypeOK
  <2>3. \A f \in delivered : f.at \in DOMAIN log
    BY <1>1, <2>1, <2>2, StreamGrows DEF TypeOK
  <2>4. \A i \in DOMAIN log' : ChangeRecord(i, log'[i]) \in delivered => i \in DOMAIN log
    BY <2>3, RecordFields
  <2>5. Unkeyed' = Unkeyed
    BY <2>1, <2>2, <2>4 DEF Unkeyed
  <2>6. Rescued' = Rescued
    BY <2>1, <2>2, <2>5 DEF Rescued, Unkeyed
  <2> QED BY <2>1, <2>5, <2>6 DEF RescueInv
<1>5. CASE Consume
  <2>1. PICK e \in Stream(log) : Deliver(e) /\ log' = log
    BY <1>5 DEF Consume, sourceVars
  <2>2. PICK i \in DOMAIN log : \/ e = ChangeRecord(i, log[i])
                                \/ log[i].op = "d" /\ e = TombstoneRecord(i, log[i])
    BY StreamElements
  <2>3. /\ ~e.tomb /\ Slot(e) = Absent => Unkeyed' = Unkeyed \cup {i} /\ i \notin Unkeyed
        /\ e.tomb \/ Slot(e) # Absent => Unkeyed' = Unkeyed
        /\ e.tomb /\ i \in Unkeyed => Rescued' = Rescued \cup {i} /\ i \notin Rescued
        /\ Rescued \subseteq Rescued'
    BY <1>1, <2>1, <2>2, RescueGrows
  <2>4. IsFiniteSet(Unkeyed') /\ Rescued' \in SUBSET Unkeyed'
    BY <1>2, <2>3, FS_AddElement DEF Rescued
  <2>5. IsFiniteSet(Rescued') /\ Cardinality(Rescued') \in Nat
    BY <2>4, FS_Subset, FS_CardinalityType
  <2>6. Cardinality(Rescued) <= Cardinality(Rescued')
    BY <2>3, <2>5, FS_Subset
  <2> HIDE DEF Unkeyed, Rescued
  <2>7. CASE IgnoreTombstone(e)
    BY <1>2, <1>1, <2>3, <2>5, <2>6, <2>7 DEF RescueInv, IgnoreTombstone, CounterNames
  <2>8. CASE DropStale(e) \/ ApplyDelete(e) \/ ApplyUpsert(e)
    <3>1. /\ counters'["changes_with_no_merge_key"] = counters["changes_with_no_merge_key"]
          /\ counters'["rows_removed_by_tombstones"] = counters["rows_removed_by_tombstones"]
          /\ counters'["rows_kept_from_a_stale_tombstone"] = counters["rows_kept_from_a_stale_tombstone"]
          /\ Slot(e) # Absent
      BY <1>1, <2>8 DEF DropStale, ApplyDelete, ApplyUpsert, Current, Bump, CounterNames
    <3>2. counters["rows_removed_by_tombstones"] \in Nat
      BY <1>1 DEF CounterNames
    <3> QED BY <1>2, <2>3, <2>5, <2>6, <3>1, <3>2 DEF RescueInv
  <2>9. CASE NoMergeKey(e)
    <3>1. /\ counters'["changes_with_no_merge_key"] = counters["changes_with_no_merge_key"] + 1
          /\ counters'["rows_removed_by_tombstones"] = counters["rows_removed_by_tombstones"]
          /\ counters'["rows_kept_from_a_stale_tombstone"] = counters["rows_kept_from_a_stale_tombstone"]
          /\ Slot(e) = Absent /\ ~e.tomb
      BY <1>1, <2>9 DEF NoMergeKey, Bump, CounterNames
    <3>2. counters["rows_removed_by_tombstones"] \in Nat
      BY <1>1 DEF CounterNames
    <3>3. Cardinality(Unkeyed') = Cardinality(Unkeyed) + 1
      BY <1>2, <2>3, <3>1, FS_AddElement
    <3> QED BY <1>2, <2>5, <2>6, <3>1, <3>2, <3>3 DEF RescueInv
  <2>10. CASE ApplyTombstone(e)
    <3> DEFINE s == SlotOf(log[i].row)
               held == underKey[e.key]
               kept == {t \in held : Guard /\ watermark[t] > e.lsn}
               gone == {t \in held \ kept : rows[t] # Absent}
    <3>1. /\ e.tomb
          /\ counters' =
               [counters EXCEPT !["rows_kept_from_a_stale_tombstone"] = @ + Cardinality(kept),
                                !["rows_removed_by_tombstones"] = @ + Cardinality(gone)]
      BY <2>10 DEF ApplyTombstone
    <3>2. /\ counters'["changes_with_no_merge_key"] = counters["changes_with_no_merge_key"]
          /\ counters'["rows_removed_by_tombstones"]
               = counters["rows_removed_by_tombstones"] + Cardinality(gone)
          /\ counters'["rows_kept_from_a_stale_tombstone"]
               = counters["rows_kept_from_a_stale_tombstone"] + Cardinality(kept)
      BY <1>1, <3>1 DEF CounterNames
    <3>3. e = TombstoneRecord(i, log[i]) /\ log[i].op = "d" /\ e.key = KeyOf[log[i].row]
          /\ e.lsn = log[i].lsn
      BY <2>2, <3>1, RecordFields
    <3>4. Deliverable(e)
      BY <2>1 DEF Deliver
    <3>5. held \subseteq {s} /\ watermark[s] <= e.lsn /\ (i \notin Unkeyed => held = {})
      BY <3>3, <3>4, TombstoneMeetsDelete
    <3>6. watermark[s] \in Nat /\ e.lsn \in Nat
      <4>1. log[i] \in Changes
        BY <1>1 DEF TypeOK, SourceTypeOK
      <4>2. s \in Slots /\ log[i].lsn \in Nat
        BY <4>1, SlotFacts DEF Changes
      <4> QED BY <1>1, <3>3, <4>2 DEF TypeOK
    <3>7. kept = {}
      BY <3>5, <3>6
    <3>8. Cardinality(kept) = 0
      BY <3>7, FS_EmptySet
    <3>9. CASE gone = {}
      <4>1. Cardinality(gone) = 0
        BY <3>9, FS_EmptySet
      <4>2. counters["rows_removed_by_tombstones"] \in Nat
        BY <1>1 DEF CounterNames
      <4> HIDE DEF gone, kept
      <4> QED BY <1>2, <2>3, <2>5, <2>6, <3>1, <3>2, <3>8, <4>1, <4>2 DEF RescueInv
    <3>10. CASE gone # {}
      <4>1. gone = {s} /\ i \in Unkeyed
        BY <3>5, <3>10
      <4>2. Cardinality(gone) = 1
        BY <4>1, FS_Singleton
      <4>3. Cardinality(Rescued') = Cardinality(Rescued) + 1
        BY <1>2, <2>3, <3>1, <4>1, FS_AddElement
      <4>4. counters["rows_removed_by_tombstones"] \in Nat
        BY <1>1 DEF CounterNames
      <4> HIDE DEF gone, kept
      <4> QED BY <1>2, <2>3, <3>1, <3>2, <3>8, <4>2, <4>3, <4>4 DEF RescueInv
    <3> QED BY <3>9, <3>10
  <2> QED BY <2>1, <2>7, <2>8, <2>9, <2>10 DEF Deliver, ApplyEvent
<1> QED BY <1>3, <1>4, <1>5 DEF Next

\* With partitions in order and a key per row a tombstone is framing: it never
\* meets a row that moved past it, and removes a row only for a delete that could
\* not, so the two counts of apply_events are tied to each other.
THEOREM TombstonesOnlyRescue ==
  Order = "interleave" /\ OneSlotPerKey => (Spec => []TombstoneOnlyRescues)
<1> SUFFICES ASSUME Order = "interleave", OneSlotPerKey PROVE Spec => []TombstoneOnlyRescues
  OBVIOUS
<1>1. OrderIsEnough /\ KeyIsEnough
  BY DEF OrderIsEnough, KeyIsEnough
<1>2. Spec => []Inv
  BY <1>1, Invariance
<1>3. Init => RescueInv
  <2> SUFFICES ASSUME Init PROVE RescueInv
    OBVIOUS
  <2>1. Unkeyed = {} /\ Rescued = {}
    BY DEF Init, SourceInit, Unkeyed, Rescued
  <2>2. \A c \in CounterNames : counters[c] = 0
    BY DEF Init, ConsumerInit
  <2> QED BY <2>1, <2>2, FS_EmptySet DEF RescueInv, CounterNames
<1>4. Inv /\ RescueInv /\ [Next]_vars => RescueInv'
  BY RescueStep
<1>5. Inv /\ RescueInv => TombstoneOnlyRescues
  <2> SUFFICES ASSUME Inv, RescueInv PROVE TombstoneOnlyRescues
    OBVIOUS
  <2>1. /\ Cardinality(Rescued) <= Cardinality(Unkeyed)
        /\ Cardinality(Rescued) \in Nat /\ Cardinality(Unkeyed) \in Nat
        /\ counters["rows_removed_by_tombstones"] \in Nat
    BY RescueFinite DEF Inv, Marked, Base, TypeOK, CounterNames
  <2> QED BY <2>1 DEF RescueInv, TombstoneOnlyRescues
<1> QED BY <1>2, <1>3, <1>4, <1>5, PTL DEF Spec

EveryChangeKeyed == counters["changes_with_no_merge_key"] = 0

NoTombstoneRemoves == counters["rows_removed_by_tombstones"] = 0

\* Where besides every delete names its row, no tombstone ever removes one: "under
\* Debezium's default key the tombstone removes zero rows" (docs/design-notes.md).
THEOREM TombstonesRemoveNothing ==
  Order = "interleave" /\ OneSlotPerKey /\ NarrowRows = {}
    => (Spec => []NoTombstoneRemoves)
<1> SUFFICES ASSUME Order = "interleave", OneSlotPerKey, NarrowRows = {}
             PROVE  Spec => []NoTombstoneRemoves
  OBVIOUS
<1>1. OrderIsEnough /\ KeyIsEnough
  BY DEF OrderIsEnough, KeyIsEnough
<1>2. Spec => []Inv
  BY <1>1, Invariance
<1>3. Init => EveryChangeKeyed
  BY DEF Init, ConsumerInit, CounterNames, EveryChangeKeyed
<1>4. Inv /\ EveryChangeKeyed /\ [Next]_vars => EveryChangeKeyed'
  <2> SUFFICES ASSUME Inv, counters["changes_with_no_merge_key"] = 0, [Next]_vars
               PROVE  counters'["changes_with_no_merge_key"] = 0
    BY DEF EveryChangeKeyed
  <2>1. TypeOK /\ counters \in [CounterNames -> Nat]
    BY DEF Inv, Marked, Base, TypeOK
  <2>2. CASE Produce \/ UNCHANGED vars
    BY <2>2 DEF Produce, consumerVars, vars
  <2>3. CASE Consume
    <3>1. PICK e \in Stream(log) : ApplyEvent(e)
      BY <2>3 DEF Consume, Deliver
    <3>2. ~NoMergeKey(e)
      <4> SUFFICES ASSUME NoMergeKey(e) PROVE FALSE
        OBVIOUS
      <4>1. PICK i \in DOMAIN log : e = ChangeRecord(i, log[i])
        BY StreamElements, RecordFields DEF NoMergeKey
      <4>2. log[i] \in Changes
        BY <2>1 DEF TypeOK, SourceTypeOK
      <4> QED BY <4>1, <4>2, SlotFacts DEF NoMergeKey
    <3> QED BY <2>1, <3>1, <3>2 DEF ApplyEvent, IgnoreTombstone, ApplyTombstone, DropStale,
             ApplyDelete, ApplyUpsert, Bump, CounterNames
  <2> QED BY <2>2, <2>3 DEF Next
<1>5. Inv /\ EveryChangeKeyed /\ TombstoneOnlyRescues => NoTombstoneRemoves
  <2> SUFFICES ASSUME Inv, counters["changes_with_no_merge_key"] = 0, TombstoneOnlyRescues
               PROVE  counters["rows_removed_by_tombstones"] = 0
    BY DEF EveryChangeKeyed, NoTombstoneRemoves
  <2>1. counters["rows_removed_by_tombstones"] \in Nat
    BY DEF Inv, Marked, Base, TypeOK, CounterNames
  <2> QED BY <2>1 DEF TombstoneOnlyRescues
<1>6. Spec => []TombstoneOnlyRescues
  BY TombstonesOnlyRescue
<1> QED BY <1>2, <1>3, <1>4, <1>5, <1>6, PTL DEF Spec

-----------------------------------------------------------------------------
(* What tombstones remove under a key that names several rows.              *)

\* A tombstone of the slot's record key, whichever of the key's rows it is of, and
\* produced no earlier than change i.
KeyTombstonedSince(s, i) ==
  \E e \in delivered : e.tomb /\ e.at >= i /\ e.key = KeyOfSlot(s)

\* LatestWins as far as keys of several rows let it hold.
SlotHeld(s) ==
  \/ Applied(s) = {} /\ watermark[s] = 0 /\ rows[s] = Absent
  \/ \E i \in Applied(s) :
       /\ IsLast(i, Applied(s))
       /\ watermark[s] = log[i].lsn
       /\ rows[s] = log[i].val \/ (rows[s] = Absent /\ KeyTombstonedSince(s, i))

Held == \A s \in Slots : SlotHeld(s)

\* A step that leaves a slot's changes, mark and image alone.
LEMMA HeldUntouched ==
  ASSUME NEW s \in Slots, SlotHeld(s), \A i \in Applied(s) : log'[i] = log[i],
         delivered \subseteq delivered',
         Applied(s)' = Applied(s), watermark'[s] = watermark[s], rows'[s] = rows[s]
  PROVE  SlotHeld(s)'
<1>1. \A i : KeyTombstonedSince(s, i) => KeyTombstonedSince(s, i)'
  BY DEF KeyTombstonedSince, KeyOfSlot
<1> QED BY <1>1 DEF SlotHeld, IsLast

LEMMA ChangeKeepsHeld ==
  ASSUME Marked, Held, OrderIsEnough, NEW i \in DOMAIN log,
         Deliver(ChangeRecord(i, log[i])), UNCHANGED sourceVars
  PROVE  Held'
<1> DEFINE e == ChangeRecord(i, log[i])
<1>1. TypeOK /\ DeletesAreEmpty /\ \A s \in Slots : SlotHeld(s)
  BY DEF Marked, Base, LogInv, Held
<1>2. /\ log' = log /\ delivered' = delivered \cup {e} /\ Deliverable(e)
      /\ e \in Stream(log) /\ ~e.tomb /\ e.at = i
  BY StreamElements, RecordFields DEF Deliver, sourceVars
<1>3. \A s \in Slots : Applied(s)' = IF Slot(e) = s THEN Applied(s) \cup {i} ELSE Applied(s)
  BY <1>1, <1>2, AppliedGrows
<1> SUFFICES ASSUME NEW s \in Slots PROVE SlotHeld(s)'
  BY DEF Held
<1>4. CASE Slot(e) # s
  <2>1. watermark'[s] = watermark[s] /\ rows'[s] = rows[s]
    BY <1>1, <1>2, <1>4 DEF Deliver, ApplyEvent, IgnoreTombstone, ApplyTombstone, NoMergeKey,
         DropStale, ApplyDelete, ApplyUpsert, TypeOK
  <2> QED BY <1>1, <1>2, <1>3, <1>4, <2>1, HeldUntouched
<1>5. CASE Slot(e) = s
  <2>1. s # Absent /\ i \in Nat /\ \A j \in Applied(s) : j \in Nat
    BY <1>1, AbsentIsNoSlot DEF TypeOK, SourceTypeOK, Applied
  <2>2. CASE DropStale(e)
    <3>1. Stale(e) /\ rows' = rows /\ watermark' = watermark
      BY <2>2 DEF DropStale
    <3>2. PICK m \in Applied(s) : IsLast(m, Applied(s)) /\ m > i
      BY <1>5, <2>1, <3>1, StaleIsOlder
    <3>3. IsLast(m, Applied(s))'
      BY <1>3, <1>5, <2>1, <3>2 DEF IsLast
    <3>4. \A n \in Applied(s) : IsLast(n, Applied(s)) => n = m
      BY <2>1, <3>2 DEF IsLast
    <3>5. /\ watermark[s] = log[m].lsn
          /\ rows[s] = log[m].val \/ (rows[s] = Absent /\ KeyTombstonedSince(s, m))
      BY <1>1, <3>2, <3>4 DEF SlotHeld
    <3>6. KeyTombstonedSince(s, m) => KeyTombstonedSince(s, m)'
      BY <1>2 DEF KeyTombstonedSince, KeyOfSlot
    <3> QED BY <1>2, <3>1, <3>3, <3>5, <3>6 DEF SlotHeld, IsLast
  <2>3. CASE ApplyDelete(e) \/ ApplyUpsert(e)
    <3>1. ~Stale(e)
      BY <2>3 DEF ApplyDelete, ApplyUpsert, Current
    <3>2. \A j \in Applied(s) : j < i
      BY <1>2, <1>5, <2>1, <3>1, CurrentIsNewest
    <3>3. i \in Applied(s)' /\ IsLast(i, Applied(s))'
      BY <1>3, <1>5, <2>1, <3>2 DEF IsLast
    <3>4. watermark'[s] = log[i].lsn
      BY <1>1, <1>5, <2>3, RecordFields DEF ApplyDelete, ApplyUpsert, TypeOK
    <3>5. rows'[s] = log[i].val
      <4>1. CASE ApplyDelete(e)
        BY <1>1, <1>5, <4>1, RecordFields DEF ApplyDelete, TypeOK, DeletesAreEmpty
      <4>2. CASE ApplyUpsert(e)
        BY <1>1, <1>5, <4>2, RecordFields DEF ApplyUpsert, TypeOK
      <4> QED BY <2>3, <4>1, <4>2
    <3> QED BY <1>2, <3>3, <3>4, <3>5 DEF SlotHeld
  <2> QED BY <1>2, <1>5, <2>1, <2>2, <2>3
          DEF Deliver, ApplyEvent, IgnoreTombstone, ApplyTombstone, NoMergeKey
<1> QED BY <1>4, <1>5

\* A tombstone removes a row only from behind: the row's last change is the delete
\* it frames, of a sibling or its own, or was produced before it.
LEMMA TombstoneKeepsHeld ==
  ASSUME Marked, Held, OrderIsEnough, NEW i \in DOMAIN log,
         Deliver(TombstoneRecord(i, log[i])), log[i].op = "d", UNCHANGED sourceVars
  PROVE  Held'
<1> DEFINE e == TombstoneRecord(i, log[i])
<1>1. /\ TypeOK /\ PartitionClosed /\ IndexExact /\ LogOrdered
      /\ \A s \in Slots : SlotHeld(s)
  BY DEF Marked, Base, LogInv, Held
<1>2. /\ log' = log /\ delivered' = delivered \cup {e} /\ e \notin delivered
      /\ e \in Stream(log) /\ e.tomb /\ e.at = i /\ e.lsn = log[i].lsn
      /\ e.key = KeyOf[log[i].row] /\ log[i] \in Changes
  BY <1>1, StreamElements, RecordFields DEF Deliver, Deliverable, sourceVars, TypeOK, SourceTypeOK
<1>3. \A s \in Slots : Applied(s)' = Applied(s)
  BY <1>1, <1>2, AppliedGrows
<1>4. watermark' = watermark
  BY <1>2 DEF Deliver, ApplyEvent, IgnoreTombstone, ApplyTombstone, NoMergeKey, DropStale,
       ApplyDelete, ApplyUpsert, Current
<1> SUFFICES ASSUME NEW s \in Slots PROVE SlotHeld(s)'
  BY DEF Held
<1>5. CASE rows'[s] = rows[s]
  BY <1>1, <1>2, <1>3, <1>4, <1>5, HeldUntouched
<1>6. CASE rows'[s] # rows[s]
  <2>1. /\ OnTombstone = "delete" /\ s \in underKey[e.key] /\ rows'[s] = Absent
        /\ ~(Guard /\ watermark[s] > e.lsn)
    BY <1>1, <1>2, <1>6 DEF Deliver, ApplyEvent, IgnoreTombstone, ApplyTombstone, NoMergeKey,
         DropStale, ApplyDelete, ApplyUpsert, Current, TypeOK
  <2>2. rows[s] # Absent /\ KeyOfSlot(s) = e.key
    BY <1>1, <1>2, <2>1, SlotFacts DEF IndexExact
  <2>3. PICK m \in Applied(s) : IsLast(m, Applied(s)) /\ watermark[s] = log[m].lsn
    BY <1>1, <2>2 DEF SlotHeld
  <2>4. /\ m \in DOMAIN log /\ m \in Nat /\ i \in Nat /\ log[m] \in Changes
        /\ ChangeRecord(m, log[m]) \in delivered /\ Slot(ChangeRecord(m, log[m])) = s
    BY <1>1 DEF Applied, TypeOK, SourceTypeOK
  <2>5. ~(i < m)
    <3>1. CASE Order = "interleave"
      <4>1. ChangeRecord(m, log[m]).key = e.key
        BY <1>1, <2>2, <2>4, AbsentIsNoSlot, AddressedSlot
      <4>2. ChangeRecord(m, log[m]).at = m
        BY RecordFields
      <4> QED BY <1>1, <1>2, <2>4, <3>1, <4>1, <4>2 DEF PartitionClosed, SamePartition, Before
    <3>2. CASE Guard /\ ~Ties
      <4>1. watermark[s] \in Nat /\ log[i].lsn \in Nat
        BY <1>1, <1>2 DEF TypeOK, Changes
      <4>2. log[m].lsn <= log[i].lsn /\ log[m].lsn \in Nat
        BY <1>2, <2>1, <2>3, <3>2, <4>1
      <4> QED BY <1>1, <2>4, <3>2, <4>1, <4>2 DEF LogOrdered
    <3> QED BY <3>1, <3>2 DEF OrderIsEnough
  <2>6. KeyTombstonedSince(s, m)'
    <3>1. e \in delivered' /\ e.tomb /\ e.at >= m /\ e.key = KeyOfSlot(s)
      BY <1>2, <2>2, <2>4, <2>5
    <3> HIDE DEF e
    <3>2. \E f \in delivered' : f.tomb /\ f.at >= m /\ f.key = KeyOfSlot(s)
      BY <3>1
    <3> QED BY <3>2 DEF KeyTombstonedSince, KeyOfSlot
  <2>7. m \in Applied(s)' /\ IsLast(m, Applied(s))'
    BY <1>3, <2>3 DEF IsLast
  <2> QED BY <1>2, <1>4, <2>1, <2>3, <2>6, <2>7 DEF SlotHeld
<1> QED BY <1>5, <1>6

LEMMA HeldStep == Marked /\ Held /\ OrderIsEnough /\ [Next]_vars => Held'
<1> SUFFICES ASSUME Marked, Held, OrderIsEnough, [Next]_vars PROVE Held'
  OBVIOUS
<1>1. CASE UNCHANGED vars
  <2>1. \A s \in Slots : Applied(s)' = Applied(s)
    BY <1>1 DEF vars, Applied
  <2> QED BY <1>1, <2>1, HeldUntouched DEF vars, Held
<1>2. CASE Produce
  <2>1. TypeOK /\ LogInv
    BY DEF Marked, Base
  <2>2. /\ \A s : Applied(s)' = Applied(s)
        /\ \A s : \A i \in Applied(s) : log'[i] = log[i]
    BY <1>2, <2>1, ProduceApplies
  <2> QED BY <1>2, <2>2, HeldUntouched DEF Produce, consumerVars, Held
<1>3. CASE Consume
  <2>1. PICK e \in Stream(log) : Deliver(e) /\ UNCHANGED sourceVars
    BY <1>3 DEF Consume
  <2>2. PICK i \in DOMAIN log : \/ e = ChangeRecord(i, log[i])
                                \/ log[i].op = "d" /\ e = TombstoneRecord(i, log[i])
    BY StreamElements
  <2> QED BY <2>1, <2>2, ChangeKeepsHeld, TombstoneKeepsHeld
<1> QED BY <1>1, <1>2, <1>3 DEF Next

LEMMA DrainedHeld ==
  SlotsNameRows /\ NarrowRows = {} /\ Marked /\ Held => OnlySiblingTombstonesLoseRows
<1> SUFFICES ASSUME SlotsNameRows, NarrowRows = {}, Marked, Held, Drained, NEW r \in Rows,
                    rows[SlotOf(r)] # table[r]
             PROVE  /\ rows[SlotOf(r)] = Absent
                    /\ \E e \in delivered :
                         /\ e.tomb /\ e.key = KeyOf[r] /\ log[e.at].row # r
                         /\ e.lsn >= watermark[SlotOf(r)]
  BY DEF OnlySiblingTombstonesLoseRows
<1> DEFINE s == SlotOf(r)
<1>1. /\ TypeOK /\ TableIsLastChange /\ LogOrdered /\ DeletesAreEmpty
      /\ \A i \in DOMAIN log : log[i] \in Changes /\ i \in Nat
  BY DEF Marked, Base, LogInv, TypeOK, SourceTypeOK
<1>2. s \in Slots /\ KeyOfSlot(s) = KeyOf[r]
  BY EventsAssumption DEF EventsAssumption, SlotOf, Slots, KeyOfSlot
<1>3. Applied(s) = ChangesTo(r)
  <2>1. \A i \in DOMAIN log : ChangeRecord(i, log[i]) \in delivered
    BY StreamElements DEF Drained
  <2>2. \A i \in DOMAIN log : Slot(ChangeRecord(i, log[i])) = SlotOf(log[i].row)
    BY <1>1, SlotFacts
  <2>3. \A i \in DOMAIN log : log[i].row \in Rows
    BY <1>1 DEF Changes
  <2> QED BY <2>1, <2>2, <2>3 DEF Applied, ChangesTo, SlotsNameRows
<1>4. ChangesTo(r) # {}
  <2> SUFFICES ASSUME ChangesTo(r) = {} PROVE FALSE
    OBVIOUS
  <2>1. table[r] = Absent /\ rows[s] = Absent
    BY <1>1, <1>2, <1>3 DEF TableIsLastChange, Held, SlotHeld
  <2> QED BY <2>1
<1>5. PICK m \in ChangesTo(r) : IsLast(m, ChangesTo(r)) /\ table[r] = log[m].val
  BY <1>1, <1>4 DEF TableIsLastChange
<1>6. PICK n \in Applied(s) :
        /\ IsLast(n, Applied(s)) /\ watermark[s] = log[n].lsn
        /\ rows[s] = log[n].val \/ (rows[s] = Absent /\ KeyTombstonedSince(s, n))
  BY <1>2, <1>3, <1>4 DEF Held, SlotHeld
<1>7. n = m /\ m \in Nat /\ m \in DOMAIN log
  BY <1>1, <1>3, <1>5, <1>6 DEF IsLast, ChangesTo
<1>8. rows[s] = Absent /\ KeyTombstonedSince(s, m)
  BY <1>5, <1>6, <1>7
<1>9. PICK e \in delivered : e.tomb /\ e.at >= m /\ e.key = KeyOf[r]
  BY <1>2, <1>8 DEF KeyTombstonedSince
<1>10. PICK i \in DOMAIN log : log[i].op = "d" /\ e = TombstoneRecord(i, log[i])
  BY <1>1, <1>9, StreamElements, RecordFields DEF TypeOK
<1>11. e.at = i /\ e.lsn = log[i].lsn
  BY <1>10, RecordFields
<1>12. log[i].row # r
  <2> SUFFICES ASSUME log[i].row = r PROVE FALSE
    OBVIOUS
  <2>1. i \in ChangesTo(r)
    BY DEF ChangesTo
  <2>2. i <= m /\ m <= i
    BY <1>5, <1>9, <1>11, <2>1 DEF IsLast
  <2>3. i = m
    BY <1>1, <1>7, <2>2
  <2> QED BY <1>1, <1>5, <1>8, <1>10, <2>3 DEF DeletesAreEmpty
<1>13. e.lsn >= watermark[s]
  <2>1. \A c \in Changes : c.lsn \in Nat
    BY DEF Changes
  <2>2. log[m].lsn <= log[i].lsn
    BY <1>1, <1>7, <1>9, <1>11 DEF LogOrdered
  <2> QED BY <1>1, <1>6, <1>7, <1>11, <2>1, <2>2
<1> QED BY <1>8, <1>9, <1>11, <1>12, <1>13

\* Where a record key covers several rows, a row is lost to a sibling's tombstone
\* and to nothing else, in every order that is enough (topic_layout_probe's loss).
THEOREM OnlySiblingsLoseRows ==
  OrderIsEnough /\ SlotsNameRows /\ NarrowRows = {}
    => (Spec => []OnlySiblingTombstonesLoseRows)
<1> SUFFICES ASSUME OrderIsEnough, SlotsNameRows, NarrowRows = {}
             PROVE  Spec => []OnlySiblingTombstonesLoseRows
  OBVIOUS
<1>1. Init => Held
  BY DEF Init, SourceInit, ConsumerInit, Held, SlotHeld, Applied
<1>2. Marked /\ Held /\ [Next]_vars => Held'
  BY HeldStep
<1>3. Marked /\ Held => OnlySiblingTombstonesLoseRows
  BY DrainedHeld
<1> QED BY MarkedHolds, <1>1, <1>2, <1>3, PTL DEF Spec

-----------------------------------------------------------------------------
(* The pipeline: the inductive invariant.                                   *)

\* The records delivered and not committed: drained, or in the batch under way.
pending == IF pc = "idle" THEN buffer ELSE batch

Handed == delivered \ InBatch(pending)

TableShows == \A r \in Rows : Shows(db.target[r], Handed, r)

\* A row the consumer does not show although changes of it were delivered: the
\* last of them is a delete, or the table has it deleted, or is about to.
HiddenForAReason ==
  \A r \in Rows : \A i \in Applied(r) :
    IsLast(i, Applied(r)) /\ rows[r] = Absent =>
      \/ log[i].op = "d"
      \/ ChangeRecord(i, log[i]) \in Handed /\ db.target[r].deleted
      \/ /\ OnTombstone = "delete"
         /\ \E t \in InBatch(pending) : t.tomb /\ t.key = KeyOf[r] /\ log[i].lsn <= t.lsn

\* Types, and where the records under way are.
PipelineBase ==
  /\ Base /\ WarehouseInv /\ pc # "down"
  /\ buffer \in Seq(Records) /\ size \in 1..MaxBatch /\ delivery \in Deliveries
  /\ pc # "idle" => buffer = <<>>
  /\ InBatch(pending) \subseteq delivered

PipelineInv == PipelineBase /\ Inv /\ TableShows /\ HiddenForAReason

-----------------------------------------------------------------------------
(* The pipeline: types.                                                     *)

LEMMA PipelineInitInv == PipelineInit => PipelineBase /\ Inv /\ TableShows /\ HiddenForAReason
<1> SUFFICES ASSUME PipelineInit PROVE PipelineBase /\ Inv /\ TableShows /\ HiddenForAReason
  OBVIOUS
<1>1. Inv /\ Base /\ WarehouseInv
  BY InitInv, WarehouseInitInv DEF PipelineInit, Inv, Marked
<1>2. pending = <<>> /\ InBatch(pending) = {}
  BY DEF PipelineInit, WarehouseInit, pending, InBatch
<1>3. PipelineBase
  BY <1>1, <1>2 DEF PipelineBase, PipelineInit, WarehouseInit
<1>4. delivered = {} /\ \A r \in Rows : db.target[r] = Absent
  BY DEF PipelineInit, Init, ConsumerInit, WarehouseInit, EmptyTarget
<1>5. TableShows
  BY <1>4 DEF TableShows, Shows, Handed, ChangesFor
<1>6. HiddenForAReason
  BY <1>4 DEF HiddenForAReason, Applied
<1> QED BY <1>1, <1>3, <1>5, <1>6

\* What each step is to the consumer.
LEMMA StepsOfTheConsumer ==
  ASSUME PipelineNext
  PROVE  [Next]_vars
BY DEF PipelineNext, Commits, Poll, StartBatch, RunStatement, FinishBatch, Next, Consume, vars

LEMMA InAppended ==
  ASSUME NEW b \in Seq(Records), NEW e \in Records
  PROVE  InBatch(Append(b, e)) = InBatch(b) \cup {e} /\ Append(b, e) \in Seq(Records)
<1>1. /\ DOMAIN Append(b, e) = 1..(Len(b) + 1) /\ DOMAIN b = 1..Len(b) /\ Len(b) \in Nat
      /\ \A i \in DOMAIN b : Append(b, e)[i] = b[i]
      /\ Append(b, e)[Len(b) + 1] = e
  OBVIOUS
<1>2. \A x : x \in InBatch(Append(b, e)) <=> x \in InBatch(b) \cup {e}
  <2>1. \A x \in InBatch(Append(b, e)) : x \in InBatch(b) \cup {e}
    BY <1>1 DEF InBatch
  <2>2. InBatch(b) \subseteq InBatch(Append(b, e))
    BY <1>1 DEF InBatch
  <2>3. e \in InBatch(Append(b, e))
    BY <1>1 DEF InBatch
  <2> QED BY <2>1, <2>2, <2>3
<1> QED BY <1>2

LEMMA NothingInEmpty == InBatch(<<>>) = {}
BY DEF InBatch

\* A record polled is pending; nothing else changes hands.
LEMMA PollPending ==
  ASSUME PipelineBase, NEW e \in Stream(log), Deliver(e), buffer' = Append(buffer, e),
         pc = "idle", pc' = pc
  PROVE  /\ InBatch(pending)' = InBatch(pending) \cup {e} /\ Handed' = Handed
         /\ buffer' \in Seq(Records) /\ InBatch(pending)' \subseteq delivered'
<1>1. e \in Records /\ buffer \in Seq(Records)
  BY StreamOfRecords DEF PipelineBase, Base, TypeOK
<1>2. pending = buffer /\ pending' = Append(buffer, e)
  BY DEF pending
<1>3. InBatch(pending)' = InBatch(pending) \cup {e} /\ buffer' \in Seq(Records)
  BY <1>1, <1>2, InAppended DEF InBatch
<1>4. e \notin delivered /\ delivered' = delivered \cup {e}
  BY DEF Deliver, Deliverable
<1> QED BY <1>3, <1>4 DEF PipelineBase, Handed

\* A batch taken up stays pending, statement by statement.
LEMMA BatchPending ==
  ASSUME PipelineBase, StartBatch \/ RunStatement
  PROVE  /\ pending' = pending /\ Handed' = Handed /\ db' = db /\ WarehouseInv'
         /\ pc' \in FailurePoints /\ buffer' = <<>> /\ UNCHANGED <<vars, size, delivery>>
<1>1. CASE StartBatch
  <2>1. buffer \in Seq(Records) /\ number \in Nat /\ WarehouseInv
    BY DEF PipelineBase, WarehouseInv, WarehouseTypeOK
  <2>2. WarehouseInv' /\ db' = db /\ pc' = "staged" /\ batch' = buffer /\ pc = "idle"
    BY <1>1, <2>1, StageInv DEF StartBatch, Stage
  <2> QED BY <1>1, <2>2 DEF StartBatch, pending, Handed, InBatch, FailurePoints, vars
<1>2. CASE RunStatement
  <2>1. /\ WarehouseInv' /\ db' = db /\ batch' = batch
        /\ pc \in FailurePoints /\ pc' \in FailurePoints
    BY <1>2, StatementInv DEF RunStatement, PipelineBase
  <2>2. pc # "idle" /\ pc' # "idle" /\ buffer = <<>>
    BY <2>1 DEF FailurePoints, PipelineBase
  <2> QED BY <1>2, <2>1, <2>2 DEF RunStatement, pending, Handed, InBatch, vars
<1> QED BY <1>1, <1>2

\* A commit hands over the whole batch.
LEMMA CommitPending ==
  ASSUME PipelineBase, FinishBatch
  PROVE  /\ pending' = <<>> /\ Handed' = Handed \cup InBatch(batch) /\ Handed' = delivered
         /\ db'.target = ApplyTo(db.target, batch, number, Guard, OnTombstone)
         /\ WarehouseInv' /\ pc' = "idle" /\ InBatch(batch) = InBatch(pending)
         /\ batch \in Seq(Records) /\ number \in Nat /\ db.target \in Targets
<1>1. /\ WarehouseInv' /\ pc = "tombstoned" /\ pc' = "idle"
      /\ db'.target = ApplyTo(db.target, batch, number, Guard, OnTombstone)
  BY CommitInv DEF FinishBatch, PipelineBase
<1>2. buffer = <<>> /\ pending = batch /\ pending' = <<>>
  BY <1>1 DEF FinishBatch, PipelineBase, pending
<1>3. delivered' = delivered /\ InBatch(batch) \subseteq delivered
  BY <1>2 DEF FinishBatch, vars, PipelineBase
<1>4. InBatch(pending') = {}
  BY <1>2, NothingInEmpty
<1>5. Handed' = delivered
  BY <1>3, <1>4 DEF Handed, InBatch
<1>6. batch \in Seq(Records) /\ number \in Nat /\ db.target \in Targets
  BY DEF PipelineBase, WarehouseInv, WarehouseTypeOK, Databases
<1> QED BY <1>1, <1>2, <1>3, <1>5, <1>6 DEF Handed

LEMMA PipelineBaseStep == PipelineBase /\ [PipelineNext]_pipelineVars => PipelineBase'
<1> SUFFICES ASSUME PipelineBase, [PipelineNext]_pipelineVars PROVE PipelineBase'
  OBVIOUS
<1>1. [Next]_vars
  BY StepsOfTheConsumer DEF pipelineVars
<1>2. Base'
  BY <1>1, ProduceBase, ConsumeBase, Stutter DEF Next, PipelineBase
<1>3. CASE Commits
  <2>1. UNCHANGED warehouseVars /\ UNCHANGED <<buffer, size, delivery, delivered>>
    BY <1>3 DEF Commits, Produce, consumerVars
  <2>2. WarehouseInv'
    BY <2>1, WarehouseStutter DEF PipelineBase
  <2> QED BY <1>2, <2>1, <2>2 DEF PipelineBase, pending, InBatch, warehouseVars
<1>4. CASE Poll
  <2>1. PICK e \in Stream(log) : Deliver(e) /\ buffer' = Append(buffer, e)
    BY <1>4 DEF Poll
  <2>2. pc = "idle" /\ UNCHANGED warehouseVars /\ UNCHANGED <<size, delivery>>
    BY <1>4 DEF Poll
  <2>3. WarehouseInv' /\ pc' = pc
    BY <2>2, WarehouseStutter DEF PipelineBase, warehouseVars
  <2>4. buffer' \in Seq(Records) /\ InBatch(pending)' \subseteq delivered'
    BY <2>1, <2>2, <2>3, PollPending
  <2> QED BY <1>2, <2>2, <2>3, <2>4 DEF PipelineBase
<1>5. CASE StartBatch \/ RunStatement
  <2>1. /\ pending' = pending /\ WarehouseInv' /\ pc' \in FailurePoints /\ buffer' = <<>>
        /\ UNCHANGED <<vars, size, delivery>>
    BY <1>5, BatchPending
  <2>2. InBatch(pending)' = InBatch(pending)
    BY <2>1 DEF InBatch
  <2> QED BY <1>2, <2>1, <2>2 DEF PipelineBase, FailurePoints, vars
<1>6. CASE FinishBatch
  <2>1. pending' = <<>> /\ WarehouseInv' /\ pc' = "idle"
    BY <1>6, CommitPending
  <2>2. InBatch(pending)' = {}
    BY <2>1, NothingInEmpty DEF InBatch
  <2> QED BY <1>2, <1>6, <2>1, <2>2 DEF PipelineBase, FinishBatch
<1>7. CASE UNCHANGED pipelineVars
  <2>1. WarehouseInv'
    BY <1>7, WarehouseStutter DEF PipelineBase, pipelineVars
  <2> QED BY <1>2, <1>7, <2>1 DEF PipelineBase, pending, InBatch, pipelineVars, vars, warehouseVars
<1> QED BY <1>3, <1>4, <1>5, <1>6, <1>7 DEF PipelineNext

\* Every variable of the two implementations keeps its type, in every deployment.
THEOREM PipelineTypes == PipelineSpec => []PipelineTypeOK
<1>1. PipelineInit => PipelineBase
  BY PipelineInitInv
<1>2. PipelineBase => PipelineTypeOK
  BY DEF PipelineBase, PipelineTypeOK, Base, WarehouseInv
<1> QED BY <1>1, <1>2, PipelineBaseStep, PTL DEF PipelineSpec

-----------------------------------------------------------------------------
(* The table and the consumer.                                              *)

\* The hypotheses of the merge are more than those of the consumer.
LEMMA MergeNeedsMore == MergeIsEnough => OrderIsEnough /\ KeyIsEnough /\ SlotsNameRows
BY DEF MergeIsEnough, OrderIsEnough, KeyIsEnough, SlotsNameRows, SlotOf

\* The changes delivered for a row, as places in the log and as records.
LEMMA AppliedRecords ==
  ASSUME TypeOK, MergeIsEnough, NEW r \in Rows
  PROVE  /\ Slots = Rows /\ SlotOf(r) = r /\ KeyOfSlot(r) = KeyOf[r]
         /\ \A i \in Applied(r) : /\ i \in DOMAIN log /\ i \in Nat /\ log[i].row = r
                                  /\ log[i].lsn \in Nat
                                  /\ ChangeRecord(i, log[i]) \in ChangesFor(r, delivered)
         /\ \A e \in ChangesFor(r, delivered) :
              e.at \in Applied(r) /\ e = ChangeRecord(e.at, log[e.at]) /\ e.lsn = log[e.at].lsn
<1>1. Slots = Rows /\ SlotOf(r) = r /\ KeyOfSlot(r) = KeyOf[r]
  BY DEF MergeIsEnough, Slots, SlotOf, KeyOfSlot
<1>2. ASSUME NEW i \in Applied(r)
      PROVE  /\ i \in DOMAIN log /\ i \in Nat /\ log[i].row = r /\ log[i].lsn \in Nat
             /\ ChangeRecord(i, log[i]) \in ChangesFor(r, delivered)
  <2>1. i \in DOMAIN log /\ ChangeRecord(i, log[i]) \in delivered
        /\ Slot(ChangeRecord(i, log[i])) = r
    BY DEF Applied
  <2>2. log[i] \in Changes /\ i \in Nat
    BY <2>1 DEF TypeOK, SourceTypeOK
  <2>3. Slot(ChangeRecord(i, log[i])) = log[i].row /\ ChangeRecord(i, log[i]).row = log[i].row
    BY RecordFields DEF MergeIsEnough, Slot, ImageRow
  <2> QED BY <2>1, <2>2, <2>3, RecordFields DEF Changes, ChangesFor
<1>3. ASSUME NEW e \in ChangesFor(r, delivered)
      PROVE  e.at \in Applied(r) /\ e = ChangeRecord(e.at, log[e.at]) /\ e.lsn = log[e.at].lsn
  <2>1. e \in delivered /\ e \in Stream(log) /\ ~e.tomb /\ e.row = r
    BY DEF ChangesFor, TypeOK
  <2>2. e.at \in DOMAIN log /\ e = ChangeRecord(e.at, log[e.at]) /\ e.lsn = log[e.at].lsn
    BY <2>1, ChangeOfRecord DEF TypeOK, MergeIsEnough
  <2> QED BY <2>1, <2>2 DEF Applied, Slot, MergeIsEnough
<1> QED BY <1>1, <1>2, <1>3

\* Of the changes delivered for a row the one with the highest position is the last.
LEMMA NewestIsLast ==
  ASSUME TypeOK, LogInv, MergeIsEnough, NEW r \in Rows,
         NEW i \in Applied(r), IsLast(i, Applied(r)),
         NEW e \in ChangesFor(r, delivered), log[i].lsn <= e.lsn
  PROVE  e = ChangeRecord(i, log[i])
<1>1. /\ e.at \in Applied(r) /\ e = ChangeRecord(e.at, log[e.at]) /\ e.lsn = log[e.at].lsn
      /\ e.at \in DOMAIN log /\ i \in DOMAIN log /\ e.at \in Nat /\ i \in Nat
      /\ log[i].lsn \in Nat /\ log[e.at].lsn \in Nat
  BY AppliedRecords
<1> DEFINE j == e.at
<1>2. j <= i /\ (j < i => log[j].lsn < log[i].lsn)
  BY <1>1 DEF IsLast, LogInv, LogOrdered, MergeIsEnough
<1>3. j = i
  BY <1>1, <1>2
<1> QED BY <1>1, <1>3

\* A change of a row is last when the consumer's mark says so.
LEMMA MarkedByLast ==
  ASSUME Marked, MergeIsEnough, NEW r \in Rows, NEW i \in Applied(r), IsLast(i, Applied(r))
  PROVE  watermark[r] = log[i].lsn
<1>1. r \in Slots /\ \A j \in Applied(r) : j \in Nat
  BY AppliedRecords DEF Marked, Base
<1>2. PICK m \in Applied(r) : IsLast(m, Applied(r)) /\ watermark[r] = log[m].lsn
  BY <1>1 DEF Marked, MarkIsLast, SlotMarked
<1>3. m = i
  BY <1>1, <1>2 DEF IsLast
<1> QED BY <1>2, <1>3

\* A delivery leaves a row hidden for a reason, or hides it for one.
LEMMA PollHides ==
  ASSUME PipelineInv, MergeIsEnough, NEW e \in Stream(log), Deliver(e), UNCHANGED sourceVars,
         InBatch(pending)' = InBatch(pending) \cup {e}, Handed' = Handed, db' = db
  PROVE  HiddenForAReason'
<1>1. /\ Inv /\ Marked /\ Base /\ TypeOK /\ LogInv /\ LogOrdered /\ DeletesAreEmpty
      /\ IndexExact /\ MarkIsLast /\ OrderIsEnough
  BY MergeNeedsMore DEF PipelineInv, Inv, Marked, Base, LogInv
<1>2. log' = log /\ delivered' = delivered \cup {e} /\ e \notin delivered
  BY DEF Deliver, Deliverable, sourceVars
<1> SUFFICES ASSUME NEW r \in Rows, NEW i \in Applied(r)', IsLast(i, Applied(r)'),
                    rows'[r] = Absent
             PROVE  \/ log[i].op = "d"
                    \/ ChangeRecord(i, log[i]) \in Handed /\ db.target[r].deleted
                    \/ /\ OnTombstone = "delete"
                       /\ \E t \in InBatch(pending) \cup {e} :
                            t.tomb /\ t.key = KeyOf[r] /\ log[i].lsn <= t.lsn
  BY <1>2 DEF HiddenForAReason
<1>3. Slots = Rows /\ SlotOf(r) = r /\ KeyOfSlot(r) = KeyOf[r] /\ r \in Slots
  BY <1>1, AppliedRecords
<1>4. CASE i \in Applied(r) /\ IsLast(i, Applied(r)) /\ rows[r] = Absent
  BY <1>4 DEF PipelineInv, HiddenForAReason
<1>5. CASE e.tomb
  <2>1. Applied(r)' = Applied(r)
    BY <1>1, <1>2, <1>3, <1>5, AppliedGrows
  <2>2. CASE rows[r] # Absent
    <3>1. /\ OnTombstone = "delete" /\ r \in underKey[e.key]
          /\ ~(Guard /\ watermark[r] > e.lsn)
      BY <1>1, <1>3, <1>5, <2>2 DEF Deliver, ApplyEvent, IgnoreTombstone, ApplyTombstone,
           NoMergeKey, DropStale, ApplyDelete, ApplyUpsert, Current, TypeOK
    <3>2. e.key = KeyOf[log[e.at].row] /\ log[e.at] \in Changes /\ e.lsn \in Nat
      BY <1>1, <1>5, DeleteOfTombstone DEF TypeOK, SourceTypeOK
    <3>3. e.key \in Keys
      BY <3>2, SlotFacts
    <3>4. e.key = KeyOf[r]
      BY <1>1, <1>3, <3>1, <3>3 DEF IndexExact
    <3>5. watermark[r] = log[i].lsn /\ watermark[r] \in Nat
      BY <1>1, <1>3, <2>1, MarkedByLast DEF TypeOK
    <3>6. log[i].lsn <= e.lsn
      BY <3>1, <3>2, <3>5 DEF MergeIsEnough
    <3> QED BY <1>5, <3>1, <3>4, <3>6
  <2> QED BY <1>4, <2>1, <2>2
<1>6. CASE ~e.tomb
  <2>1. PICK k \in DOMAIN log : e = ChangeRecord(k, log[k])
    BY <1>6, StreamElements, RecordFields
  <2>2. /\ e.at = k /\ e.op = log[k].op /\ e.val = log[k].val /\ k \in Nat
        /\ log[k] \in Changes
    BY <1>1, <2>1, RecordFields DEF TypeOK, SourceTypeOK
  <2>3. Slot(e) # Absent
    BY <2>1, <2>2, SlotFacts DEF MergeIsEnough
  <2>4. Applied(r)' = IF Slot(e) = r THEN Applied(r) \cup {k} ELSE Applied(r)
    BY <1>1, <1>2, <1>3, <1>6, <2>2, AppliedGrows
  <2>5. CASE Slot(e) # r
    <3>1. rows'[r] = rows[r]
      BY <1>1, <1>3, <1>6, <2>3, <2>5 DEF Deliver, ApplyEvent, IgnoreTombstone, ApplyTombstone,
           NoMergeKey, DropStale, ApplyDelete, ApplyUpsert, Current, TypeOK
    <3> QED BY <1>4, <2>4, <2>5, <3>1
  <2>6. CASE Slot(e) = r /\ Stale(e)
    <3>1. rows' = rows
      BY <1>6, <2>3, <2>6 DEF Deliver, ApplyEvent, IgnoreTombstone, ApplyTombstone,
           NoMergeKey, DropStale, ApplyDelete, ApplyUpsert, Current
    <3>2. PICK m \in Applied(r) : IsLast(m, Applied(r)) /\ m > k
      BY <1>1, <2>1, <2>3, <2>6, StaleIsOlder
    <3>3. \A j \in Applied(r) : j \in Nat
      BY <1>1, AppliedRecords
    <3>4. i = m
      BY <2>2, <2>4, <2>6, <3>2, <3>3 DEF IsLast
    <3> QED BY <1>4, <3>1, <3>2, <3>4
  <2>7. CASE Slot(e) = r /\ ~Stale(e)
    <3>1. \A j \in Applied(r) : j < k
      BY <1>1, <2>1, <2>3, <2>7, CurrentIsNewest DEF Deliver
    <3>2. i = k
      <4>1. Applied(r)' = Applied(r) \cup {k} /\ \A j \in Applied(r) : j \in Nat /\ ~(k <= j)
        BY <1>1, <2>2, <2>4, <2>7, <3>1, AppliedRecords
      <4> QED BY <4>1 DEF IsLast
    <3>3. CASE e.op = "d"
      BY <2>2, <3>2, <3>3
    <3>4. CASE e.op # "d"
      <4>1. rows'[r] = e.val
        BY <1>1, <1>3, <1>6, <2>3, <2>7, <3>4 DEF Deliver, ApplyEvent, IgnoreTombstone,
             ApplyTombstone, NoMergeKey, DropStale, ApplyDelete, ApplyUpsert, Current, TypeOK
      <4>2. e.val # Absent
        BY <1>1, <2>1, <2>2, <3>4 DEF DeletesAreEmpty
      <4> QED BY <4>1, <4>2
    <3> QED BY <3>3, <3>4
  <2> QED BY <2>5, <2>6, <2>7
<1> QED BY <1>5, <1>6

\* A commit brings the table up to the consumer, and settles its tombstones.
LEMMA CommitShows ==
  ASSUME PipelineInv, MergeIsEnough, FinishBatch
  PROVE  TableShows' /\ HiddenForAReason'
<1>1. /\ PipelineBase /\ Base /\ TypeOK /\ SourceTypeOK /\ LogInv
      /\ delivered \subseteq Stream(log) /\ Stream(log) \subseteq Records
      /\ InBatch(pending) \subseteq delivered
  BY StreamOfRecords DEF PipelineInv, PipelineBase, Base, TypeOK
<1>2. /\ Handed' = Handed \cup InBatch(batch) /\ Handed' = delivered
      /\ db'.target = ApplyTo(db.target, batch, number, Guard, OnTombstone)
      /\ InBatch(batch) = InBatch(pending)
      /\ batch \in Seq(Records) /\ number \in Nat /\ db.target \in Targets
  BY <1>1, CommitPending
<1>3. log' = log /\ delivered' = delivered /\ rows' = rows /\ UNCHANGED vars
  BY DEF FinishBatch, vars
<1>4. \A H \in SUBSET Stream(log) : PositionsTellApart(H)
  BY <1>1, StreamPositions DEF MergeIsEnough
<1>5. /\ PositionsTellApart(delivered) /\ PositionsTellApart(InBatch(batch))
      /\ Handed \in SUBSET Records /\ Handed \cup InBatch(batch) = delivered
  BY <1>1, <1>2, <1>4 DEF Handed
<1>6. Guards(Guard) /\ ~MergeByRecordKey /\ NarrowRows = {}
  BY GuardsWhenOn DEF MergeIsEnough
<1>7. ASSUME NEW r \in Rows PROVE Shows(db'.target[r], delivered, r)
  <2>1. Shows(db.target[r], Handed, r)
    BY DEF PipelineInv, TableShows
  <2> QED BY <1>2, <1>5, <1>6, <2>1, BatchShows
<1>8. TableShows'
  BY <1>2, <1>7 DEF TableShows
<1>9. ASSUME NEW r \in Rows, NEW i \in Applied(r), IsLast(i, Applied(r)), rows[r] = Absent
      PROVE  \/ log[i].op = "d"
             \/ ChangeRecord(i, log[i]) \in delivered /\ db'.target[r].deleted
  <2> DEFINE c == ChangeRecord(i, log[i])
  <2> DEFINE m == Merged(db.target, batch, number, Guard)[r]
  <2> DEFINE row == db'.target[r]
  <2>1. /\ c \in ChangesFor(r, delivered) /\ c.lsn = log[i].lsn /\ c.lsn \in Nat
        /\ c \in delivered /\ ~c.tomb /\ c.row = r /\ c.key = KeyOf[r]
    <3>1. /\ c \in ChangesFor(r, delivered) /\ log[i].row = r /\ log[i].lsn \in Nat
      BY <1>1, <1>9, AppliedRecords
    <3> QED BY <3>1, RecordFields DEF ChangesFor
  <2>2. PICK e \in ChangesFor(r, delivered) :
          /\ row # Absent
          /\ \A f \in ChangesFor(r, delivered) : f.lsn <= e.lsn
          /\ row.lsn = e.lsn /\ row.key = e.key
    BY <1>7, <2>1 DEF Shows
  <2>3. e = c
    BY <1>1, <1>9, <2>1, <2>2, NewestIsLast
  <2>4. /\ m # Absent /\ row.lsn = m.lsn /\ row.key = m.key
        /\ m.deleted => row = m
        /\ OnTombstone = "delete" /\ Reached(batch, m) => row.deleted
    BY <1>2, <2>2, ReachedRow
  <2>5. CASE c \in Handed /\ db.target[r].deleted
    <3>1. c \in ChangesFor(r, Handed) /\ ChangesFor(r, Handed) \subseteq ChangesFor(r, delivered)
          /\ ChangesFor(r, InBatch(batch)) \subseteq ChangesFor(r, delivered)
      BY <1>5, <2>1, <2>5 DEF ChangesFor
    <3>2. PICK h \in ChangesFor(r, Handed) :
            /\ db.target[r] # Absent /\ db.target[r].lsn = h.lsn
            /\ \A f \in ChangesFor(r, Handed) : f.lsn <= h.lsn
      BY <3>1 DEF PipelineInv, TableShows, Shows
    <3>3. h = c
      BY <1>1, <1>9, <2>1, <3>1, <3>2, NewestIsLast
    <3>4. db.target[r].lsn \in Nat
          /\ \A f \in ChangesFor(r, InBatch(batch)) : f.lsn <= db.target[r].lsn
      BY <2>1, <2>2, <2>3, <3>1, <3>2, <3>3
    <3>5. m = db.target[r]
      BY <1>2, <1>5, <1>6, <3>2, <3>4, MergeKeepsNewest
    <3> QED BY <2>1, <2>4, <2>5, <3>5
  <2>6. CASE /\ OnTombstone = "delete"
             /\ \E t \in InBatch(batch) : t.tomb /\ t.key = KeyOf[r] /\ log[i].lsn <= t.lsn
    <3>1. Reached(batch, m)
      BY <2>1, <2>2, <2>3, <2>4, <2>6 DEF Reached
    <3> QED BY <2>1, <2>4, <2>6, <3>1
  <2> QED BY <1>2, <1>9, <2>5, <2>6 DEF PipelineInv, HiddenForAReason
<1>10. \A r \in Rows : Applied(r)' = Applied(r)
  BY <1>3 DEF Applied
<1>11. HiddenForAReason'
  BY <1>2, <1>3, <1>9, <1>10 DEF HiddenForAReason, IsLast
<1> QED BY <1>8, <1>11

LEMMA PipelineInvStep ==
  MergeIsEnough /\ PipelineInv /\ [PipelineNext]_pipelineVars => PipelineInv'
<1> SUFFICES ASSUME MergeIsEnough, PipelineInv, [PipelineNext]_pipelineVars
             PROVE  PipelineInv'
  OBVIOUS
<1>1. PipelineBase' /\ OrderIsEnough /\ KeyIsEnough /\ Base /\ Base' /\ Inv
  BY PipelineBaseStep, MergeNeedsMore DEF PipelineInv, PipelineBase
<1>2. [Next]_vars
  BY StepsOfTheConsumer DEF pipelineVars
<1>3. MarkIsLast' /\ LatestWins'
  BY <1>1, <1>2, ProduceMarks, ConsumeMarked, ProduceLatest, ConsumeLatest, Stutter
     DEF Next, Inv, Marked
<1>4. Inv'
  BY <1>1, <1>3 DEF Inv, Marked
<1>5. CASE Commits
  <2>1. /\ delivered = {} /\ delivered' = {} /\ db' = db /\ Produce /\ TypeOK
    BY <1>1, <1>5 DEF Commits, Produce, consumerVars, warehouseVars, Base
  <2>2. \A r \in Rows : Applied(r)' = {}
    BY <2>1 DEF Applied
  <2>3. HiddenForAReason'
    BY <2>2 DEF HiddenForAReason
  <2>4. Handed = {} /\ Handed' = {}
    BY <2>1 DEF Handed
  <2>5. TableShows'
    BY <2>1, <2>4 DEF PipelineInv, TableShows
  <2> QED BY <1>1, <1>4, <2>3, <2>5 DEF PipelineInv
<1>6. CASE Poll
  <2>1. PICK e \in Stream(log) : Deliver(e) /\ buffer' = Append(buffer, e)
    BY <1>6 DEF Poll
  <2>2. pc = "idle" /\ pc' = pc /\ db' = db /\ UNCHANGED sourceVars
    BY <1>6 DEF Poll, warehouseVars
  <2>3. InBatch(pending)' = InBatch(pending) \cup {e} /\ Handed' = Handed
    BY <2>1, <2>2, PollPending DEF PipelineInv
  <2>4. TableShows'
    BY <2>2, <2>3 DEF PipelineInv, TableShows
  <2>5. HiddenForAReason'
    BY <2>1, <2>2, <2>3, PollHides
  <2> QED BY <1>1, <1>4, <2>4, <2>5 DEF PipelineInv
<1>7. CASE StartBatch \/ RunStatement \/ UNCHANGED pipelineVars
  <2>1. pending' = pending /\ Handed' = Handed /\ db' = db /\ UNCHANGED vars
    BY <1>7, BatchPending
       DEF PipelineInv, pending, Handed, InBatch, pipelineVars, warehouseVars, vars
  <2>2. TableShows'
    BY <2>1 DEF PipelineInv, TableShows
  <2>3. log' = log /\ rows' = rows /\ delivered' = delivered
    BY <2>1 DEF vars
  <2>4. InBatch(pending)' = InBatch(pending) /\ \A r \in Rows : Applied(r)' = Applied(r)
    BY <2>1, <2>3 DEF InBatch, Applied
  <2>5. HiddenForAReason'
    BY <2>1, <2>3, <2>4 DEF PipelineInv, HiddenForAReason, IsLast
  <2> QED BY <1>1, <1>4, <2>2, <2>5 DEF PipelineInv
<1>8. CASE FinishBatch
  BY <1>1, <1>4, <1>8, CommitShows DEF PipelineInv
<1> QED BY <1>5, <1>6, <1>7, <1>8 DEF PipelineNext

\* The inductive invariant of the two implementations side by side: what has been
\* committed shows in the table as it does in the consumer, at every step of a batch.
THEOREM PipelineInvariance == MergeIsEnough => (PipelineSpec => []PipelineInv)
<1> SUFFICES ASSUME MergeIsEnough PROVE PipelineSpec => []PipelineInv
  OBVIOUS
<1>1. PipelineInit => PipelineInv
  BY PipelineInitInv DEF PipelineInv
<1>2. PipelineInv /\ [PipelineNext]_pipelineVars => PipelineInv'
  BY PipelineInvStep
<1> QED BY <1>1, <1>2, PTL DEF PipelineSpec

-----------------------------------------------------------------------------
(* What the two agree on between batches.                                   *)

\* With nothing under way a row of the table is at the last change delivered.
LEMMA SettledRow ==
  ASSUME MergeIsEnough, PipelineInv, Settled, NEW r \in Rows
  PROVE  \/ Applied(r) = {} /\ db.target[r] = Absent
         \/ \E i \in Applied(r) :
              /\ IsLast(i, Applied(r))
              /\ db.target[r] # Absent
              /\ db.target[r].lsn = log[i].lsn /\ db.target[r].val = log[i].val
              /\ log[i].op = "d" => db.target[r].deleted
              /\ db.target[r].deleted =>
                   \/ log[i].op = "d"
                   \/ \E t \in delivered : t.tomb /\ t.key = KeyOf[r] /\ log[i].lsn <= t.lsn
<1>1. /\ TypeOK /\ SourceTypeOK /\ LogInv /\ MarkIsLast /\ Shows(db.target[r], Handed, r)
      /\ Slots = Rows
  BY AppliedRecords DEF PipelineInv, Inv, Marked, Base, TypeOK, TableShows
<1>2. Handed = delivered
  BY NothingInEmpty DEF Settled, pending, Handed
<1>3. CASE Applied(r) = {}
  <2>1. ChangesFor(r, delivered) = {}
    BY <1>1, <1>3, AppliedRecords
  <2> QED BY <1>1, <1>2, <1>3, <2>1 DEF Shows
<1>4. CASE Applied(r) # {}
  <2>1. PICK i \in Applied(r) : IsLast(i, Applied(r))
    BY <1>1, <1>4 DEF MarkIsLast, SlotMarked
  <2> DEFINE c == ChangeRecord(i, log[i])
  <2>2. c \in ChangesFor(r, delivered) /\ log[i].row = r
    BY <1>1, AppliedRecords
  <2>3. PICK e \in ChangesFor(r, delivered) :
          /\ db.target[r] # Absent
          /\ \A f \in ChangesFor(r, delivered) : f.lsn <= e.lsn
          /\ db.target[r].lsn = e.lsn /\ db.target[r].val = e.val /\ db.target[r].key = e.key
          /\ e.op = "d" => db.target[r].deleted
          /\ db.target[r].deleted =>
               \/ e.op = "d"
               \/ \E t \in delivered : t.tomb /\ t.key = e.key /\ e.lsn <= t.lsn
    BY <1>1, <1>2, <2>2 DEF Shows
  <2>4. c.lsn = log[i].lsn /\ c.val = log[i].val /\ c.op = log[i].op /\ c.key = KeyOf[r]
    BY <2>2, RecordFields
  <2>5. e = c
    BY <1>1, <2>1, <2>2, <2>3, <2>4, NewestIsLast
  <2> HIDE DEF c
  <2> QED BY <2>1, <2>3, <2>4, <2>5
<1> QED BY <1>3, <1>4

\* A soft-deleted row holds its position: at the end of every batch the positions
\* of the table are the consumer's watermarks (merge.py, consumer.py).
THEOREM PositionsAlwaysAgree == MergeIsEnough => (PipelineSpec => []PositionsAgree)
<1> SUFFICES ASSUME MergeIsEnough PROVE PipelineSpec => []PositionsAgree
  OBVIOUS
<1>1. PipelineInv => PositionsAgree
  <2> SUFFICES ASSUME PipelineInv, Settled, NEW r \in Rows
               PROVE  watermark[SlotOf(r)] =
                        IF db.target[r] = Absent THEN 0 ELSE db.target[r].lsn
    BY DEF PositionsAgree
  <2>1. Marked /\ TypeOK /\ LatestWins
    BY DEF PipelineInv, Inv, Marked, Base
  <2>2. SlotOf(r) = r /\ r \in Slots
    BY <2>1, AppliedRecords
  <2>3. Applied(r) = {} => watermark[r] = 0
    BY <2>1, <2>2 DEF LatestWins
  <2>4. \A i \in Applied(r) : IsLast(i, Applied(r)) => watermark[r] = log[i].lsn
    BY <2>1, MarkedByLast
  <2> QED BY <2>2, <2>3, <2>4, SettledRow
<1> QED BY PipelineInvariance, <1>1, PTL

\* One rule, two implementations: between batches the live rows are the consumer's
\* rows, but for the tombstone that came ahead of its own delete (merge.py,
\* consumer.py; scripts/merge_probe.py compares the same two).
LEMMA SettledAgrees == MergeIsEnough /\ PipelineInv => AgreesWithTheConsumer
<1> SUFFICES ASSUME MergeIsEnough, PipelineInv, Settled, NEW r \in Rows,
                    Live(db.target)[r] # rows[SlotOf(r)]
             PROVE  /\ Live(db.target)[r] = Absent
                    /\ \E e \in delivered :
                         /\ e.tomb /\ e.key = KeyOf[r] /\ e.lsn > watermark[SlotOf(r)]
                         /\ ChangeRecord(e.at, log[e.at]) \notin delivered
  BY DEF AgreesWithTheConsumer
<1>1. /\ Marked /\ TypeOK /\ SourceTypeOK /\ LogInv /\ LogOrdered /\ DeletesAreEmpty /\ LatestWins
      /\ delivered \subseteq Stream(log)
  BY DEF PipelineInv, Inv, Marked, Base, LogInv, TypeOK
<1>2. SlotOf(r) = r /\ r \in Slots
  BY <1>1, AppliedRecords
<1>3. Live(db.target)[r] =
        IF db.target[r] = Absent \/ db.target[r].deleted THEN Absent ELSE db.target[r].val
  BY DEF Live
<1>4. InBatch(pending) = {}
  BY NothingInEmpty DEF Settled, pending
<1>5. CASE Applied(r) = {} /\ db.target[r] = Absent
  BY <1>1, <1>2, <1>3, <1>5 DEF LatestWins
<1>6. ASSUME NEW i \in Applied(r), IsLast(i, Applied(r)), db.target[r] # Absent,
             db.target[r].lsn = log[i].lsn, db.target[r].val = log[i].val,
             log[i].op = "d" => db.target[r].deleted,
             db.target[r].deleted =>
               \/ log[i].op = "d"
               \/ \E t \in delivered : t.tomb /\ t.key = KeyOf[r] /\ log[i].lsn <= t.lsn
      PROVE  /\ db.target[r].deleted /\ log[i].op # "d"
             /\ \E t \in delivered : t.tomb /\ t.key = KeyOf[r] /\ log[i].lsn <= t.lsn
  <2>1. i \in DOMAIN log /\ i \in Nat /\ \A j \in Applied(r) : j \in Nat
    BY <1>1, AppliedRecords
  <2>2. rows[r] = log[i].val \/ rows[r] = Absent
    <3>1. PICK j \in Applied(r) : IsLast(j, Applied(r))
                                  /\ (rows[r] = log[j].val \/ rows[r] = Absent)
      BY <1>1, <1>2 DEF LatestWins
    <3>2. i = j
      BY <1>6, <2>1, <3>1 DEF IsLast
    <3> QED BY <3>1, <3>2
  <2>3. CASE log[i].op = "d"
    BY <1>1, <1>3, <1>2, <1>6, <2>1, <2>2, <2>3 DEF DeletesAreEmpty
  <2>4. CASE log[i].op # "d" /\ db.target[r].deleted
    BY <1>6, <2>4
  <2>5. CASE log[i].op # "d" /\ ~db.target[r].deleted
    <3>1. rows[r] = Absent
      BY <1>2, <1>3, <1>6, <2>2, <2>5
    <3> QED BY <1>4, <1>6, <2>5, <3>1 DEF PipelineInv, HiddenForAReason
  <2> QED BY <2>3, <2>4, <2>5
<1>7. ASSUME NEW i \in Applied(r), IsLast(i, Applied(r)), log[i].op # "d",
             NEW t \in delivered, t.tomb, t.key = KeyOf[r], log[i].lsn <= t.lsn
      PROVE  t.lsn > watermark[r] /\ ChangeRecord(t.at, log[t.at]) \notin delivered
  <2>1. watermark[r] = log[i].lsn
    BY <1>1, <1>7, MarkedByLast
  <2>2. /\ t.at \in DOMAIN log /\ log[t.at].op = "d" /\ t.key = KeyOf[log[t.at].row]
        /\ t.lsn = log[t.at].lsn /\ t.lsn \in Nat
    BY <1>1, <1>7, DeleteOfTombstone
  <2> DEFINE d == t.at
  <2>3. d # i /\ d \in Nat /\ i \in Nat /\ i \in DOMAIN log /\ log[i].lsn \in Nat
    BY <1>1, <1>7, <2>2, AppliedRecords DEF SourceTypeOK
  <2>4. log[d].row = r
    <3>1. log[d].row \in Rows
      <4>1. log[d] \in Changes
        BY <1>1, <2>2 DEF SourceTypeOK
      <4> QED BY <4>1 DEF Changes
    <3> QED BY <1>7, <2>2, <3>1 DEF MergeIsEnough, OneSlotPerKey, SlotOf
  <2>5. d > i /\ log[d].lsn > log[i].lsn
    BY <1>1, <1>7, <2>2, <2>3 DEF LogOrdered, MergeIsEnough
  <2>6. ChangeRecord(d, log[d]) \notin delivered
    <3> SUFFICES ASSUME ChangeRecord(d, log[d]) \in delivered PROVE FALSE
      OBVIOUS
    <3>1. Slot(ChangeRecord(d, log[d])) = r
      BY <2>4, RecordFields DEF Slot, ImageRow, MergeIsEnough
    <3>2. d \in Applied(r)
      BY <2>2, <3>1 DEF Applied
    <3> QED BY <1>7, <2>3, <2>5, <3>2 DEF IsLast
  <2> QED BY <2>1, <2>2, <2>5, <2>6
<1>8. CASE Applied(r) # {}
  <2>1. PICK i \in Applied(r) :
          /\ IsLast(i, Applied(r)) /\ db.target[r].deleted /\ log[i].op # "d"
          /\ \E t \in delivered : t.tomb /\ t.key = KeyOf[r] /\ log[i].lsn <= t.lsn
    BY <1>6, <1>8, SettledRow
  <2> QED BY <1>2, <1>3, <1>7, <2>1
<1> QED BY <1>5, <1>8, SettledRow

\* The SQL and the Python are one rule: between batches the warehouse's live rows are
\* the consumer's, but for a row that a tombstone which overtook its own delete hides
\* (sql.py, consumer.py).
THEOREM WarehouseIsTheConsumer == MergeIsEnough => (PipelineSpec => []AgreesWithTheConsumer)
<1> SUFFICES ASSUME MergeIsEnough PROVE PipelineSpec => []AgreesWithTheConsumer
  OBVIOUS
<1>1. PipelineInv => AgreesWithTheConsumer
  BY SettledAgrees
<1> QED BY PipelineInvariance, <1>1, PTL

\* The warehouse of a finished run is the source table, whatever the batch sizes
\* and whatever the order (apply_batch, compare).
THEOREM WarehouseIsTheSource == MergeIsEnough => (PipelineSpec => []WarehouseMatchesSource)
<1> SUFFICES ASSUME MergeIsEnough PROVE PipelineSpec => []WarehouseMatchesSource
  OBVIOUS
<1>1. PipelineInv => WarehouseMatchesSource
  <2> SUFFICES ASSUME PipelineInv, Settled, Drained PROVE Live(db.target) = table
    BY DEF WarehouseMatchesSource
  <2>1. TypeOK /\ SourceTypeOK /\ delivered \subseteq Stream(log) /\ Inv /\ AgreesWithTheConsumer
    BY SettledAgrees DEF PipelineInv, PipelineBase, Base, TypeOK
  <2>2. \A r \in Rows : rows[SlotOf(r)] = table[r]
    BY <2>1, DrainedMatches, MergeNeedsMore
       DEF TargetMatchesSource, Matches, Drained, MergeIsEnough
  <2>3. ASSUME NEW t \in delivered, t.tomb PROVE ChangeRecord(t.at, log[t.at]) \in delivered
    <3>1. t.at \in DOMAIN log
      BY <2>1, <2>3, DeleteOfTombstone
    <3> QED BY <3>1, StreamElements DEF Drained
  <2>4. \A r \in Rows : Live(db.target)[r] = table[r]
    BY <2>1, <2>2, <2>3 DEF AgreesWithTheConsumer
  <2>5. Live(db.target) = [r \in Rows |-> Live(db.target)[r]] /\ table = [r \in Rows |-> table[r]]
    BY <2>1 DEF Live, SourceTypeOK
  <2> QED BY <2>4, <2>5
<1> QED BY PipelineInvariance, <1>1, PTL

\* Where the broker keeps the order within partitions the one disagreement left
\* cannot come about: between batches the live rows are the consumer's, all of them.
THEOREM OrderLeavesNoDisagreement ==
  MergeIsEnough /\ Order = "interleave" =>
    (PipelineSpec => [](Settled => \A r \in Rows : Live(db.target)[r] = rows[r]))
<1> SUFFICES ASSUME MergeIsEnough, Order = "interleave"
             PROVE  PipelineSpec => [](Settled => \A r \in Rows : Live(db.target)[r] = rows[r])
  OBVIOUS
<1>1. PipelineInv => (Settled => \A r \in Rows : Live(db.target)[r] = rows[r])
  <2> SUFFICES ASSUME PipelineInv, Settled, NEW r \in Rows PROVE Live(db.target)[r] = rows[r]
    OBVIOUS
  <2>1. /\ SourceTypeOK /\ delivered \subseteq Stream(log) /\ PartitionClosed
        /\ AgreesWithTheConsumer /\ TypeOK
    BY SettledAgrees DEF PipelineInv, PipelineBase, Base, TypeOK
  <2>2. SlotOf(r) = r
    BY <2>1, AppliedRecords
  <2>3. ASSUME NEW t \in delivered, t.tomb PROVE ChangeRecord(t.at, log[t.at]) \in delivered
    <3> DEFINE d == ChangeRecord(t.at, log[t.at])
    <3>1. t.at \in DOMAIN log /\ t.key = KeyOf[log[t.at].row]
      BY <2>1, <2>3, DeleteOfTombstone
    <3>2. d \in Stream(log) /\ ~d.tomb /\ d.at = t.at /\ d.key = t.key
      BY <3>1, StreamElements, RecordFields
    <3> HIDE DEF d
    <3>3. SamePartition(t, d) /\ Before(d, t)
      BY <2>3, <3>2 DEF SamePartition, Before
    <3>4. d \in delivered
      BY <2>1, <3>2, <3>3 DEF PartitionClosed
    <3> QED BY <3>4 DEF d
  <2> QED BY <2>1, <2>2, <2>3 DEF AgreesWithTheConsumer
<1> QED BY PipelineInvariance, <1>1, PTL

\* The pipeline's consumer is the consumer: whatever the warehouse is at, a step of the
\* pipeline is one of apply_events, of the source, or none (scripts/merge_probe.py runs the
\* two beside each other).
THEOREM ThePipelineIsAConsumer == PipelineSpec => Init /\ [][Next]_vars
<1>1. PipelineInit => Init
  BY DEF PipelineInit
<1>2. [PipelineNext]_pipelineVars => [Next]_vars
  BY StepsOfTheConsumer DEF pipelineVars
<1> QED BY <1>1, <1>2, PTL DEF PipelineSpec

\* Beside a warehouse, too, no high water mark goes back and none is forgotten with its
\* row (cdc/consumer.py, "The high water mark outlives the row").
THEOREM MarkStaysMonotone == OrderIsEnough => (PipelineSpec => MarkNeverGoesBack)
<1> SUFFICES ASSUME OrderIsEnough PROVE PipelineSpec => MarkNeverGoesBack
  OBVIOUS
<1> DEFINE Step ==
  \A s \in Slots :
    /\ watermark'[s] >= watermark[s]
    /\ rows[s] = Absent /\ rows'[s] # Absent =>
         \E e \in delivered' \ delivered : e.lsn >= watermark[s]
<1>1. Marked /\ [Next]_vars => [Step]_vars
  BY MarkStep
<1>2. MarkNeverGoesBack <=> [][Step]_vars
  BY PTL DEF MarkNeverGoesBack
<1>3. Init => Marked
  BY InitInv DEF Inv
<1>4. Marked /\ [Next]_vars => Marked'
  BY ProduceBase, ProduceMarks, ConsumeBase, ConsumeMarked, Stutter DEF Next, Marked
<1> QED BY ThePipelineIsAConsumer, <1>1, <1>2, <1>3, <1>4, PTL

=============================================================================
