---------------------------- MODULE RecoveryProofs ----------------------------
(***************************************************************************)
(* Deaths and restarts, for every log, every cut and any number of deaths. *)
(*                                                                         *)
(* The argument: a cut of a finished drain holds the log once (Cutting);   *)
(* what is in the transaction is always the loop's batch (CutInv), so a    *)
(* death forgets a batch whole and a commit takes it whole (FinishStep).   *)
(* On that base each property has an invariant of its own, saying where    *)
(* the loop, the ledger, the offset and what has landed stand to one       *)
(* another: CheckpointInv, ReplayInv, LandedShows, FirstRun and SecondRun, *)
(* OffsetAfterInv and OffsetBeforeInv.                                     *)
(***************************************************************************)
EXTENDS Recovery, WarehouseProofs, SequenceTheorems

-----------------------------------------------------------------------------
(* Arithmetic of the cut.                                                   *)

LEMMA TimesGrows ==
  ASSUME NEW s \in Nat
  PROVE  \A i, j \in Nat : i <= j => i * s <= j * s
<1> DEFINE S == {d \in Nat : \A i \in Nat : i * s <= (i + d) * s}
<1>1. 0 \in S
  OBVIOUS
<1>2. ASSUME NEW d \in Nat, d \in S PROVE d + 1 \in S
  <2> SUFFICES ASSUME NEW i \in Nat PROVE i * s <= (i + (d + 1)) * s
    OBVIOUS
  <2>1. (i + (d + 1)) * s = (i + d) * s + s
    OBVIOUS
  <2>2. i * s \in Nat /\ (i + d) * s \in Nat
    OBVIOUS
  <2> QED BY <1>2, <2>1, <2>2
<1> HIDE DEF S
<1>3. Nat \subseteq S
  BY <1>1, <1>2, NatSetInduction
<1> SUFFICES ASSUME NEW i \in Nat, NEW j \in Nat, i <= j PROVE i * s <= j * s
  OBVIOUS
<1>4. j - i \in S /\ i + (j - i) = j
  BY <1>3
<1> QED BY <1>4 DEF S

LEMMA Division ==
  ASSUME NEW a \in Nat, NEW s \in Nat \ {0}
  PROVE  /\ a \div s \in Nat
         /\ (a \div s) * s <= a /\ a < (a \div s) * s + s
OBVIOUS

-----------------------------------------------------------------------------
(* An order and its batches.                                                *)

\* The place of a record in the order lies in the i-th slice of `size' places.
InSlice(p, i, size) == (i - 1) * size < p /\ p <= i * size

\* Every place has its slice.
LEMMA SliceExists ==
  ASSUME NEW size \in Nat \ {0}, NEW p \in Nat \ {0}
  PROVE  \E i \in Nat \ {0} : InSlice(p, i, size)
<1> DEFINE q == (p - 1) \div size
<1>1. q \in Nat /\ q * size <= p - 1 /\ p - 1 < q * size + size
  BY Division
<1> HIDE DEF q
<1>2. (q + 1) * size = q * size + size /\ (q + 1) - 1 = q
  BY <1>1
<1>3. InSlice(p, q + 1, size)
  <2>1. q * size \in Nat
    BY <1>1
  <2> QED BY <1>1, <1>2, <2>1 DEF InSlice
<1> QED BY <1>1, <1>3

\* Slices follow one another.
LEMMA SlicesOrdered ==
  ASSUME NEW size \in Nat \ {0}, NEW p \in Nat, NEW q \in Nat,
         NEW i \in Nat \ {0}, NEW j \in Nat \ {0}, InSlice(p, i, size), InSlice(q, j, size), q <= p
  PROVE  j <= i
<1> SUFFICES ASSUME i < j PROVE FALSE
  OBVIOUS
<1>1. i * size <= (j - 1) * size
  BY TimesGrows
<1>2. i * size \in Nat /\ (j - 1) * size \in Nat
  OBVIOUS
<1> QED BY <1>1, <1>2 DEF InSlice

\* merge.batches: the i-th batch is the i-th slice of the order, and the last
\* slice is the one the order ends in.
LEMMA BatchesAreSlices ==
  ASSUME NEW o \in Seq(Records), NEW size \in Nat \ {0}
  PROVE  /\ Batches(o, size) \in Seq(Seq(Records))
         /\ \A i \in DOMAIN Batches(o, size) : \A e :
              e \in InBatch(Batches(o, size)[i]) <=>
                \E p \in DOMAIN o : InSlice(p, i, size) /\ e = o[p]
         /\ \A p \in DOMAIN o : \E i \in DOMAIN Batches(o, size) : InSlice(p, i, size)
<1> DEFINE L == Len(o)
<1> DEFINE n == (L + size - 1) \div size
<1> DEFINE End(i) == IF i * size <= L THEN i * size ELSE L
<1> DEFINE c == [i \in 1..n |-> SubSeq(o, (i - 1) * size + 1, End(i))]
<1>1. Batches(o, size) = c
  BY DEF Batches
<1>2. L \in Nat /\ DOMAIN o = 1..L /\ \A p \in 1..L : o[p] \in Records
  OBVIOUS
<1>3. n \in Nat /\ n * size <= L + size - 1 /\ L + size - 1 < n * size + size
  <2>1. L + size - 1 \in Nat
    BY <1>2
  <2> QED BY <2>1, Division
<1> HIDE DEF n, L
<1>4. n * size \in Nat /\ L <= n * size
  BY <1>2, <1>3
<1>5. ASSUME NEW i \in 1..n
      PROVE  /\ c[i] \in Seq(Records)
             /\ \A e : e \in InBatch(c[i]) <=> \E p \in 1..L : InSlice(p, i, size) /\ e = o[p]
  <2> DEFINE a == (i - 1) * size
  <2> DEFINE b == i * size
  <2>1. a \in Nat /\ b \in Nat /\ b = a + size
    BY <1>3
  <2> DEFINE z == IF b <= L THEN b ELSE L
  <2>2. c[i] = SubSeq(o, a + 1, z)
    BY <1>5
  <2>3. \A p : InSlice(p, i, size) <=> a < p /\ p <= b
    BY DEF InSlice
  <2> HIDE DEF a, b, c
  <2>4. a + 1 \in Int /\ z \in Int /\ \A p \in (a + 1)..z : p \in 1..L
    BY <1>2, <2>1
  <2>5. \A p \in (a + 1)..z : o[p] \in Records
    BY <1>2, <2>4
  <2> DEFINE s == SubSeq(o, a + 1, z)
  <2>6. /\ s \in Seq(Records)
        /\ Len(s) = IF a + 1 <= z THEN z - (a + 1) + 1 ELSE 0
        /\ \A k \in 1..(z - (a + 1) + 1) : s[k] = o[(a + 1) + k - 1]
    BY <2>4, <2>5, SubSeqProperties
  <2> HIDE DEF s
  <2>7. DOMAIN s = 1..Len(s)
    BY <2>6
  <2>8. ASSUME NEW e PROVE e \in InBatch(s) <=> \E p \in 1..L : a < p /\ p <= b /\ e = o[p]
    <3>1. ASSUME NEW k \in DOMAIN s, e = s[k]
          PROVE  \E p \in 1..L : a < p /\ p <= b /\ e = o[p]
      <4>1. a + 1 <= z /\ k \in 1..(z - a) /\ z - (a + 1) + 1 = z - a
        BY <1>2, <2>1, <2>6, <2>7, <3>1
      <4>2. (a + 1) + k - 1 = a + k /\ a < a + k /\ a + k <= z /\ a + k \in (a + 1)..z
        BY <2>1, <2>4, <4>1
      <4>4. e = o[a + k]
        <5>1. s[k] = o[(a + 1) + k - 1]
          BY <2>6, <4>1
        <5> QED BY <3>1, <4>2, <5>1
      <4>3. a + k \in 1..L /\ a + k <= b
        BY <1>2, <2>1, <2>4, <4>2
      <4> QED BY <4>2, <4>3, <4>4
    <3>2. ASSUME NEW p \in 1..L, a < p, p <= b, e = o[p]
          PROVE  \E k \in DOMAIN s : e = s[k]
      <4>1. p <= z /\ a + 1 <= z /\ p - a \in 1..(z - (a + 1) + 1) /\ (a + 1) + (p - a) - 1 = p
        BY <1>2, <2>1, <3>2
      <4>2. p - a \in DOMAIN s /\ s[p - a] = o[p]
        BY <2>6, <2>7, <4>1
      <4> QED BY <3>2, <4>2
    <3> QED BY <3>1, <3>2 DEF InBatch
  <2> QED BY <2>2, <2>3, <2>6, <2>8 DEF s
<1>6. c \in Seq(Seq(Records)) /\ DOMAIN c = 1..n
  <2>1. c \in [1..n -> Seq(Records)]
    BY <1>5
  <2> HIDE DEF c
  <2> QED BY <1>3, <2>1
<1>7. ASSUME NEW p \in 1..L PROVE \E i \in 1..n : InSlice(p, i, size)
  <2>1. PICK i \in Nat \ {0} : InSlice(p, i, size)
    <3>1. p \in Nat \ {0}
      BY <1>2
    <3> QED BY <3>1, SliceExists
  <2>2. i <= n
    <3> SUFFICES ASSUME n < i PROVE FALSE
      BY <1>3
    <3>1. n * size <= (i - 1) * size
      BY <1>3, TimesGrows
    <3>2. (i - 1) * size \in Nat /\ (i - 1) * size < p /\ p <= L
      BY <1>2, <2>1 DEF InSlice
    <3> QED BY <1>2, <1>4, <3>1, <3>2
  <2> QED BY <1>3, <2>1, <2>2
<1> HIDE DEF c
<1> QED BY <1>1, <1>2, <1>5, <1>6, <1>7

-----------------------------------------------------------------------------
(* What a drain and a cut come to.                                          *)

\* Records of the log l, each once, and every partition in its order.
Drainable(o, l) ==
  /\ o \in Seq(Records)
  /\ InBatch(o) \subseteq Stream(l)
  /\ \A p, q \in DOMAIN o : o[p] = o[q] => p = q
  /\ \A p \in DOMAIN o, f \in Stream(l) :
       SamePartition(o[p], f) /\ Before(f, o[p]) => \E q \in DOMAIN o : q < p /\ o[q] = f

\* All the records of l in batches, none in two, and a tombstone in no earlier
\* batch than its own delete.
Cutting(c, l) ==
  /\ c \in Seq(Seq(Records)) /\ c # <<>>
  /\ Held(c) = Stream(l)
  /\ \A i, j \in DOMAIN c : \A e : e \in InBatch(c[i]) /\ e \in InBatch(c[j]) => i = j
  /\ \A j \in DOMAIN c : \A t \in InBatch(c[j]) : t.tomb =>
       \E i \in DOMAIN c : i <= j /\ ChangeRecord(t.at, l[t.at]) \in InBatch(c[i])

LEMMA ToSetIsInBatch == \A b : ToSet(b) = InBatch(b)
BY DEF ToSet, InBatch

LEMMA HeldBatches ==
  ASSUME NEW c
  PROVE  \A e : e \in Held(c) <=> \E i \in DOMAIN c : e \in InBatch(c[i])
BY ToSetIsInBatch DEF Held

\* Any size of batch cuts a finished drain.
LEMMA BatchesCut ==
  ASSUME SourceTypeOK, Drainable(order, log), InBatch(order) = Stream(log), order # <<>>,
         NEW size \in Nat \ {0}
  PROVE  Cutting(Batches(order, size), log)
<1> DEFINE c == Batches(order, size)
<1>1. /\ c \in Seq(Seq(Records))
      /\ \A i \in DOMAIN c : \A e :
           e \in InBatch(c[i]) <=> \E p \in DOMAIN order : InSlice(p, i, size) /\ e = order[p]
      /\ \A p \in DOMAIN order : \E i \in DOMAIN c : InSlice(p, i, size)
  BY BatchesAreSlices DEF Drainable
<1> HIDE DEF c
<1>2. /\ \A i \in DOMAIN c : i \in Nat \ {0}
      /\ \A p \in DOMAIN order : p \in Nat
      /\ 1 \in DOMAIN order
  BY <1>1 DEF Drainable
<1>3. c # <<>>
  BY <1>1, <1>2
<1>4. Held(c) = Stream(log)
  <2>1. ASSUME NEW e \in Stream(log) PROVE e \in Held(c)
    <3>1. PICK p \in DOMAIN order : e = order[p]
      BY DEF InBatch
    <3> QED BY <1>1, <3>1, HeldBatches
  <2>2. ASSUME NEW e \in Held(c) PROVE e \in Stream(log)
    <3>1. PICK i \in DOMAIN c : e \in InBatch(c[i])
      BY HeldBatches
    <3> QED BY <1>1, <3>1 DEF InBatch
  <2> QED BY <2>1, <2>2
<1>5. ASSUME NEW i \in DOMAIN c, NEW j \in DOMAIN c, NEW e,
             e \in InBatch(c[i]), e \in InBatch(c[j])
      PROVE  i = j
  <2>1. PICK p \in DOMAIN order : InSlice(p, i, size) /\ e = order[p]
    BY <1>1, <1>5
  <2>2. PICK q \in DOMAIN order : InSlice(q, j, size) /\ e = order[q]
    BY <1>1, <1>5
  <2>3. p = q
    BY <2>1, <2>2 DEF Drainable
  <2>4. p \in Nat /\ q \in Nat /\ i \in Nat \ {0} /\ j \in Nat \ {0} /\ p <= q /\ q <= p
    BY <1>2, <2>3
  <2>5. j <= i /\ i <= j
    BY <2>1, <2>2, <2>4, SlicesOrdered
  <2> QED BY <2>4, <2>5
<1>6. ASSUME NEW j \in DOMAIN c, NEW t \in InBatch(c[j]), t.tomb
      PROVE  \E i \in DOMAIN c : i <= j /\ ChangeRecord(t.at, log[t.at]) \in InBatch(c[i])
  <2> DEFINE d == ChangeRecord(t.at, log[t.at])
  <2>1. PICK p \in DOMAIN order : InSlice(p, j, size) /\ t = order[p]
    BY <1>1
  <2>2. t \in Stream(log)
    BY <2>1 DEF InBatch
  <2>3. t.at \in DOMAIN log /\ t.key = KeyOf[log[t.at].row]
    BY <1>6, <2>2, DeleteOfTombstone
  <2>4. d \in Stream(log) /\ ~d.tomb /\ d.at = t.at /\ d.key = t.key
    BY <2>3, StreamElements, RecordFields
  <2> HIDE DEF d
  <2>5. SamePartition(t, d) /\ Before(d, t)
    BY <1>6, <2>4 DEF SamePartition, Before
  <2>6. PICK q \in DOMAIN order : q < p /\ order[q] = d
    BY <2>1, <2>4, <2>5 DEF Drainable
  <2>7. PICK i \in DOMAIN c : InSlice(q, i, size)
    BY <1>1
  <2>8. i <= j
    <3>1. p \in Nat /\ q \in Nat /\ i \in Nat \ {0} /\ j \in Nat \ {0} /\ q <= p
      BY <1>2, <2>6
    <3> QED BY <2>1, <2>7, <3>1, SlicesOrdered
  <2>9. d \in InBatch(c[i])
    BY <1>1, <2>6, <2>7
  <2> QED BY <2>8, <2>9 DEF d
<1>7. Cutting(c, log)
  BY <1>1, <1>3, <1>4, <1>5, <1>6 DEF Cutting
<1> QED BY <1>7 DEF c

-----------------------------------------------------------------------------
(* Types, and what a batch under way is.                                    *)

OthersIdle == \A c \in Consumers \ {Ledger} : db.ledger[c] = 0

Untouched ==
  /\ db.target = EmptyTarget /\ db.ledger = [c \in Consumers |-> 0]
  /\ offset = 0 /\ landed = {} /\ crashes = 0

\* The batch in the transaction is the loop's, and nothing happens uncut.
CutInv ==
  /\ cut # <<>> => Cutting(cut, log)
  /\ before # <<>> => Cutting(before, log) /\ crashes > 0
  /\ pc \in FailurePoints => cut # <<>> /\ at \in DOMAIN cut /\ batch = cut[at] /\ number = at
  /\ pc = "down" => cut # <<>> /\ crashes > 0
  /\ cut = <<>> /\ before = <<>> => Untouched

RecoveryBase ==
  /\ SourceTypeOK /\ LogInv /\ WarehouseInv
  /\ Drainable(order, log)
  /\ at \in Nat \ {0} /\ resumed \in Nat \ {0}
  /\ strategy \in Strategies /\ consumer \in DriveAs \cup {Ledger}
  /\ offset \in Nat /\ crashes \in 0..MaxCrashes
  /\ landed \subseteq Stream(log)
  /\ OthersIdle
  /\ CutInv

LEMMA RecoveryInitInv == RecoveryInit => RecoveryBase
<1> SUFFICES ASSUME RecoveryInit PROVE RecoveryBase
  OBVIOUS
<1>1. SourceTypeOK /\ LogInv /\ WarehouseInv
  BY SourceInitInv, WarehouseInitInv DEF RecoveryInit
<1>2. Drainable(order, log)
  BY DEF RecoveryInit, Drainable, InBatch
<1>3. db.target = EmptyTarget /\ db.ledger = [c \in Consumers |-> 0] /\ pc = "idle"
  BY DEF RecoveryInit, WarehouseInit
<1>4. OthersIdle /\ CutInv
  BY <1>3 DEF RecoveryInit, OthersIdle, CutInv, Untouched, FailurePoints
<1>5. 0 \in 0..MaxCrashes
  BY RecoveryAssumption DEF RecoveryAssumption
<1> QED BY <1>1, <1>2, <1>4, <1>5 DEF RecoveryInit, RecoveryBase

\* Where a restart goes on, whatever it trusts.
LEMMA StartTyped ==
  ASSUME RecoveryBase
  PROVE  StartAt \in Nat \ {0}
<1>1. db.ledger \in [Consumers -> Nat] /\ offset \in Nat /\ consumer \in Consumers
  BY WarehouseAssumption, RecoveryAssumption
     DEF RecoveryBase, WarehouseInv, WarehouseTypeOK, Databases, WarehouseAssumption,
         RecoveryAssumption
<1> QED BY <1>1 DEF StartAt, first_batch_to_apply, resume_point, LastBatch

LEMMA SourceKept ==
  ASSUME UNCHANGED sourceVars, SourceTypeOK, LogInv
  PROVE  SourceTypeOK' /\ LogInv' /\ Stream(log)' = Stream(log) /\ log' = log /\ table' = table
BY DEF sourceVars, SourceTypeOK, LogInv, LogOrdered, DeletesAreEmpty, TableIsLastChange,
       ChangesTo, IsLast, Stream, Envelope

LEMMA CommitsBase == RecoveryBase /\ Commits => RecoveryBase'
<1> SUFFICES ASSUME RecoveryBase, Commits PROVE RecoveryBase'
  OBVIOUS
<1>1. /\ SourceTypeOK /\ LogInv /\ SourceNext /\ order = <<>> /\ cut = <<>> /\ crashes = 0
      /\ UNCHANGED warehouseVars /\ order' = order /\ UNCHANGED driveVars
  BY DEF RecoveryBase, Commits
<1>2. SourceTypeOK' /\ LogInv'
  BY <1>1, LogGrows
<1>3. WarehouseInv' /\ db' = db /\ pc' = pc
  BY <1>1, WarehouseStutter DEF RecoveryBase, warehouseVars
<1>4. Drainable(order, log)'
  BY <1>1 DEF Drainable, InBatch
<1>5. before = <<>> /\ Untouched /\ pc \notin FailurePoints /\ pc # "down"
  BY <1>1 DEF RecoveryBase, CutInv
<1>6. CutInv' /\ OthersIdle' /\ landed' = {}
  BY <1>1, <1>3, <1>5 DEF CutInv, Untouched, RecoveryBase, OthersIdle, driveVars
<1> QED BY <1>1, <1>2, <1>3, <1>4, <1>6 DEF RecoveryBase, driveVars

LEMMA DrainBase == RecoveryBase /\ Drain => RecoveryBase'
<1> SUFFICES ASSUME RecoveryBase, Drain PROVE RecoveryBase'
  OBVIOUS
<1>1. /\ SourceTypeOK' /\ LogInv' /\ Stream(log)' = Stream(log) /\ log' = log
      /\ UNCHANGED warehouseVars /\ UNCHANGED driveVars
  BY SourceKept DEF RecoveryBase, Drain
<1>2. WarehouseInv'
  BY <1>1, WarehouseStutter DEF RecoveryBase
<1>3. PICK e \in Stream(log) \ InBatch(order) :
        /\ InPartitionOrder(e, log, InBatch(order))
        /\ order' = Append(order, e)
  BY ToSetIsInBatch DEF Drain
<1>4. e \in Records /\ Drainable(order, log) /\ order \in Seq(Records)
  BY StreamOfRecords DEF RecoveryBase, Drainable
<1>5. /\ order' \in Seq(Records) /\ DOMAIN order' = 1..(Len(order) + 1)
      /\ DOMAIN order = 1..Len(order) /\ Len(order) \in Nat
      /\ \A p \in DOMAIN order : order'[p] = order[p]
      /\ order'[Len(order) + 1] = e
  BY <1>3, <1>4
<1>6. InBatch(order') \subseteq Stream(log)
  BY <1>4, <1>5 DEF InBatch, Drainable
<1>7. \A p \in DOMAIN order : order[p] # e
  BY <1>3 DEF InBatch
<1>8. ASSUME NEW p \in DOMAIN order', NEW q \in DOMAIN order', order'[p] = order'[q] PROVE p = q
  BY <1>4, <1>5, <1>7, <1>8 DEF Drainable
<1>9. ASSUME NEW p \in DOMAIN order', NEW f \in Stream(log),
             SamePartition(order'[p], f), Before(f, order'[p])
      PROVE  \E q \in DOMAIN order' : q < p /\ order'[q] = f
  <2>1. CASE p \in DOMAIN order
    <3>1. PICK q \in DOMAIN order : q < p /\ order[q] = f
      BY <1>4, <1>5, <1>9, <2>1 DEF Drainable
    <3> QED BY <1>5, <3>1
  <2>2. CASE p = Len(order) + 1
    <3>1. PICK q \in DOMAIN order : order[q] = f
      BY <1>3, <1>5, <1>9, <2>2 DEF InPartitionOrder, InBatch
    <3> QED BY <1>5, <2>2, <3>1
  <2> QED BY <1>5, <2>1, <2>2
<1>10. Drainable(order', log)
  BY <1>5, <1>6, <1>8, <1>9 DEF Drainable
<1>11. CutInv' /\ OthersIdle'
  BY <1>1 DEF RecoveryBase, CutInv, Untouched, OthersIdle, warehouseVars, driveVars
<1> QED BY <1>1, <1>2, <1>10, <1>11 DEF RecoveryBase, driveVars

LEMMA CutAndDriveBase == RecoveryBase /\ CutAndDrive => RecoveryBase'
<1> SUFFICES ASSUME RecoveryBase, CutAndDrive PROVE RecoveryBase'
  OBVIOUS
<1>1. /\ SourceTypeOK' /\ LogInv' /\ Stream(log)' = Stream(log) /\ log' = log
      /\ UNCHANGED warehouseVars /\ cut = <<>> /\ order' = order
      /\ UNCHANGED <<strategy, consumer, offset, crashes, before, landed>>
      /\ at' = StartAt /\ resumed' = StartAt
  BY SourceKept DEF RecoveryBase, CutAndDrive
<1>2. WarehouseInv' /\ db' = db /\ pc' = pc
  BY <1>1, WarehouseStutter DEF RecoveryBase, warehouseVars
<1>3. Cutting(cut', log) /\ cut' # <<>>
  <2>1. PICK size \in 1..MaxBatch : cut' = Batches(order, size)
    BY DEF CutAndDrive
  <2>2. size \in Nat \ {0}
    BY RecoveryAssumption DEF RecoveryAssumption
  <2>3. Drainable(order, log) /\ InBatch(order) = Stream(log) /\ order # <<>>
    BY ToSetIsInBatch DEF CutAndDrive, RecoveryBase
  <2>4. Cutting(cut', log)
    BY <2>1, <2>2, <2>3, BatchesCut DEF RecoveryBase
  <2> QED BY <2>4 DEF Cutting
<1>4. pc \notin FailurePoints /\ pc # "down"
  BY <1>1 DEF RecoveryBase, CutInv
<1>5. CutInv'
  BY <1>1, <1>2, <1>3, <1>4 DEF RecoveryBase, CutInv
<1> QED BY <1>1, <1>2, <1>5, StartTyped DEF RecoveryBase, OthersIdle

LEMMA StartBatchBase == RecoveryBase /\ StartBatch => RecoveryBase'
<1> SUFFICES ASSUME RecoveryBase, StartBatch PROVE RecoveryBase'
  OBVIOUS
<1>1. /\ SourceTypeOK' /\ LogInv' /\ Stream(log)' = Stream(log) /\ log' = log
      /\ UNCHANGED <<order, cut, at, strategy, consumer, crashes, before, resumed, landed>>
      /\ offset' \in {at, offset} /\ at <= Len(cut) /\ Stage(cut[at], at)
  BY SourceKept DEF RecoveryBase, StartBatch
<1>2. at \in Nat \ {0} /\ cut # <<>> /\ cut \in Seq(Seq(Records)) /\ at \in DOMAIN cut
  <2>1. cut # <<>>
    BY <1>1 DEF RecoveryBase
  <2> QED BY <1>1, <2>1 DEF RecoveryBase, CutInv, Cutting
<1>3. cut[at] \in Seq(Records) /\ at \in Nat
  BY <1>2
<1>4. WarehouseInv' /\ db' = db /\ pc' = "staged" /\ batch' = cut[at] /\ number' = at
  BY <1>1, <1>3, StageInv DEF RecoveryBase
<1>5. CutInv'
  BY <1>1, <1>2, <1>4 DEF RecoveryBase, CutInv
<1> QED BY <1>1, <1>3, <1>4, <1>5 DEF RecoveryBase, OthersIdle

LEMMA RunStatementBase == RecoveryBase /\ RunStatement => RecoveryBase'
<1> SUFFICES ASSUME RecoveryBase, RunStatement PROVE RecoveryBase'
  OBVIOUS
<1>1. /\ SourceTypeOK' /\ LogInv' /\ Stream(log)' = Stream(log) /\ log' = log
      /\ order' = order /\ UNCHANGED driveVars
  BY SourceKept DEF RecoveryBase, RunStatement
<1>2. /\ WarehouseInv' /\ db' = db /\ batch' = batch /\ number' = number
      /\ pc \in FailurePoints /\ pc' \in FailurePoints
  BY StatementInv DEF RecoveryBase, RunStatement
<1>3. CutInv'
  BY <1>1, <1>2 DEF RecoveryBase, CutInv, driveVars, FailurePoints
<1> QED BY <1>1, <1>2, <1>3 DEF RecoveryBase, OthersIdle, driveVars

\* What a batch under way brings, whenever it is committed.
LEMMA FinishStep ==
  ASSUME RecoveryBase, FinishBatch
  PROVE  /\ cut # <<>> /\ Cutting(cut, log) /\ at \in DOMAIN cut /\ pc = "tombstoned"
         /\ batch = cut[at] /\ number = at
         /\ cut[at] \in Seq(Records) /\ InBatch(cut[at]) \subseteq Stream(log)
         /\ landed' = landed \cup InBatch(cut[at]) /\ at' = at + 1
         /\ WarehouseInv' /\ pc' = "idle"
         /\ db'.target = ApplyTo(db.target, cut[at], at, Guard, OnTombstone)
         /\ db'.ledger = [db.ledger EXCEPT ![Ledger] = at]
         /\ UNCHANGED <<sourceVars, order, cut, strategy, consumer, offset, crashes, before, resumed>>
<1>1. /\ WarehouseInv' /\ pc = "tombstoned" /\ pc' = "idle"
      /\ db'.target = ApplyTo(db.target, batch, number, Guard, OnTombstone)
      /\ db'.ledger = [db.ledger EXCEPT ![Ledger] = number]
  BY CommitInv DEF RecoveryBase, FinishBatch
<1>2. cut # <<>> /\ Cutting(cut, log) /\ at \in DOMAIN cut /\ batch = cut[at] /\ number = at
  BY <1>1 DEF RecoveryBase, CutInv, FailurePoints
<1>3. cut[at] \in Seq(Records) /\ InBatch(cut[at]) \subseteq Stream(log)
  BY <1>2, HeldBatches DEF Cutting
<1>4. landed' = landed \cup InBatch(cut[at])
  BY <1>2, ToSetIsInBatch DEF FinishBatch
<1> QED BY <1>1, <1>2, <1>3, <1>4 DEF FinishBatch

LEMMA FinishBatchBase == RecoveryBase /\ FinishBatch => RecoveryBase'
<1> SUFFICES ASSUME RecoveryBase, FinishBatch PROVE RecoveryBase'
  OBVIOUS
<1>1. /\ cut # <<>> /\ InBatch(cut[at]) \subseteq Stream(log)
      /\ landed' = landed \cup InBatch(cut[at]) /\ at' = at + 1
      /\ WarehouseInv' /\ pc' = "idle"
      /\ db'.ledger = [db.ledger EXCEPT ![Ledger] = at]
      /\ UNCHANGED <<sourceVars, order, cut, strategy, consumer, offset, crashes, before, resumed>>
  BY FinishStep
<1>2. SourceTypeOK' /\ LogInv' /\ Stream(log)' = Stream(log) /\ log' = log
  BY <1>1, SourceKept DEF RecoveryBase
<1>3. CutInv'
  BY <1>1, <1>2 DEF RecoveryBase, CutInv, FailurePoints
<1>4. OthersIdle'
  <2>1. db.ledger \in [Consumers -> Nat]
    BY DEF RecoveryBase, WarehouseInv, WarehouseTypeOK, Databases
  <2> QED BY <1>1, <2>1 DEF RecoveryBase, OthersIdle
<1> QED BY <1>1, <1>2, <1>3, <1>4 DEF RecoveryBase

LEMMA CommitOffsetBase == RecoveryBase /\ CommitOffset => RecoveryBase'
<1> SUFFICES ASSUME RecoveryBase, CommitOffset PROVE RecoveryBase'
  OBVIOUS
<1>1. /\ SourceTypeOK' /\ LogInv' /\ Stream(log)' = Stream(log) /\ log' = log
      /\ UNCHANGED warehouseVars /\ offset' = at - 1 /\ cut # <<>>
      /\ UNCHANGED <<order, cut, at, strategy, consumer, crashes, before, resumed, landed>>
  BY SourceKept DEF RecoveryBase, CommitOffset, OffsetBehind
<1>2. WarehouseInv'
  BY <1>1, WarehouseStutter DEF RecoveryBase
<1>3. CutInv' /\ OthersIdle'
  BY <1>1 DEF RecoveryBase, CutInv, OthersIdle, warehouseVars
<1> QED BY <1>1, <1>2, <1>3 DEF RecoveryBase

\* A death, wherever it comes, leaves the database, and the loop goes nowhere.
LEMMA CrashStep ==
  ASSUME RecoveryBase, CrashNow
  PROVE  /\ WarehouseInv' /\ db' = db /\ pc' = "down" /\ cut # <<>> /\ crashes' = crashes + 1
         /\ pc # "down" /\ crashes' \in 0..MaxCrashes
         /\ UNCHANGED <<sourceVars, order, cut, at, strategy, consumer, offset, before, resumed, landed>>
<1>1. /\ crashes < MaxCrashes /\ crashes' = crashes + 1
      /\ UNCHANGED <<sourceVars, order, cut, at, strategy, consumer, offset, before, resumed, landed>>
  BY DEF CrashNow
<1>2. crashes' \in 0..MaxCrashes
  BY <1>1, RecoveryAssumption DEF RecoveryBase, RecoveryAssumption
<1>3. CASE Die
  <2>1. WarehouseInv' /\ db' = db /\ pc' = "down" /\ pc \in FailurePoints
    BY <1>3, DieInv DEF RecoveryBase
  <2> QED BY <1>1, <1>2, <2>1 DEF RecoveryBase, CutInv, FailurePoints
<1>4. CASE DieBetweenBatches
  <2>1. WarehouseInv'
    BY <1>4 DEF DieBetweenBatches, RecoveryBase, WarehouseInv, WarehouseTypeOK, TxInv, FailurePoints
  <2> QED BY <1>1, <1>2, <1>4, <2>1 DEF DieBetweenBatches
<1> QED BY <1>3, <1>4 DEF CrashNow

LEMMA CrashBase == RecoveryBase /\ CrashNow => RecoveryBase'
<1> SUFFICES ASSUME RecoveryBase, CrashNow PROVE RecoveryBase'
  OBVIOUS
<1>1. /\ WarehouseInv' /\ db' = db /\ pc' = "down" /\ cut # <<>> /\ crashes' = crashes + 1
      /\ crashes' \in 0..MaxCrashes /\ crashes \in Nat
      /\ UNCHANGED <<sourceVars, order, cut, at, strategy, consumer, offset, before, resumed, landed>>
  BY CrashStep DEF RecoveryBase
<1>2. SourceTypeOK' /\ LogInv' /\ Stream(log)' = Stream(log) /\ log' = log
  BY <1>1, SourceKept DEF RecoveryBase
<1>3. CutInv' /\ OthersIdle'
  BY <1>1, <1>2 DEF RecoveryBase, CutInv, OthersIdle, FailurePoints
<1> QED BY <1>1, <1>2, <1>3 DEF RecoveryBase

\* A restart opens nothing and forgets nothing of the database.
LEMMA RestartStep ==
  ASSUME RecoveryBase, pc = "down", pc' = "idle", UNCHANGED <<db, tx, batch, number>>
  PROVE  WarehouseInv'
BY DEF RecoveryBase, WarehouseInv, WarehouseTypeOK, TxInv, FailurePoints

LEMMA ResumeBase == RecoveryBase /\ Resume => RecoveryBase'
<1> SUFFICES ASSUME RecoveryBase, Resume PROVE RecoveryBase'
  OBVIOUS
<1>1. /\ SourceTypeOK' /\ LogInv' /\ Stream(log)' = Stream(log) /\ log' = log
      /\ db' = db /\ pc = "down" /\ pc' = "idle" /\ at' = StartAt /\ resumed' = StartAt
      /\ UNCHANGED <<order, cut, strategy, consumer, offset, crashes, before, landed>>
  BY SourceKept DEF RecoveryBase, Resume
<1>2. WarehouseInv'
  BY RestartStep DEF Resume
<1>3. CutInv' /\ OthersIdle'
  BY <1>1 DEF RecoveryBase, CutInv, OthersIdle, FailurePoints
<1> QED BY <1>1, <1>2, <1>3, StartTyped DEF RecoveryBase

LEMMA RedrainBase == RecoveryBase /\ Redrain => RecoveryBase'
<1> SUFFICES ASSUME RecoveryBase, Redrain PROVE RecoveryBase'
  OBVIOUS
<1>1. /\ SourceTypeOK' /\ LogInv' /\ Stream(log)' = Stream(log) /\ log' = log
      /\ db' = db /\ pc = "down" /\ pc' = "idle" /\ before' = cut /\ cut' = <<>> /\ order' = <<>>
      /\ UNCHANGED <<at, strategy, consumer, offset, crashes, resumed, landed>>
  BY SourceKept DEF RecoveryBase, Redrain
<1>2. WarehouseInv'
  BY RestartStep DEF Redrain
<1>3. CutInv' /\ OthersIdle'
  BY <1>1 DEF RecoveryBase, CutInv, OthersIdle, FailurePoints
<1>4. Drainable(order, log)'
  BY <1>1 DEF Drainable, InBatch
<1> QED BY <1>1, <1>2, <1>3, <1>4 DEF RecoveryBase

LEMMA RecoveryStutter == RecoveryBase /\ UNCHANGED recoveryVars => RecoveryBase'
<1> SUFFICES ASSUME RecoveryBase, UNCHANGED recoveryVars PROVE RecoveryBase'
  OBVIOUS
<1>1. /\ SourceTypeOK' /\ LogInv' /\ Stream(log)' = Stream(log) /\ log' = log
      /\ UNCHANGED warehouseVars /\ order' = order /\ UNCHANGED driveVars
  BY SourceKept DEF RecoveryBase, recoveryVars
<1>2. WarehouseInv'
  BY <1>1, WarehouseStutter DEF RecoveryBase
<1>3. CutInv' /\ OthersIdle'
  BY <1>1 DEF RecoveryBase, CutInv, Untouched, OthersIdle, warehouseVars, driveVars
<1> QED BY <1>1, <1>2, <1>3 DEF RecoveryBase, driveVars

LEMMA RecoveryBaseStep == RecoveryBase /\ [RecoveryNext]_recoveryVars => RecoveryBase'
BY CommitsBase, DrainBase, CutAndDriveBase, StartBatchBase, RunStatementBase, FinishBatchBase,
   CommitOffsetBase, CrashBase, ResumeBase, RedrainBase, RecoveryStutter
   DEF RecoveryNext, Drive

LEMMA RecoveryInvariance == RecoverySpec => []RecoveryBase
<1>1. RecoveryInit => RecoveryBase
  BY RecoveryInitInv
<1>2. RecoveryBase /\ [RecoveryNext]_recoveryVars => RecoveryBase'
  BY RecoveryBaseStep
<1> QED BY <1>1, <1>2, PTL DEF RecoverySpec

\* Whatever dies and however a restart goes on, the database, the open transaction
\* and the loop stay what they are meant to be, and what is committed was in the
\* log: the model's sets are wide enough for every run of drive().
THEOREM RecoveryTypes == RecoverySpec => []RecoveryTypeOK
<1>1. RecoveryBase => RecoveryTypeOK
  <2> SUFFICES ASSUME RecoveryBase PROVE RecoveryTypeOK
    OBVIOUS
  <2>1. cut \in Seq(Seq(Records)) /\ before \in Seq(Seq(Records))
    <3>1. <<>> \in Seq(Seq(Records))
      OBVIOUS
    <3>2. /\ cut = <<>> \/ cut \in Seq(Seq(Records))
          /\ before = <<>> \/ before \in Seq(Seq(Records))
      BY DEF RecoveryBase, CutInv, Cutting
    <3> QED BY <3>1, <3>2
  <2> QED BY <2>1 DEF RecoveryBase, RecoveryTypeOK, WarehouseInv, Drainable
<1> QED BY <1>1, RecoveryInvariance, PTL

-----------------------------------------------------------------------------
(* The ledger as a checkpoint.                                              *)

CleanCut(c, m) == CleanRun(c, Guard, OnTombstone)[m]

LEMMA CleanCutSteps ==
  ASSUME NEW c \in Seq(Seq(Records))
  PROVE  /\ CleanCut(c, 0) = EmptyTarget
         /\ \A n \in DOMAIN c :
              CleanCut(c, n) = ApplyTo(CleanCut(c, n - 1), c[n], n, Guard, OnTombstone)
<1>1. Len(c) \in Nat /\ DOMAIN c = 1..Len(c)
  OBVIOUS
<1>2. CleanRun(c, Guard, OnTombstone)[0] = EmptyTarget
  BY <1>1, CleanRunSteps
<1>3. \A n \in 1..Len(c) : CleanRun(c, Guard, OnTombstone)[n] =
        ApplyTo(CleanRun(c, Guard, OnTombstone)[n - 1], c[n], n, Guard, OnTombstone)
  BY <1>1, CleanRunSteps
<1> QED BY <1>1, <1>2, <1>3 DEF CleanCut

\* The restart asks under the name drive() writes under.
OneName == consumer = Ledger

LEMMA OneNameStep ==
  ASSUME DriveAs \subseteq {Ledger}
  PROVE  /\ RecoveryInit => OneName
         /\ OneName /\ [RecoveryNext]_recoveryVars => OneName'
<1>1. RecoveryInit => OneName
  BY DEF RecoveryInit, OneName
<1>2. [RecoveryNext]_recoveryVars => consumer' = consumer
  BY DEF RecoveryNext, Drive, Commits, Drain, CutAndDrive, StartBatch, RunStatement, FinishBatch,
         CommitOffset, CrashNow, Resume, Redrain, recoveryVars, driveVars
<1> QED BY <1>1, <1>2 DEF OneName

\* The ledger is one batch behind the loop, and the table is the clean run's there.
CheckpointInv ==
  strategy = "ledger" /\ cut # <<>> /\ before = <<>> =>
    /\ at = db.ledger[Ledger] + 1 /\ db.ledger[Ledger] <= Len(cut)
    /\ db.target = CleanCut(cut, db.ledger[Ledger])

LEMMA LedgerIsNat ==
  ASSUME RecoveryBase
  PROVE  \A c \in Consumers : db.ledger[c] \in Nat
BY DEF RecoveryBase, WarehouseInv, WarehouseTypeOK, Databases

\* Nothing a step of another kind does moves the checkpoint.
LEMMA CheckpointKept ==
  ASSUME CheckpointInv, db' = db, UNCHANGED <<cut, at, strategy, before>>
  PROVE  CheckpointInv'
BY DEF CheckpointInv

LEMMA CheckpointStep ==
  ASSUME RecoveryBase, OneName, CheckpointInv, [RecoveryNext]_recoveryVars
  PROVE  CheckpointInv'
<1> USE DEF driveVars, warehouseVars, recoveryVars
<1>1. CASE Commits \/ Drain \/ CommitOffset \/ UNCHANGED recoveryVars
  BY <1>1, CheckpointKept DEF Commits, Drain, CommitOffset
<1>2. CASE CutAndDrive
  <2> SUFFICES ASSUME strategy = "ledger", before = <<>> PROVE CheckpointInv'
    BY <1>2 DEF CheckpointInv, CutAndDrive
  <2>1. db' = db /\ cut = <<>> /\ at' = StartAt
    BY <1>2 DEF CutAndDrive
  <2>2. db.target = EmptyTarget /\ db.ledger[Ledger] = 0
    BY <2>1, WarehouseAssumption DEF RecoveryBase, CutInv, Untouched, WarehouseAssumption
  <2>3. at' = 1
    BY <2>1, <2>2 DEF OneName, StartAt, first_batch_to_apply, resume_point, LastBatch
  <2>4. cut' # <<>> => Cutting(cut', log')
    BY <1>2, CutAndDriveBase DEF RecoveryBase, CutInv
  <2>5. cut' # <<>> => CleanCut(cut', 0) = EmptyTarget /\ Len(cut') \in Nat
    BY <2>4, CleanCutSteps DEF Cutting
  <2> QED BY <2>1, <2>2, <2>3, <2>5 DEF CheckpointInv
<1>3. CASE StartBatch
  BY <1>3, CheckpointKept DEF StartBatch, Stage
<1>4. CASE RunStatement
  BY <1>4, CheckpointKept, StatementInv DEF RunStatement, RecoveryBase
<1>5. CASE FinishBatch
  <2> SUFFICES ASSUME strategy = "ledger", before = <<>> PROVE CheckpointInv'
    BY <1>5, FinishStep DEF CheckpointInv
  <2>1. /\ cut # <<>> /\ Cutting(cut, log) /\ at \in DOMAIN cut /\ at' = at + 1 /\ cut' = cut
        /\ db'.target = ApplyTo(db.target, cut[at], at, Guard, OnTombstone)
        /\ db'.ledger = [db.ledger EXCEPT ![Ledger] = at]
    BY <1>5, FinishStep
  <2>2. at = db.ledger[Ledger] + 1 /\ db.target = CleanCut(cut, db.ledger[Ledger])
    BY <2>1 DEF CheckpointInv
  <2>3. db'.ledger[Ledger] = at
    BY <2>1, WarehouseAssumption DEF WarehouseAssumption, RecoveryBase, WarehouseInv, WarehouseTypeOK, Databases
  <2>4. at - 1 = db.ledger[Ledger] /\ at <= Len(cut)
    BY <2>1, <2>2, LedgerIsNat, WarehouseAssumption DEF Cutting, WarehouseAssumption
  <2>5. CleanCut(cut, at) = ApplyTo(CleanCut(cut, at - 1), cut[at], at, Guard, OnTombstone)
    BY <2>1, CleanCutSteps DEF Cutting
  <2>6. db'.target = CleanCut(cut, at)
    BY <2>1, <2>2, <2>4, <2>5
  <2> QED BY <2>1, <2>3, <2>4, <2>6 DEF CheckpointInv
<1>6. CASE CrashNow
  BY <1>6, CrashStep, CheckpointKept
<1>7. CASE Resume
  <2>1. strategy = "ledger" => StartAt = db.ledger[Ledger] + 1
    BY DEF OneName, StartAt, first_batch_to_apply, resume_point, LastBatch
  <2> QED BY <1>7, <2>1 DEF Resume, CheckpointInv
<1>8. CASE Redrain
  BY <1>8 DEF Redrain, CheckpointInv
<1> QED BY <1>1, <1>2, <1>3, <1>4, <1>5, <1>6, <1>7, <1>8 DEF RecoveryNext, Drive

\* The ledger is a checkpoint: a consumer that restarts under the name it writes
\* under has, at every instant and however often it died, the table a run without
\* a death has after the batch the ledger names.  The merge needs no guard for it:
\* what protects the table is the transaction, whatever the merge does.
THEOREM TheLedgerIsACheckpoint ==
  ASSUME DriveAs \subseteq {Ledger}
  PROVE  RecoverySpec => []LedgerIsACheckpoint
<1>1. RecoveryInit => OneName /\ CheckpointInv
  <2>1. RecoveryInit => CheckpointInv
    BY DEF RecoveryInit, CheckpointInv
  <2> QED BY <2>1, OneNameStep
<1>2. RecoveryBase /\ (OneName /\ CheckpointInv) /\ [RecoveryNext]_recoveryVars
        => (OneName /\ CheckpointInv)'
  BY OneNameStep, CheckpointStep
<1>3. OneName /\ CheckpointInv => LedgerIsACheckpoint
  BY DEF OneName, CheckpointInv, LedgerIsACheckpoint, SameBatches, resume_point, LastBatch, CleanCut
<1> QED BY <1>1, <1>2, <1>3, RecoveryInvariance, PTL DEF RecoverySpec

-----------------------------------------------------------------------------
(* The recovering consumer implements ExactlyOnce.                          *)

\* One batching, resumed from the ledger under the name it is written under.
OneBatching == Strategies \subseteq {"ledger"} /\ DriveAs \subseteq {Ledger} /\ ~Redrains

NeverCutAgain == strategy = "ledger" /\ before = <<>>

LEMMA NeverCutAgainStep ==
  ASSUME OneBatching
  PROVE  /\ RecoveryInit => NeverCutAgain
         /\ NeverCutAgain /\ [RecoveryNext]_recoveryVars => NeverCutAgain'
<1>1. RecoveryInit => NeverCutAgain
  BY DEF RecoveryInit, NeverCutAgain, OneBatching
<1>2. [RecoveryNext]_recoveryVars => strategy' = strategy /\ before' = before
  BY DEF RecoveryNext, Drive, Commits, Drain, CutAndDrive, StartBatch, RunStatement, FinishBatch,
         CommitOffset, CrashNow, Resume, Redrain, recoveryVars, driveVars, OneBatching
<1> QED BY <1>1, <1>2 DEF NeverCutAgain

\* The promise reads the merge as this module does.
LEMMA SameMerge ==
  /\ Promise!Records = Records /\ Promise!EmptyTarget = EmptyTarget
  /\ \A t, b, n, guard, onT : Promise!ApplyTo(t, b, n, guard, onT) = ApplyTo(t, b, n, guard, onT)
<1>1. Promise!Records = Records /\ Promise!EmptyTarget = EmptyTarget
  BY DEF Promise!Records, Records, Promise!EmptyTarget, EmptyTarget
<1>2. \A b : Promise!Addressable(b) = Addressable(b)
  BY DEF Promise!Addressable, Addressable, Promise!Slot, Slot
<1>3. \A b, i, j : Promise!Supersedes(b, j, i) <=> Supersedes(b, j, i)
  BY DEF Promise!Supersedes, Supersedes
<1>4. \A b : Promise!Reduce(b) = Reduce(b)
  BY <1>2, <1>3, Zenon DEF Promise!Reduce, Reduce, Promise!Slot, Slot
<1>5. \A b : Promise!Tombstones(b) = Tombstones(b)
  BY Zenon DEF Promise!Tombstones, Tombstones
<1>6. \A t, stage, n, guard : Promise!MergeInto(t, stage, n, guard) = MergeInto(t, stage, n, guard)
  BY Zenon DEF Promise!MergeInto, MergeInto, Promise!Stored, Stored, Promise!Matched, Matched
<1>7. \A t, tombs, n : Promise!EntombIn(t, tombs, n) = EntombIn(t, tombs, n)
  BY Zenon DEF Promise!EntombIn, EntombIn, Promise!Entombed, Entombed, Promise!Entomb, Entomb
<1> QED BY <1>1, <1>4, <1>5, <1>6, <1>7, Zenon DEF Promise!ApplyTo, ApplyTo

promiseVars == <<cut, db.target, db.ledger[Ledger]>>

LEMMA InitKeepsPromise == RecoveryInit => Promise!Init
BY SameMerge, WarehouseAssumption DEF RecoveryInit, WarehouseInit, Promise!Init, WarehouseAssumption

LEMMA StepKeepsPromise ==
  ASSUME OneBatching, RecoveryBase, OneName, NeverCutAgain, CheckpointInv,
         [RecoveryNext]_recoveryVars
  PROVE  [Promise!Next]_promiseVars
<1> USE DEF driveVars, warehouseVars, recoveryVars
<1>1. CASE Commits \/ Drain \/ CommitOffset \/ UNCHANGED recoveryVars
  BY <1>1 DEF Commits, Drain, CommitOffset, promiseVars
<1>2. CASE CutAndDrive
  <2>1. cut = <<>> /\ db' = db
    BY <1>2 DEF CutAndDrive
  <2>2. cut' \in Seq(Seq(Records))
    <3>1. RecoveryBase'
      BY <1>2, CutAndDriveBase
    <3>2. cut' = <<>> \/ Cutting(cut', log')
      BY <3>1 DEF RecoveryBase, CutInv
    <3>3. <<>> \in Seq(Seq(Records))
      OBVIOUS
    <3> QED BY <3>2, <3>3 DEF Cutting
  <2> QED BY <2>1, <2>2, SameMerge DEF Promise!Next, Promise!Fix
<1>3. CASE StartBatch
  BY <1>3 DEF StartBatch, Stage, promiseVars
<1>4. CASE RunStatement
  BY <1>4, StatementInv DEF RunStatement, RecoveryBase, promiseVars
<1>5. CASE FinishBatch
  <2>1. /\ cut # <<>> /\ Cutting(cut, log) /\ at \in DOMAIN cut /\ cut' = cut
        /\ db'.target = ApplyTo(db.target, cut[at], at, Guard, OnTombstone)
        /\ db'.ledger = [db.ledger EXCEPT ![Ledger] = at]
    BY <1>5, FinishStep
  <2>2. at = db.ledger[Ledger] + 1
    BY <2>1 DEF CheckpointInv, NeverCutAgain
  <2>3. db'.ledger[Ledger] = at
    BY <2>1, WarehouseAssumption DEF WarehouseAssumption, RecoveryBase, WarehouseInv, WarehouseTypeOK, Databases
  <2>4. db.ledger[Ledger] < Len(cut)
    BY <2>1, <2>2, LedgerIsNat, WarehouseAssumption DEF Cutting, WarehouseAssumption
  <2>5. Promise!Apply
    BY <2>1, <2>2, <2>3, <2>4, SameMerge DEF Promise!Apply
  <2> QED BY <2>5 DEF Promise!Next
<1>6. CASE CrashNow
  BY <1>6, CrashStep DEF promiseVars
<1>7. CASE Resume
  BY <1>7 DEF Resume, promiseVars
<1>8. CASE Redrain
  BY <1>8 DEF Redrain, OneBatching
<1> QED BY <1>1, <1>2, <1>3, <1>4, <1>5, <1>6, <1>7, <1>8 DEF RecoveryNext, Drive

\* The safety half of AppliesEachBatchOnce: with its deaths, rollbacks and restarts
\* the consumer does nothing a machine could not do that fixes one list of batches
\* and applies each once, in order.  Only the ledger and the table it shares a
\* transaction with are looked at; every other step stutters.
THEOREM AppliesEachBatchAtMostOnce ==
  ASSUME OneBatching
  PROVE  RecoverySpec => Promise!Init /\ [][Promise!Next]_promiseVars
<1> DEFINE Inv == OneName /\ NeverCutAgain /\ CheckpointInv
<1>1. RecoveryInit => Inv
  BY OneNameStep, NeverCutAgainStep DEF OneBatching, RecoveryInit, CheckpointInv
<1>2. RecoveryBase /\ Inv /\ [RecoveryNext]_recoveryVars => Inv'
  BY OneNameStep, NeverCutAgainStep, CheckpointStep DEF OneBatching
<1>3. RecoveryBase /\ Inv /\ [RecoveryNext]_recoveryVars => [Promise!Next]_promiseVars
  BY StepKeepsPromise
<1> HIDE DEF Inv
<1> QED BY <1>1, <1>2, <1>3, InitKeepsPromise, RecoveryInvariance, PTL DEF RecoverySpec

-----------------------------------------------------------------------------
(* Replays over the same batches.                                           *)

\* A cut of the log meets every requirement of the merge.
LEMMA CutForTheMerge ==
  ASSUME MergeIsEnough, SourceTypeOK, LogInv, NEW c, Cutting(c, log)
  PROVE  /\ c \in Seq(Seq(Records)) /\ ~MergeByRecordKey /\ Guards(Guard)
         /\ \A m \in Nat : /\ FirstOf(c, m) \in SUBSET Records /\ FirstOf(c, m) \subseteq Stream(log)
                         /\ PositionsTellApart(FirstOf(c, m))
                         /\ TombstonesFramed(FirstOf(c, m)) /\ OneRowPerKey(FirstOf(c, m))
<1>1. c \in Seq(Seq(Records)) /\ ~MergeByRecordKey /\ Guards(Guard) /\ ~Ties /\ NarrowRows = {}
      /\ OneSlotPerKey /\ Len(c) \in Nat /\ DOMAIN c = 1..Len(c)
  <2>1. Guards(Guard)
    BY GuardsWhenOn, Zenon DEF MergeIsEnough
  <2>2. c \in Seq(Seq(Records)) /\ Len(c) \in Nat /\ DOMAIN c = 1..Len(c)
    BY DEF Cutting
  <2> QED BY <2>1, <2>2 DEF MergeIsEnough
<1>2. Stream(log) \subseteq Records
  BY StreamOfRecords
<1>3. ASSUME NEW m \in Nat
      PROVE  /\ FirstOf(c, m) \in SUBSET Records /\ FirstOf(c, m) \subseteq Stream(log)
             /\ PositionsTellApart(FirstOf(c, m))
             /\ TombstonesFramed(FirstOf(c, m)) /\ OneRowPerKey(FirstOf(c, m))
  <2> DEFINE H == FirstOf(c, m)
  <2>1. \A e : e \in H <=> \E i \in DOMAIN c : i <= m /\ e \in InBatch(c[i])
    BY FirstOfElements
  <2> HIDE DEF H
  <2>2. H \subseteq Stream(log)
    BY <2>1, HeldBatches DEF Cutting
  <2>3. PositionsTellApart(H) /\ OneRowPerKey(H)
    BY <1>1, <2>2, StreamPositions, StreamKeys
  <2>4. TombstonesFramed(H)
    <3> SUFFICES ASSUME NEW t \in H, t.tomb
                 PROVE  \E d \in H : ~d.tomb /\ d.op = "d" /\ d.key = t.key /\ d.lsn = t.lsn
      BY DEF TombstonesFramed
    <3> DEFINE d == ChangeRecord(t.at, log[t.at])
    <3>1. PICK j \in DOMAIN c : j <= m /\ t \in InBatch(c[j])
      BY <2>1
    <3>2. PICK i \in DOMAIN c : i <= j /\ d \in InBatch(c[i])
      BY <3>1 DEF Cutting
    <3>3. /\ log[t.at].op = "d" /\ t.key = KeyOf[log[t.at].row] /\ t.lsn = log[t.at].lsn
      BY <2>2, DeleteOfTombstone
    <3>4. ~d.tomb /\ d.op = "d" /\ d.key = t.key /\ d.lsn = t.lsn
      BY <3>3, RecordFields
    <3> HIDE DEF d
    <3>5. i <= m
      BY <1>1, <3>1, <3>2
    <3> QED BY <2>1, <3>2, <3>4, <3>5
  <2> QED BY <1>2, <2>2, <2>3, <2>4 DEF H
<1> QED BY <1>1, <1>3

\* One of the first batches again, on the table after them.
LEMMA ReplayedBatch ==
  ASSUME MergeIsEnough, SourceTypeOK, LogInv, NEW c, Cutting(c, log),
         NEW m \in 0..Len(c), NEW n \in DOMAIN c, n <= m
  PROVE  ApplyTo(CleanCut(c, m), c[n], n, Guard, OnTombstone) = CleanCut(c, m)
<1> DEFINE H == FirstOf(c, m)
<1> DEFINE t == CleanCut(c, m)
<1>1. c \in Seq(Seq(Records)) /\ Len(c) \in Nat /\ DOMAIN c = 1..Len(c) /\ m \in Nat /\ n \in Nat
  BY DEF Cutting
<1>2. /\ ~MergeByRecordKey /\ Guards(Guard) /\ H \in SUBSET Records
      /\ PositionsTellApart(H) /\ TombstonesFramed(H) /\ OneRowPerKey(H)
      /\ PositionsTellApart(FirstOf(c, Len(c)))
  BY <1>1, CutForTheMerge
<1>3. t \in Targets /\ \A r \in Rows : Shows(t[r], H, r)
  BY <1>1, <1>2, CleanRunShows DEF CleanCut
<1>4. InBatch(c[n]) \subseteq H
  BY <1>1, FirstOfElements
<1>5. c[n] \in Seq(Records)
  BY <1>1
<1> HIDE DEF H, t
<1>6. \A r \in Rows : ApplyTo(t, c[n], n, Guard, OnTombstone)[r] = t[r]
  BY <1>1, <1>2, <1>3, <1>4, <1>5, ReplayChangesNothing
<1>7. ApplyTo(t, c[n], n, Guard, OnTombstone) \in Targets
  BY <1>1, <1>3, <1>5, ApplyTyped
<1>8. ApplyTo(t, c[n], n, Guard, OnTombstone) = t
  BY <1>3, <1>6, <1>7 DEF Targets
<1> QED BY <1>8 DEF t

\* The table is the clean run's after some batch, and neither the loop nor anything
\* a restart could trust is ahead of it.
CleanUpTo(m) ==
  /\ db.target = CleanCut(cut, m)
  /\ at <= m + 1 /\ offset <= m
  /\ \A c \in Consumers : db.ledger[c] <= m

ReplayInv ==
  strategy # "offset_before" /\ cut # <<>> /\ before = <<>> =>
    \E m \in 0..Len(cut) : CleanUpTo(m)

LEMMA ReplayKept ==
  ASSUME ReplayInv, db' = db, UNCHANGED <<cut, at, strategy, before, offset>>
  PROVE  ReplayInv'
BY DEF ReplayInv, CleanUpTo

LEMMA ReplayStep ==
  ASSUME MergeIsEnough, RecoveryBase, ReplayInv, [RecoveryNext]_recoveryVars
  PROVE  ReplayInv'
<1> USE DEF driveVars, warehouseVars, recoveryVars
<1>1. CASE Commits \/ Drain \/ UNCHANGED recoveryVars
  BY <1>1, ReplayKept DEF Commits, Drain
<1>2. CASE CutAndDrive
  <2> SUFFICES ASSUME before = <<>>, cut' # <<>> PROVE \E m \in 0..Len(cut') : CleanUpTo(m)'
    BY <1>2 DEF ReplayInv, CutAndDrive
  <2>1. db' = db /\ cut = <<>> /\ at' = StartAt /\ offset' = offset
    BY <1>2 DEF CutAndDrive
  <2>2. db.target = EmptyTarget /\ offset = 0 /\ \A c \in Consumers : db.ledger[c] = 0
    BY <2>1 DEF RecoveryBase, CutInv, Untouched
  <2>3. consumer \in Consumers
    BY WarehouseAssumption, RecoveryAssumption
       DEF RecoveryBase, WarehouseAssumption, RecoveryAssumption
  <2>4. at' = 1
    BY <2>1, <2>2, <2>3 DEF StartAt, first_batch_to_apply, resume_point, LastBatch
  <2>5. Cutting(cut', log')
    BY <1>2, CutAndDriveBase DEF RecoveryBase, CutInv
  <2>6. CleanCut(cut', 0) = EmptyTarget /\ 0 \in 0..Len(cut')
    BY <2>5, CleanCutSteps DEF Cutting
  <2>7. CleanUpTo(0)'
    BY <2>1, <2>2, <2>4, <2>6 DEF CleanUpTo
  <2> QED BY <2>6, <2>7
<1>3. CASE StartBatch
  <2>1. strategy # "offset_before" => offset' = offset
    BY <1>3 DEF StartBatch
  <2> QED BY <1>3, <2>1 DEF StartBatch, Stage, ReplayInv, CleanUpTo
<1>4. CASE RunStatement
  BY <1>4, ReplayKept, StatementInv DEF RunStatement, RecoveryBase
<1>5. CASE FinishBatch
  <2> SUFFICES ASSUME strategy # "offset_before", before = <<>> PROVE ReplayInv'
    BY <1>5, FinishStep DEF ReplayInv
  <2>1. /\ cut # <<>> /\ Cutting(cut, log) /\ at \in DOMAIN cut /\ at' = at + 1 /\ cut' = cut
        /\ offset' = offset
        /\ db'.target = ApplyTo(db.target, cut[at], at, Guard, OnTombstone)
        /\ db'.ledger = [db.ledger EXCEPT ![Ledger] = at]
    BY <1>5, FinishStep
  <2>2. PICK m \in 0..Len(cut) : CleanUpTo(m)
    BY <2>1 DEF ReplayInv
  <2>3. /\ db.target = CleanCut(cut, m) /\ at <= m + 1 /\ offset <= m
        /\ \A c \in Consumers : db.ledger[c] <= m
    BY <2>2 DEF CleanUpTo
  <2>4. /\ at \in 1..Len(cut) /\ Len(cut) \in Nat /\ offset \in Nat /\ m \in Nat
        /\ db.ledger \in [Consumers -> Nat]
    BY <2>1 DEF Cutting, RecoveryBase, WarehouseInv, WarehouseTypeOK, Databases
  <2>5. \A c \in Consumers : db'.ledger[c] = at \/ db'.ledger[c] = db.ledger[c]
    BY <2>1, <2>4
  <2>6. CASE at <= m
    <3>1. db'.target = CleanCut(cut, m)
      BY <2>1, <2>3, <2>6, ReplayedBatch DEF RecoveryBase
    <3>2. at + 1 <= m + 1 /\ \A c \in Consumers : db'.ledger[c] <= m
      BY <2>3, <2>4, <2>5, <2>6
    <3>3. CleanUpTo(m)'
      BY <2>1, <2>3, <3>1, <3>2 DEF CleanUpTo
    <3> QED BY <2>1, <3>3 DEF ReplayInv
  <2>7. CASE at = m + 1
    <3>1. at - 1 = m /\ at \in 0..Len(cut)
      BY <2>4, <2>7
    <3>2. db'.target = CleanCut(cut, at)
      BY <2>1, <2>3, <3>1, CleanCutSteps DEF Cutting
    <3>3. offset <= at /\ at + 1 <= at + 1 /\ \A c \in Consumers : db'.ledger[c] <= at
      <4>1. \A c \in Consumers : db.ledger[c] \in Nat /\ db.ledger[c] <= m
        BY <2>3, <2>4
      <4> QED BY <2>3, <2>4, <2>5, <2>7, <4>1
    <3>4. PICK k \in 0..Len(cut) : k = at
      BY <3>1
    <3>5. CleanUpTo(k)'
      BY <2>1, <3>2, <3>3, <3>4 DEF CleanUpTo
    <3> QED BY <2>1, <3>5 DEF ReplayInv
  <2> QED BY <2>3, <2>4, <2>6, <2>7
<1>6. CASE CrashNow
  BY <1>6, CrashStep, ReplayKept
<1>7. CASE CommitOffset
  <2> SUFFICES ASSUME strategy # "offset_before", before = <<>> PROVE ReplayInv'
    BY <1>7 DEF ReplayInv, CommitOffset
  <2>1. /\ db' = db /\ offset' = at - 1 /\ UNCHANGED <<cut, at, strategy, before>> /\ cut # <<>>
    BY <1>7 DEF CommitOffset, OffsetBehind
  <2>2. PICK m \in 0..Len(cut) : CleanUpTo(m)
    BY <2>1 DEF ReplayInv
  <2>3. at - 1 <= m
    BY <2>2 DEF CleanUpTo, RecoveryBase
  <2>4. CleanUpTo(m)'
    BY <2>1, <2>2, <2>3 DEF CleanUpTo
  <2> QED BY <2>1, <2>4 DEF ReplayInv
<1>8. CASE Resume
  <2> SUFFICES ASSUME strategy # "offset_before", before = <<>>, cut # <<>> PROVE ReplayInv'
    BY <1>8 DEF ReplayInv, Resume
  <2>1. /\ db' = db /\ at' = StartAt /\ UNCHANGED <<cut, offset, strategy, before>>
    BY <1>8 DEF Resume
  <2>2. PICK m \in 0..Len(cut) : CleanUpTo(m)
    BY DEF ReplayInv
  <2>3. consumer \in Consumers /\ db.ledger[consumer] \in Nat /\ offset \in Nat
    BY WarehouseAssumption, RecoveryAssumption, LedgerIsNat
       DEF RecoveryBase, WarehouseAssumption, RecoveryAssumption
  <2>4. StartAt <= m + 1
    <3>1. offset <= m /\ db.ledger[consumer] <= m
      BY <2>2, <2>3 DEF CleanUpTo
    <3>2. StartAt \in {1, offset + 1, db.ledger[consumer] + 1}
      BY DEF StartAt, first_batch_to_apply, resume_point, LastBatch
    <3> QED BY <2>3, <3>1, <3>2
  <2>5. CleanUpTo(m)'
    BY <2>1, <2>2, <2>4 DEF CleanUpTo
  <2> QED BY <2>1, <2>5 DEF ReplayInv
<1>9. CASE Redrain
  BY <1>9 DEF Redrain, ReplayInv
<1> QED BY <1>1, <1>2, <1>3, <1>4, <1>5, <1>6, <1>7, <1>8, <1>9 DEF RecoveryNext, Drive

\* Restarts over the same batches end in the clean run's table, byte for byte and
\* batch column and all, however often the process dies and however far back a
\* restart goes: from the ledger under any name, from the beginning, or from an
\* offset written after its merge.
THEOREM RecoveredRunsAreClean ==
  ASSUME MergeIsEnough
  PROVE  RecoverySpec => []RecoveredIsClean
<1>1. RecoveryInit => ReplayInv
  BY DEF RecoveryInit, ReplayInv
<1>2. RecoveryBase /\ ReplayInv /\ [RecoveryNext]_recoveryVars => ReplayInv'
  BY ReplayStep
<1>3. RecoveryBase /\ ReplayInv => RecoveredIsClean
  <2> SUFFICES ASSUME RecoveryBase, ReplayInv, Finished, SameBatches, strategy # "offset_before"
               PROVE  db.target = CleanCut(cut, Len(cut))
    BY DEF RecoveredIsClean, CleanCut
  <2>1. PICK m \in 0..Len(cut) : CleanUpTo(m)
    BY DEF ReplayInv, SameBatches
  <2>2. at <= m + 1 /\ at > Len(cut) /\ Len(cut) \in Nat /\ at \in Nat
    BY <2>1 DEF CleanUpTo, Finished, RecoveryBase, CutInv, Cutting
  <2>3. m = Len(cut)
    BY <2>2
  <2> QED BY <2>1, <2>3 DEF CleanUpTo
<1> QED BY <1>1, <1>2, <1>3, RecoveryInvariance, PTL DEF RecoverySpec

-----------------------------------------------------------------------------
(* What a lost record can hurt.                                             *)

\* A row shows the newest of the changes committed, whatever was lost or repeated.
LandedShows == \A r \in Rows : Shows(db.target[r], landed, r)

LEMMA LandedShowsInit == RecoveryInit => LandedShows
<1> SUFFICES ASSUME RecoveryInit, NEW r \in Rows PROVE Shows(db.target[r], landed, r)
  BY DEF LandedShows
<1>1. db.target[r] = Absent /\ landed = {}
  BY DEF RecoveryInit, WarehouseInit, EmptyTarget
<1> QED BY <1>1 DEF Shows, ChangesFor

LEMMA LandedShowsKept ==
  ASSUME LandedShows, db' = db, landed' = landed
  PROVE  LandedShows'
BY DEF LandedShows

LEMMA LandedShowsStep ==
  ASSUME MergeIsEnough, RecoveryBase, LandedShows, [RecoveryNext]_recoveryVars
  PROVE  LandedShows'
<1> USE DEF driveVars, warehouseVars, recoveryVars
<1>1. CASE FinishBatch
  <2>1. /\ at \in DOMAIN cut /\ Cutting(cut, log)
        /\ cut[at] \in Seq(Records) /\ InBatch(cut[at]) \subseteq Stream(log)
        /\ landed' = landed \cup InBatch(cut[at])
        /\ db'.target = ApplyTo(db.target, cut[at], at, Guard, OnTombstone)
    BY <1>1, FinishStep
  <2>2. /\ landed \in SUBSET Records /\ at \in Nat /\ db.target \in Targets
        /\ landed \cup InBatch(cut[at]) \subseteq Stream(log)
    BY <2>1, StreamOfRecords DEF RecoveryBase, WarehouseInv, WarehouseTypeOK, Databases
  <2>3. PositionsTellApart(landed \cup InBatch(cut[at]))
    BY <2>2, StreamPositions DEF MergeIsEnough, RecoveryBase
  <2>4. ~MergeByRecordKey
    BY DEF MergeIsEnough
  <2>5. Guards(Guard)
    BY GuardsWhenOn, Zenon DEF MergeIsEnough
  <2> DEFINE t == ApplyTo(db.target, cut[at], at, Guard, OnTombstone)
  <2>6. \A r \in Rows : Shows(t[r], landed \cup InBatch(cut[at]), r)
    <3> SUFFICES ASSUME NEW r \in Rows PROVE Shows(t[r], landed \cup InBatch(cut[at]), r)
      OBVIOUS
    <3>1. Shows(db.target[r], landed, r)
      BY DEF LandedShows
    <3> QED BY <2>1, <2>2, <2>3, <2>4, <2>5, <3>1, BatchShows
  <2> HIDE DEF t
  <2>7. db'.target = t
    BY <2>1 DEF t
  <2> QED BY <2>1, <2>6, <2>7 DEF LandedShows
<1>2. CASE RunStatement
  BY <1>2, LandedShowsKept, StatementInv DEF RunStatement, RecoveryBase
<1>3. CASE CrashNow
  BY <1>3, LandedShowsKept, CrashStep
<1>4. CASE Commits \/ Drain \/ CutAndDrive \/ StartBatch \/ CommitOffset \/ Resume \/ Redrain
           \/ UNCHANGED recoveryVars
  BY <1>4, LandedShowsKept
     DEF Commits, Drain, CutAndDrive, StartBatch, Stage, CommitOffset, Resume, Redrain
<1> QED BY <1>1, <1>2, <1>3, <1>4 DEF RecoveryNext, Drive

SameButForTheBatch(a, b) ==
  /\ a = Absent <=> b = Absent
  /\ a # Absent => [a EXCEPT !.batch = 0] = [b EXCEPT !.batch = 0]

\* Two rows that show the same changes, tombstones and all, differ in the batch
\* column at most.
LEMMA SameShown ==
  ASSUME NEW r \in Rows, NEW k, NEW H \in SUBSET Records, NEW G \in SUBSET Records, H \subseteq G,
         PositionsTellApart(G), TombstonesFramed(G), OneRowPerKey(G),
         \A e \in G : e.key = k => e \in H,
         \A e \in ChangesFor(r, G) : e.key = k,
         NEW a \in StoredRows \cup {Absent}, NEW b \in StoredRows \cup {Absent},
         Shows(a, H, r), Shows(b, G, r)
  PROVE  SameButForTheBatch(a, b)
<1>1. ChangesFor(r, H) = ChangesFor(r, G)
  BY DEF ChangesFor
<1>2. a = Absent <=> b = Absent
  BY <1>1 DEF Shows
<1>3. ASSUME a # Absent PROVE [a EXCEPT !.batch = 0] = [b EXCEPT !.batch = 0]
  <2>1. PICK e \in ChangesFor(r, G) :
          /\ \A f \in ChangesFor(r, G) : f.lsn <= e.lsn
          /\ a.lsn = e.lsn /\ a.val = e.val /\ a.key = e.key
          /\ e.op = "d" => a.deleted
          /\ a.deleted => \/ e.op = "d"
                          \/ \E t \in H : t.tomb /\ t.key = e.key /\ e.lsn <= t.lsn
    BY <1>1, <1>3 DEF Shows
  <2>2. PICK g \in ChangesFor(r, G) :
          /\ \A f \in ChangesFor(r, G) : f.lsn <= g.lsn
          /\ b.lsn = g.lsn /\ b.val = g.val /\ b.key = g.key
          /\ g.op = "d" => b.deleted
          /\ b.deleted => \/ g.op = "d"
                          \/ \E t \in G : t.tomb /\ t.key = g.key /\ g.lsn <= t.lsn
    BY <1>2, <1>3 DEF Shows
  <2>3. e \in G /\ g \in G /\ ~e.tomb /\ ~g.tomb /\ e.row = r /\ g.row = r
    BY DEF ChangesFor
  <2>4. e.lsn \in Nat /\ g.lsn \in Nat /\ e.lsn <= g.lsn /\ g.lsn <= e.lsn
    BY <2>1, <2>2, <2>3 DEF Records
  <2>5. e = g
    BY <2>3, <2>4 DEF PositionsTellApart
  <2>6. ASSUME NEW t \in G, t.tomb, t.key = e.key, e.lsn <= t.lsn PROVE e.op = "d"
    <3>1. PICK d \in G : ~d.tomb /\ d.op = "d" /\ d.key = t.key /\ d.lsn = t.lsn
      BY <2>6 DEF TombstonesFramed
    <3>2. d \in ChangesFor(r, G) /\ d.lsn \in Nat
      BY <2>3, <2>6, <3>1 DEF OneRowPerKey, ChangesFor, Records
    <3>3. d.lsn = e.lsn
      BY <2>1, <2>4, <2>6, <3>1, <3>2
    <3> QED BY <2>3, <3>1, <3>2, <3>3 DEF PositionsTellApart, ChangesFor
  <2>7. (a.deleted <=> e.op = "d") /\ (b.deleted <=> e.op = "d")
    BY <2>1, <2>2, <2>5, <2>6
  <2>8. a \in StoredRows /\ b \in StoredRows
    BY <1>2, <1>3
  <2>9. a.lsn = b.lsn /\ a.val = b.val /\ a.key = b.key /\ a.deleted = b.deleted
    BY <2>1, <2>2, <2>5, <2>7, <2>8 DEF StoredRows
  <2> QED BY <2>8, <2>9 DEF StoredRows
<1> QED BY <1>2, <1>3 DEF SameButForTheBatch

\* A lost record hurts the rows of its own key at most: wherever the batching moved
\* and whatever was applied twice, a row whose records all landed ends up as the
\* run without a death left it.  Neither the end of the run nor the number of
\* deaths is needed for it.
THEOREM OnlyTheLostAreWrong ==
  ASSUME MergeIsEnough
  PROVE  RecoverySpec => []OnlyLostKeysAreWrong
<1>1. RecoveryBase /\ LandedShows => OnlyLostKeysAreWrong
  <2> SUFFICES ASSUME RecoveryBase, LandedShows, Finished, NEW r \in Rows,
                      \A e \in Lost : e.key # KeyOf[r]
               PROVE  Fingerprint(db.target)[r] = Clean[r]
    BY DEF OnlyLostKeysAreWrong
  <2> DEFINE c == FirstCut
  <2> DEFINE G == FirstOf(c, Len(c))
  <2> DEFINE a == db.target[r]
  <2> DEFINE b == CleanCut(c, Len(c))[r]
  <2>1. Cutting(c, log) /\ SourceTypeOK /\ LogInv
    BY DEF FirstCut, Finished, RecoveryBase, CutInv
  <2> HIDE DEF c
  <2>2. c \in Seq(Seq(Records)) /\ Len(c) \in Nat /\ DOMAIN c = 1..Len(c)
    BY <2>1 DEF Cutting
  <2>3. /\ ~MergeByRecordKey /\ Guards(Guard) /\ G \in SUBSET Records
        /\ PositionsTellApart(G) /\ TombstonesFramed(G) /\ OneRowPerKey(G)
    BY <2>1, <2>2, CutForTheMerge
  <2>4. G = Stream(log)
    <3>1. \A e : e \in G <=> \E i \in DOMAIN c : e \in InBatch(c[i])
      <4>1. \A i \in DOMAIN c : i <= Len(c)
        BY <2>2
      <4> QED BY <4>1, FirstOfElements
    <3> HIDE DEF G
    <3> QED BY <2>1, <3>1, HeldBatches DEF Cutting
  <2>5. CleanCut(c, Len(c)) \in Targets /\ Shows(b, G, r)
    BY <2>2, <2>3, CleanRunShows DEF CleanCut
  <2>6. db.target \in Targets /\ Shows(a, landed, r) /\ landed \subseteq Stream(log)
    BY DEF LandedShows, RecoveryBase, WarehouseInv, WarehouseTypeOK, Databases
  <2>7. Clean[r] = IF b = Absent THEN Absent ELSE [b EXCEPT !.batch = 0]
    BY DEF Clean, Fingerprint, CleanCut, c
  <2>8. Fingerprint(db.target)[r] = IF a = Absent THEN Absent ELSE [a EXCEPT !.batch = 0]
    BY DEF Fingerprint
  <2>9. \A e \in G : e.key = KeyOf[r] => e \in landed
    BY <2>4 DEF Lost
  <2>10. \A e \in ChangesFor(r, G) : e.key = KeyOf[r]
    BY <2>1, <2>4, ChangeOfRecord DEF ChangesFor, MergeIsEnough
  <2>11. a \in StoredRows \cup {Absent} /\ b \in StoredRows \cup {Absent}
    BY <2>5, <2>6 DEF Targets
  <2> HIDE DEF G, a, b
  <2>12. SameButForTheBatch(a, b)
    <3>1. landed \in SUBSET Records /\ landed \subseteq G
      BY <2>3, <2>4, <2>6
    <3> DEFINE k == KeyOf[r]
    <3>2. \A e \in G : e.key = k => e \in landed
      BY <2>9
    <3>3. \A e \in ChangesFor(r, G) : e.key = k
      BY <2>10
    <3> HIDE DEF k
    <3>4. Shows(a, landed, r) /\ Shows(b, G, r)
      BY <2>5, <2>6
    <3>5. G \in SUBSET Records /\ PositionsTellApart(G) /\ TombstonesFramed(G) /\ OneRowPerKey(G)
      BY <2>3
    <3> QED BY <2>11, <3>1, <3>2, <3>3, <3>4, <3>5, SameShown
  <2> QED BY <2>7, <2>8, <2>12 DEF SameButForTheBatch
<1> QED BY <1>1, LandedShowsInit, LandedShowsStep, RecoveryInvariance, PTL DEF RecoverySpec

-----------------------------------------------------------------------------
(* What never lands when the batching moves under the number.               *)

LEMMA AppliedElements ==
  ASSUME NEW c, NEW n
  PROVE  \A e : /\ e \in AppliedBefore(c, n) <=> \E i \in DOMAIN c : i < n /\ e \in InBatch(c[i])
                /\ e \in Replayed(c, n) <=> \E i \in DOMAIN c : i >= n /\ e \in InBatch(c[i])
BY ToSetIsInBatch DEF AppliedBefore, Replayed

\* The records of the batches of c from the n-th up to the one before the k-th.
Between(c, n, k) == {e \in Held(c) : \E i \in DOMAIN c : n <= i /\ i < k /\ e \in InBatch(c[i])}

LEMMA BetweenElements ==
  ASSUME NEW c, NEW n, NEW k
  PROVE  \A e : e \in Between(c, n, k) <=>
                  \E i \in DOMAIN c : n <= i /\ i < k /\ e \in InBatch(c[i])
BY HeldBatches DEF Between

\* Until the first death is dealt with everything before the loop has landed, and
\* the ledger says so.
FirstRun ==
  cut # <<>> /\ (crashes = 0 \/ (crashes = 1 /\ pc = "down")) =>
    at = db.ledger[Ledger] + 1 /\ landed = AppliedBefore(cut, at)

\* Over a second batching: what landed under the first stays, and the rest is what
\* the loop has passed over since it resumed.
SecondRun ==
  before # <<>> /\ crashes = 1 =>
    /\ pc # "down"
    /\ cut = <<>> => landed = AppliedBefore(before, db.ledger[Ledger] + 1)
    /\ cut # <<>> /\ strategy \in {"ledger", "replay_all"} =>
         \E n \in Nat :
           /\ resumed = n \/ resumed = 1
           /\ resumed <= at
           /\ landed = AppliedBefore(before, n) \cup Between(cut, resumed, at)

LEMMA RunsKept ==
  ASSUME FirstRun, SecondRun, db' = db,
         (pc = "down") <=> (pc' = "down"),
         UNCHANGED <<cut, at, strategy, before, crashes, resumed, landed>>
  PROVE  FirstRun' /\ SecondRun'
BY DEF FirstRun, SecondRun

LEMMA RunsStep ==
  ASSUME RecoveryBase, FirstRun, SecondRun, [RecoveryNext]_recoveryVars
  PROVE  FirstRun' /\ SecondRun'
<1> USE DEF driveVars, warehouseVars, recoveryVars
<1>1. CASE Commits \/ Drain \/ CommitOffset \/ UNCHANGED recoveryVars
  BY <1>1, RunsKept DEF Commits, Drain, CommitOffset
<1>2. CASE CutAndDrive
  <2>1. /\ db' = db /\ cut = <<>> /\ at' = StartAt /\ resumed' = StartAt
        /\ UNCHANGED <<pc, strategy, consumer, before, crashes, landed>>
    BY <1>2 DEF CutAndDrive
  <2>2. Cutting(cut', log') /\ cut' # <<>>
    <3>1. cut' # <<>>
      <4>1. PICK size \in 1..MaxBatch : cut' = Batches(order, size)
        BY <1>2 DEF CutAndDrive
      <4>2. size \in Nat \ {0}
        BY RecoveryAssumption DEF RecoveryAssumption
      <4>3. Cutting(cut', log)
        BY <1>2, <4>1, <4>2, BatchesCut, ToSetIsInBatch DEF CutAndDrive, RecoveryBase
      <4> QED BY <4>3 DEF Cutting
    <3> QED BY <1>2, <3>1, CutAndDriveBase DEF RecoveryBase, CutInv
  <2>3. consumer \in Consumers /\ db.ledger[consumer] \in Nat /\ db.ledger[Ledger] \in Nat
    BY WarehouseAssumption, RecoveryAssumption, LedgerIsNat
       DEF RecoveryBase, WarehouseAssumption, RecoveryAssumption
  <2>4. pc # "down"
    BY <2>1 DEF RecoveryBase, CutInv
  <2>5. FirstRun'
    <3> SUFFICES ASSUME crashes = 0
                 PROVE  at' = db.ledger[Ledger] + 1 /\ landed = AppliedBefore(cut', at')
      BY <2>1, <2>4 DEF FirstRun
    <3>1. before = <<>>
      BY DEF RecoveryBase, CutInv
    <3>2. /\ \A c \in Consumers : db.ledger[c] = 0
          /\ offset = 0 /\ landed = {}
      BY <2>1, <3>1 DEF RecoveryBase, CutInv, Untouched
    <3>3. at' = 1 /\ db.ledger[Ledger] = 0
      BY <2>1, <2>3, <3>2, WarehouseAssumption
         DEF StartAt, first_batch_to_apply, resume_point, LastBatch, WarehouseAssumption
    <3>4. AppliedBefore(cut', 1) = {}
      <4>1. \A i \in DOMAIN cut' : i \in Nat \ {0}
        BY <2>2 DEF Cutting
      <4> QED BY <4>1, AppliedElements
    <3> QED BY <3>2, <3>3, <3>4
  <2>6. SecondRun'
    <3> SUFFICES ASSUME before # <<>>, crashes = 1, strategy \in {"ledger", "replay_all"}
                 PROVE  \E n \in Nat :
                          /\ StartAt = n \/ StartAt = 1
                          /\ StartAt <= StartAt
                          /\ landed = AppliedBefore(before, n) \cup Between(cut', StartAt, StartAt)
      BY <2>1, <2>2, <2>4 DEF SecondRun
    <3>1. landed = AppliedBefore(before, db.ledger[Ledger] + 1)
      BY <2>1 DEF SecondRun
    <3>2. StartAt = db.ledger[Ledger] + 1 \/ StartAt = 1
      <4>1. consumer # Ledger => db.ledger[consumer] = 0
        BY <2>3 DEF RecoveryBase, OthersIdle
      <4> QED BY <4>1 DEF StartAt, first_batch_to_apply, resume_point, LastBatch
    <3>3. StartAt \in Nat /\ \A i \in DOMAIN cut' : i \in Nat
      BY <2>2, StartTyped DEF Cutting
    <3>4. Between(cut', StartAt, StartAt) = {}
      <4>1. \A i \in DOMAIN cut' : ~(StartAt <= i /\ i < StartAt)
        BY <3>3
      <4> QED BY <4>1, BetweenElements
    <3>5. db.ledger[Ledger] + 1 \in Nat /\ StartAt <= StartAt
      BY <2>3, <3>3
    <3> QED BY <3>1, <3>2, <3>4, <3>5
  <2> QED BY <2>5, <2>6
<1>3. CASE StartBatch
  BY <1>3, RunsKept DEF StartBatch, Stage
<1>4. CASE RunStatement
  BY <1>4, RunsKept, StatementInv DEF RunStatement, RecoveryBase, FailurePoints
<1>5. CASE FinishBatch
  <2>1. /\ cut # <<>> /\ Cutting(cut, log) /\ at \in DOMAIN cut /\ at' = at + 1 /\ cut' = cut
        /\ landed' = landed \cup InBatch(cut[at]) /\ pc = "tombstoned" /\ pc' = "idle"
        /\ db'.ledger = [db.ledger EXCEPT ![Ledger] = at]
        /\ UNCHANGED <<strategy, before, crashes, resumed>>
    BY <1>5, FinishStep
  <2>2. db'.ledger[Ledger] = at
    BY <2>1, WarehouseAssumption DEF WarehouseAssumption, RecoveryBase, WarehouseInv, WarehouseTypeOK, Databases
  <2>3. at \in Nat /\ \A i \in DOMAIN cut : i \in Nat
    BY <2>1 DEF Cutting
  <2>4. FirstRun'
    <3> SUFFICES ASSUME crashes = 0 PROVE landed' = AppliedBefore(cut, at + 1)
      BY <2>1, <2>2 DEF FirstRun
    <3>1. landed = AppliedBefore(cut, at)
      BY <2>1 DEF FirstRun
    <3>2. \A i \in DOMAIN cut : i < at + 1 <=> i < at \/ i = at
      BY <2>3
    <3>3. \A e : e \in landed' <=> e \in AppliedBefore(cut, at + 1)
      BY <2>1, <3>1, <3>2, AppliedElements
    <3> QED BY <3>3
  <2>5. SecondRun'
    <3> SUFFICES ASSUME before # <<>>, crashes = 1, strategy \in {"ledger", "replay_all"}
                 PROVE  \E n \in Nat :
                          /\ resumed = n \/ resumed = 1
                          /\ resumed <= at + 1
                          /\ landed' = AppliedBefore(before, n) \cup Between(cut, resumed, at + 1)
      BY <2>1 DEF SecondRun
    <3>1. PICK n \in Nat : /\ resumed = n \/ resumed = 1
                           /\ resumed <= at
                           /\ landed = AppliedBefore(before, n) \cup Between(cut, resumed, at)
      BY <2>1 DEF SecondRun
    <3>2. resumed \in Nat
      BY DEF RecoveryBase
    <3>3. \A i \in DOMAIN cut :
            resumed <= i /\ i < at + 1 <=> (resumed <= i /\ i < at) \/ i = at
      BY <2>3, <3>1, <3>2
    <3>4. \A e : e \in Between(cut, resumed, at + 1) <=>
                   e \in Between(cut, resumed, at) \cup InBatch(cut[at])
      BY <2>1, <3>3, BetweenElements
    <3>5. landed' = AppliedBefore(before, n) \cup Between(cut, resumed, at + 1)
      BY <2>1, <3>1, <3>4
    <3> QED BY <2>3, <3>1, <3>2, <3>5
  <2> QED BY <2>4, <2>5
<1>6. CASE CrashNow
  <2>1. /\ db' = db /\ pc' = "down" /\ cut # <<>> /\ crashes' = crashes + 1
        /\ UNCHANGED <<cut, at, strategy, before, resumed, landed>>
        /\ crashes \in Nat
    BY <1>6, CrashStep DEF RecoveryBase
  <2>2. crashes' = 1 => crashes = 0
    BY <2>1
  <2>3. crashes' = 1 => before = <<>>
    BY <2>2 DEF RecoveryBase, CutInv
  <2>4. crashes' # 0
    BY <2>1
  <2> QED BY <2>1, <2>2, <2>3, <2>4 DEF FirstRun, SecondRun
<1>7. CASE Resume
  <2>1. /\ db' = db /\ pc = "down" /\ pc' = "idle" /\ UNCHANGED <<cut, crashes, before>>
        /\ crashes > 0 /\ crashes \in Nat
    BY <1>7 DEF Resume, RecoveryBase, CutInv
  <2>2. crashes # 0
    BY <2>1
  <2> QED BY <2>1, <2>2 DEF FirstRun, SecondRun
<1>8. CASE Redrain
  <2>1. /\ db' = db /\ pc = "down" /\ pc' = "idle" /\ cut' = <<>> /\ before' = cut /\ cut # <<>>
        /\ UNCHANGED <<crashes, landed>>
    BY <1>8 DEF Redrain, RecoveryBase, CutInv
  <2>2. crashes = 1 => landed = AppliedBefore(cut, db.ledger[Ledger] + 1)
    BY <2>1 DEF FirstRun
  <2> QED BY <2>1, <2>2 DEF FirstRun, SecondRun
<1> QED BY <1>1, <1>2, <1>3, <1>4, <1>5, <1>6, <1>7, <1>8 DEF RecoveryNext, Drive

\* A batch number is not an offset: when a restart asks the ledger where to go on
\* and a second drain has moved the batches, what never lands is what resume_gap
\* calls dropped, no record more and none less, whatever the two drains came to.
THEOREM TheGapIsWhatNeverLands == RecoverySpec => []GapIsWhatNeverLands
<1>1. RecoveryInit => FirstRun /\ SecondRun
  BY DEF RecoveryInit, FirstRun, SecondRun
<1>2. RecoveryBase /\ (FirstRun /\ SecondRun) /\ [RecoveryNext]_recoveryVars
        => (FirstRun /\ SecondRun)'
  BY RunsStep
<1>3. RecoveryBase /\ (FirstRun /\ SecondRun) => GapIsWhatNeverLands
  <2> SUFFICES ASSUME RecoveryBase, SecondRun, Finished, before # <<>>, crashes = 1,
                      strategy \in {"ledger", "replay_all"}
               PROVE  Lost = Dropped(before, cut, resumed)
    BY DEF GapIsWhatNeverLands
  <2>1. /\ Cutting(cut, log) /\ cut # <<>> /\ Held(cut) = Stream(log)
        /\ Len(cut) \in Nat /\ DOMAIN cut = 1..Len(cut) /\ at \in Nat /\ resumed \in Nat \ {0}
        /\ at > Len(cut)
    BY DEF Finished, RecoveryBase, CutInv, Cutting
  <2>2. PICK n \in Nat : /\ resumed = n \/ resumed = 1
                         /\ landed = AppliedBefore(before, n) \cup Between(cut, resumed, at)
    BY <2>1 DEF SecondRun
  <2>3. Between(cut, resumed, at) = Replayed(cut, resumed)
    <3>1. \A i \in DOMAIN cut : (resumed <= i /\ i < at) <=> i >= resumed
      BY <2>1
    <3>2. \A e : e \in Between(cut, resumed, at) <=> e \in Replayed(cut, resumed)
      BY <3>1, AppliedElements, BetweenElements
    <3> QED BY <3>2
  <2>4. CASE resumed = n
    BY <2>1, <2>2, <2>3, <2>4 DEF Lost, Dropped
  <2>5. CASE resumed = 1
    <3>1. Replayed(cut, 1) = Held(cut)
      <4>1. \A i \in DOMAIN cut : i >= 1
        BY <2>1
      <4>2. \A e : e \in Replayed(cut, 1) <=> e \in Held(cut)
        BY <4>1, AppliedElements, HeldBatches
      <4> QED BY <4>2
    <3> QED BY <2>1, <2>2, <2>3, <2>5, <3>1 DEF Lost, Dropped
  <2> QED BY <2>2, <2>4, <2>5
<1> QED BY <1>1, <1>2, <1>3, RecoveryInvariance, PTL DEF RecoverySpec

-----------------------------------------------------------------------------
(* What an offset beside the ledger costs.                                  *)

\* An offset written after its merge is never ahead of what has landed.
OffsetAfterInv ==
  strategy = "offset_after" /\ cut # <<>> /\ before = <<>> =>
    /\ offset < at
    /\ AppliedBefore(cut, at) \subseteq landed

\* The batches of a set of numbers.
Of(c, S) == {e \in Held(c) : \E i \in DOMAIN c : i \in S /\ e \in InBatch(c[i])}

LEMMA OfElements ==
  ASSUME NEW c, NEW S
  PROVE  \A e : e \in Of(c, S) <=> \E i \in DOMAIN c : i \in S /\ e \in InBatch(c[i])
BY HeldBatches DEF Of

\* The batches an offset written before its merge has passed over for good.
Passed == 1..(IF pc \in FailurePoints THEN offset - 1 ELSE offset)

\* Every batch passed over has landed, but for one per death at most.
OffsetBeforeInv ==
  strategy = "offset_before" /\ cut # <<>> /\ before = <<>> =>
    /\ offset <= Len(cut)
    /\ IF pc = "idle" THEN offset = at - 1
       ELSE IF pc = "down" THEN offset \in {at - 1, at} ELSE offset = at
    /\ \E S \in SUBSET Passed :
         /\ IsFiniteSet(S) /\ Cardinality(S) <= crashes
         /\ landed = Of(cut, Passed \ S)

LEMMA OffsetAfterStep ==
  ASSUME RecoveryBase, OffsetAfterInv, [RecoveryNext]_recoveryVars
  PROVE  OffsetAfterInv'
<1> USE DEF driveVars, warehouseVars, recoveryVars
<1>1. CASE Commits \/ Drain \/ UNCHANGED recoveryVars
  BY <1>1 DEF Commits, Drain, OffsetAfterInv
<1>2. CASE CutAndDrive
  <2> SUFFICES ASSUME strategy = "offset_after", before = <<>>, cut' # <<>>
               PROVE  offset < StartAt /\ AppliedBefore(cut', StartAt) \subseteq landed
    BY <1>2 DEF OffsetAfterInv, CutAndDrive
  <2>1. cut = <<>> /\ offset = 0
    BY <1>2 DEF CutAndDrive, RecoveryBase, CutInv, Untouched
  <2>2. StartAt = 1
    BY <2>1 DEF StartAt
  <2>3. Cutting(cut', log')
    BY <1>2, CutAndDriveBase DEF RecoveryBase, CutInv
  <2>4. \A i \in DOMAIN cut' : ~(i < 1)
    BY <2>3 DEF Cutting
  <2> QED BY <2>1, <2>2, <2>4, AppliedElements
<1>3. CASE StartBatch
  BY <1>3 DEF StartBatch, Stage, OffsetAfterInv
<1>4. CASE RunStatement
  BY <1>4, StatementInv DEF RunStatement, RecoveryBase, OffsetAfterInv
<1>5. CASE FinishBatch
  <2> SUFFICES ASSUME strategy = "offset_after", before = <<>> PROVE OffsetAfterInv'
    BY <1>5, FinishStep DEF OffsetAfterInv
  <2>1. /\ cut # <<>> /\ Cutting(cut, log) /\ at \in DOMAIN cut /\ at' = at + 1 /\ cut' = cut
        /\ landed' = landed \cup InBatch(cut[at]) /\ offset' = offset
    BY <1>5, FinishStep
  <2>2. at \in Nat /\ offset \in Nat /\ \A i \in DOMAIN cut : i \in Nat
    BY <2>1 DEF RecoveryBase, Cutting
  <2>3. offset < at /\ AppliedBefore(cut, at) \subseteq landed
    BY <2>1 DEF OffsetAfterInv
  <2>4. AppliedBefore(cut, at + 1) \subseteq landed'
    <3>1. \A i \in DOMAIN cut : i < at + 1 <=> i < at \/ i = at
      BY <2>2
    <3> QED BY <2>1, <2>3, <3>1, AppliedElements
  <2>5. offset < at + 1
    BY <2>2, <2>3
  <2> QED BY <2>1, <2>4, <2>5 DEF OffsetAfterInv
<1>6. CASE CrashNow
  BY <1>6, CrashStep DEF OffsetAfterInv
<1>7. CASE CommitOffset
  BY <1>7 DEF CommitOffset, OffsetAfterInv, RecoveryBase
<1>8. CASE Resume
  <2> SUFFICES ASSUME strategy = "offset_after", before = <<>>, cut # <<>>
               PROVE  offset < offset + 1 /\ AppliedBefore(cut, offset + 1) \subseteq landed
    BY <1>8 DEF OffsetAfterInv, Resume, StartAt
  <2>1. offset < at /\ AppliedBefore(cut, at) \subseteq landed /\ offset \in Nat /\ at \in Nat
    BY DEF OffsetAfterInv, RecoveryBase
  <2>2. \A i \in DOMAIN cut : i \in Nat
    BY DEF RecoveryBase, CutInv, Cutting
  <2>3. \A i \in DOMAIN cut : i < offset + 1 => i < at
    BY <2>1, <2>2
  <2> QED BY <2>1, <2>3, AppliedElements
<1>9. CASE Redrain
  BY <1>9 DEF Redrain, OffsetAfterInv
<1> QED BY <1>1, <1>2, <1>3, <1>4, <1>5, <1>6, <1>7, <1>8, <1>9 DEF RecoveryNext, Drive

LEMMA OffsetBeforeStep ==
  ASSUME RecoveryBase, OffsetBeforeInv, [RecoveryNext]_recoveryVars
  PROVE  OffsetBeforeInv'
<1> USE DEF driveVars, warehouseVars, recoveryVars
<1>1. CASE Commits \/ Drain \/ UNCHANGED recoveryVars
  BY <1>1 DEF Commits, Drain, OffsetBeforeInv, Passed
<1>2. CASE CommitOffset
  BY <1>2 DEF CommitOffset, OffsetBehind, OffsetBeforeInv
<1>3. CASE CutAndDrive
  <2> SUFFICES ASSUME strategy = "offset_before", before = <<>>, cut' # <<>>
               PROVE  OffsetBeforeInv'
    BY <1>3 DEF OffsetBeforeInv, CutAndDrive
  <2>1. /\ cut = <<>> /\ offset = 0 /\ landed = {} /\ pc \notin FailurePoints /\ pc # "down"
        /\ pc \in {"idle", "down"} \cup FailurePoints /\ crashes = 0
        /\ UNCHANGED <<pc, strategy, before, offset, crashes, landed>> /\ at' = StartAt
    BY <1>3 DEF CutAndDrive, RecoveryBase, CutInv, Untouched, WarehouseInv, WarehouseTypeOK
  <2>2. StartAt = 1 /\ pc = "idle"
    BY <2>1 DEF StartAt
  <2>3. Passed' = {}
    BY <2>1, <2>2 DEF Passed
  <2>4. Of(cut', {}) = {}
    BY DEF Of
  <2>5. Len(cut') \in Nat
    <3>1. Cutting(cut', log')
      BY <1>3, CutAndDriveBase DEF RecoveryBase, CutInv
    <3> QED BY <3>1 DEF Cutting
  <2>6. /\ IsFiniteSet({}) /\ Cardinality({}) <= crashes'
    BY <2>1, FS_EmptySet
  <2>7. \E S \in SUBSET Passed' :
          /\ IsFiniteSet(S) /\ Cardinality(S) <= crashes' /\ landed' = Of(cut', Passed' \ S)
    <3>1. {} \in SUBSET Passed' /\ Passed' \ {} = {}
      BY <2>3
    <3>2. landed' = Of(cut', Passed' \ {})
      BY <2>1, <2>4, <3>1
    <3> QED BY <2>6, <3>1, <3>2
  <2>8. offset' <= Len(cut') /\ offset' = at' - 1 /\ pc' = "idle"
    BY <2>1, <2>2, <2>5
  <2> QED BY <2>7, <2>8 DEF OffsetBeforeInv
<1>4. ASSUME strategy = "offset_before", cut # <<>>, before = <<>>
      PROVE  /\ offset <= Len(cut) /\ offset \in Nat /\ at \in Nat \ {0} /\ Len(cut) \in Nat
             /\ DOMAIN cut = 1..Len(cut)
             /\ IF pc = "idle" THEN offset = at - 1
                ELSE IF pc = "down" THEN offset \in {at - 1, at} ELSE offset = at
             /\ \E S \in SUBSET Passed :
                  /\ IsFiniteSet(S) /\ Cardinality(S) <= crashes
                  /\ landed = Of(cut, Passed \ S)
  <2>1. Cutting(cut, log) /\ offset \in Nat /\ at \in Nat \ {0}
    BY <1>4 DEF RecoveryBase, CutInv
  <2>2. Len(cut) \in Nat /\ DOMAIN cut = 1..Len(cut)
    BY <2>1 DEF Cutting
  <2> QED BY <1>4, <2>1, <2>2, Zenon DEF OffsetBeforeInv
<1>5. CASE StartBatch
  <2> SUFFICES ASSUME strategy = "offset_before", cut # <<>>, before = <<>> PROVE OffsetBeforeInv'
    BY <1>5 DEF OffsetBeforeInv, StartBatch
  <2>1. /\ pc = "idle" /\ pc' = "staged" /\ offset' = at /\ at <= Len(cut)
        /\ UNCHANGED <<cut, at, strategy, before, crashes, landed>>
    BY <1>5 DEF StartBatch, Stage
  <2>2. Passed' = Passed
    BY <1>4, <2>1 DEF Passed, FailurePoints
  <2> QED BY <1>4, <2>1, <2>2 DEF OffsetBeforeInv
<1>6. CASE RunStatement
  <2> SUFFICES ASSUME strategy = "offset_before", cut # <<>>, before = <<>> PROVE OffsetBeforeInv'
    BY <1>6 DEF OffsetBeforeInv, RunStatement
  <2>1. /\ pc \in FailurePoints /\ pc' \in FailurePoints
        /\ UNCHANGED <<cut, at, strategy, before, crashes, landed, offset>>
    BY <1>6, StatementInv DEF RunStatement, RecoveryBase
  <2>2. Passed' = Passed
    BY <2>1 DEF Passed
  <2> QED BY <1>4, <2>1, <2>2 DEF OffsetBeforeInv, FailurePoints
<1>7. CASE FinishBatch
  <2> SUFFICES ASSUME strategy = "offset_before", before = <<>> PROVE OffsetBeforeInv'
    BY <1>7, FinishStep DEF OffsetBeforeInv
  <2>1. /\ cut # <<>> /\ at \in DOMAIN cut /\ at' = at + 1 /\ cut' = cut
        /\ landed' = landed \cup InBatch(cut[at]) /\ pc = "tombstoned" /\ pc' = "idle"
        /\ UNCHANGED <<strategy, before, crashes, offset>>
    BY <1>7, FinishStep
  <2>2. offset = at /\ Passed = 1..(at - 1) /\ Passed' = 1..at
    BY <1>4, <2>1 DEF Passed, FailurePoints
  <2>3. PICK S \in SUBSET Passed :
          /\ IsFiniteSet(S) /\ Cardinality(S) <= crashes
          /\ landed = Of(cut, Passed \ S)
    BY <1>4, <2>1
  <2>4. S \in SUBSET Passed' /\ at \notin S /\ Passed' \ S = (Passed \ S) \cup {at}
    BY <1>4, <2>1, <2>2, <2>3
  <2>5. landed' = Of(cut, Passed' \ S)
    <3>1. \A i \in DOMAIN cut : i \in Passed' \ S <=> i \in Passed \ S \/ i = at
      BY <2>4
    <3>2. \A e : e \in landed' <=> e \in Of(cut, Passed' \ S)
      BY <2>1, <2>3, <3>1, OfElements
    <3> QED BY <3>2
  <2>6. \E Z \in SUBSET Passed' :
          /\ IsFiniteSet(Z) /\ Cardinality(Z) <= crashes' /\ landed' = Of(cut', Passed' \ Z)
    BY <2>1, <2>3, <2>4, <2>5
  <2>7. offset' <= Len(cut') /\ offset' = at' - 1
    BY <1>4, <2>1, <2>2
  <2> QED BY <2>1, <2>6, <2>7 DEF OffsetBeforeInv
<1>8. CASE CrashNow
  <2> SUFFICES ASSUME strategy = "offset_before", before = <<>> PROVE OffsetBeforeInv'
    BY <1>8, CrashStep DEF OffsetBeforeInv
  <2>1. /\ cut # <<>> /\ pc # "down" /\ pc' = "down" /\ crashes' = crashes + 1 /\ crashes \in Nat
        /\ UNCHANGED <<cut, at, strategy, before, landed, offset>>
        /\ pc \in {"idle", "down"} \cup FailurePoints
    BY <1>8, CrashStep DEF RecoveryBase, WarehouseInv, WarehouseTypeOK
  <2>2. PICK S \in SUBSET Passed :
          /\ IsFiniteSet(S) /\ Cardinality(S) <= crashes
          /\ landed = Of(cut, Passed \ S)
    BY <1>4, <2>1
  <2>3. Cardinality(S) \in Nat
    BY <2>2, FS_CardinalityType
  <2>4. CASE pc = "idle"
    <3>1. Passed' = Passed /\ offset = at - 1
      BY <1>4, <2>1, <2>4 DEF Passed, FailurePoints
    <3>2. Cardinality(S) <= crashes'
      BY <2>1, <2>2, <2>3
    <3> QED BY <1>4, <2>1, <2>2, <3>1, <3>2 DEF OffsetBeforeInv
  <2>5. CASE pc \in FailurePoints
    <3>1. offset = at /\ Passed = 1..(at - 1) /\ Passed' = 1..at
      BY <1>4, <2>1, <2>5 DEF Passed, FailurePoints
    <3> DEFINE Z == S \cup {at}
    <3>2. Z \in SUBSET Passed' /\ Passed' \ Z = Passed \ S
      <4>1. at \in Nat \ {0}
        BY DEF RecoveryBase
      <4>2. S \subseteq 1..(at - 1)
        BY <2>2, <3>1
      <4> QED BY <3>1, <4>1, <4>2
    <3>3. IsFiniteSet(Z) /\ Cardinality(Z) <= crashes'
      <4>1. IsFiniteSet(S)
        BY <2>2
      <4>2. /\ IsFiniteSet(Z)
            /\ Cardinality(Z) = IF at \in S THEN Cardinality(S) ELSE Cardinality(S) + 1
        BY <4>1, FS_AddElement, Zenon
      <4> HIDE DEF Z
      <4>3. Cardinality(Z) <= Cardinality(S) + 1
        BY <2>3, <4>2
      <4>4. Cardinality(Z) \in Nat
        BY <4>2, FS_CardinalityType
      <4> QED BY <2>1, <2>2, <2>3, <4>2, <4>3, <4>4
    <3>4. landed' = Of(cut', Passed' \ Z)
      BY <2>1, <2>2, <3>2
    <3> HIDE DEF Z
    <3>5. \E Y \in SUBSET Passed' :
            /\ IsFiniteSet(Y) /\ Cardinality(Y) <= crashes' /\ landed' = Of(cut', Passed' \ Y)
      BY <3>2, <3>3, <3>4
    <3> QED BY <1>4, <2>1, <3>1, <3>5 DEF OffsetBeforeInv
  <2> QED BY <2>1, <2>4, <2>5
<1>9. CASE Resume
  <2> SUFFICES ASSUME strategy = "offset_before", cut # <<>>, before = <<>> PROVE OffsetBeforeInv'
    BY <1>9 DEF OffsetBeforeInv, Resume
  <2>1. /\ pc = "down" /\ pc' = "idle" /\ at' = offset + 1
        /\ UNCHANGED <<cut, strategy, before, crashes, landed, offset>>
    BY <1>9 DEF Resume, StartAt
  <2>2. Passed' = Passed
    BY <2>1 DEF Passed, FailurePoints
  <2>3. offset' = at' - 1
    BY <1>4, <2>1
  <2> QED BY <1>4, <2>1, <2>2, <2>3 DEF OffsetBeforeInv
<1>10. CASE Redrain
  BY <1>10 DEF Redrain, OffsetBeforeInv
<1> QED BY <1>1, <1>2, <1>3, <1>5, <1>6, <1>7, <1>8, <1>9, <1>10 DEF RecoveryNext, Drive

\* Over one batching, an offset written before its merge loses whole batches, one
\* for a death at most, and an offset written after it loses nothing.
THEOREM OffsetBeforeLosesOnePerDeath == RecoverySpec => []OffsetBeforeLosesTheBatchInFlight
<1>1. RecoveryInit => OffsetAfterInv /\ OffsetBeforeInv
  BY DEF RecoveryInit, OffsetAfterInv, OffsetBeforeInv
<1>2. RecoveryBase /\ (OffsetAfterInv /\ OffsetBeforeInv) /\ [RecoveryNext]_recoveryVars
        => (OffsetAfterInv /\ OffsetBeforeInv)'
  BY OffsetAfterStep, OffsetBeforeStep
<1>3. RecoveryBase /\ (OffsetAfterInv /\ OffsetBeforeInv) => OffsetBeforeLosesTheBatchInFlight
  <2> SUFFICES ASSUME RecoveryBase, OffsetAfterInv, OffsetBeforeInv, Finished, SameBatches
               PROVE  /\ strategy = "offset_after" => Lost = {}
                      /\ strategy = "offset_before" =>
                           \E S \in SUBSET DOMAIN cut :
                             Cardinality(S) <= crashes /\ Lost = UNION {ToSet(cut[i]) : i \in S}
    BY DEF OffsetBeforeLosesTheBatchInFlight
  <2>1. /\ Cutting(cut, log) /\ cut # <<>> /\ before = <<>> /\ Held(cut) = Stream(log)
        /\ Len(cut) \in Nat /\ DOMAIN cut = 1..Len(cut) /\ at \in Nat /\ offset \in Nat
        /\ at > Len(cut) /\ pc = "idle"
    BY DEF Finished, SameBatches, RecoveryBase, CutInv, Cutting
  <2>2. ASSUME strategy = "offset_after" PROVE Lost = {}
    <3>1. \A i \in DOMAIN cut : i < at
      BY <2>1
    <3>2. \A e \in Held(cut) : e \in AppliedBefore(cut, at)
      BY <3>1, HeldBatches, AppliedElements
    <3> QED BY <2>1, <2>2, <3>2 DEF OffsetAfterInv, Lost
  <2>3. ASSUME strategy = "offset_before"
        PROVE  \E S \in SUBSET DOMAIN cut :
                 Cardinality(S) <= crashes /\ Lost = UNION {ToSet(cut[i]) : i \in S}
    <3>1. offset <= Len(cut) /\ offset = at - 1
      BY <2>1, <2>3 DEF OffsetBeforeInv
    <3>2. Passed = DOMAIN cut
      BY <2>1, <3>1 DEF Passed, FailurePoints
    <3>3. PICK S \in SUBSET Passed : Cardinality(S) <= crashes /\ landed = Of(cut, Passed \ S)
      BY <2>1, <2>3 DEF OffsetBeforeInv
    <3>4. \A i, j \in DOMAIN cut : \A e : e \in InBatch(cut[i]) /\ e \in InBatch(cut[j]) => i = j
      BY <2>1 DEF Cutting
    <3>5. ASSUME NEW e PROVE e \in Lost <=> \E i \in S : e \in InBatch(cut[i])
      <4>1. e \in Lost <=> /\ \E i \in DOMAIN cut : e \in InBatch(cut[i])
                           /\ ~\E i \in DOMAIN cut : i \in Passed \ S /\ e \in InBatch(cut[i])
        BY <2>1, <3>3, HeldBatches, OfElements DEF Lost
      <4> QED BY <3>2, <3>4, <4>1
    <3>6. \A e : e \in UNION {ToSet(cut[i]) : i \in S} <=> \E i \in S : e \in InBatch(cut[i])
      BY ToSetIsInBatch
    <3>7. Lost = UNION {ToSet(cut[i]) : i \in S}
      BY <3>5, <3>6
    <3> QED BY <3>2, <3>3, <3>7
  <2> QED BY <2>2, <2>3
<1> QED BY <1>1, <1>2, <1>3, RecoveryInvariance, PTL DEF RecoverySpec

-----------------------------------------------------------------------------
(* Two counts of one gap.                                                   *)

LEMMA ImageFinite ==
  ASSUME NEW S, IsFiniteSet(S), NEW f, DOMAIN f = S
  PROVE  IsFiniteSet({f[i] : i \in S})
<1> DEFINE T == {f[i] : i \in S}
<1> DEFINE g == [i \in S |-> f[i]]
<1>1. g \in Surjection(S, T)
  BY DEF Surjection
<1> QED BY <1>1, FS_Surjection

LEMMA StreamFinite ==
  ASSUME SourceTypeOK
  PROVE  IsFiniteSet(Stream(log))
<1> DEFINE c == [i \in DOMAIN log |-> ChangeRecord(i, log[i])]
<1> DEFINE t == [i \in DOMAIN log |-> TombstoneRecord(i, log[i])]
<1>1. IsFiniteSet(DOMAIN log)
  <2>1. Len(log) \in Int /\ 1 \in Int /\ DOMAIN log = 1..Len(log)
    BY DEF SourceTypeOK
  <2> QED BY <2>1, FS_Interval
<1> DEFINE C == {c[i] : i \in DOMAIN log}
<1> DEFINE T == {t[i] : i \in DOMAIN log}
<1>2. IsFiniteSet(C) /\ IsFiniteSet(T)
  <2>1. DOMAIN c = DOMAIN log /\ DOMAIN t = DOMAIN log
    OBVIOUS
  <2> HIDE DEF c, t
  <2> QED BY <1>1, <2>1, ImageFinite
<1>3. Stream(log) \subseteq C \cup T
  BY StreamElements
<1> HIDE DEF C, T
<1>4. IsFiniteSet(C \cup T)
  BY <1>2, FS_Union
<1> QED BY <1>3, <1>4, FS_Subset

\* Whatever two drains came to and wherever a run resumes, what is dropped and what
\* is applied twice are one number just when the sizes of the prefix and of the
\* suffix add up to the stream.
THEOREM SizesDecide == RecoverySpec => []SizesDecideTwoNumbers
<1>1. RecoveryBase => SizesDecideTwoNumbers
  <2> SUFFICES ASSUME RecoveryBase, before # <<>>, cut # <<>>, NEW n \in 1..Len(before) + 1
               PROVE  OneNumber(before, cut, n) <=> PrefixSizesAgree(before, cut, n)
    BY DEF SizesDecideTwoNumbers
  <2> DEFINE A == Held(cut)
  <2> DEFINE P == AppliedBefore(before, n)
  <2> DEFINE R == Replayed(cut, n)
  <2>1. Held(cut) = Stream(log) /\ Held(before) = Stream(log) /\ SourceTypeOK
    BY DEF RecoveryBase, CutInv, Cutting
  <2>2. P \subseteq A /\ R \subseteq A
    BY <2>1, AppliedElements, HeldBatches
  <2>3. IsFiniteSet(A)
    BY <2>1, StreamFinite
  <2>4. Dropped(before, cut, n) = A \ (P \cup R) /\ AppliedTwice(before, cut, n) = P \cap R
    BY DEF Dropped, AppliedTwice
  <2>5. PrefixSizesAgree(before, cut, n) <=> Cardinality(P) + Cardinality(R) = Cardinality(A)
    BY DEF PrefixSizesAgree
  <2>6. OneNumber(before, cut, n) <=> Cardinality(A \ (P \cup R)) = Cardinality(P \cap R)
    BY <2>4 DEF OneNumber
  <2> HIDE DEF A, P, R
  <2>7. /\ IsFiniteSet(P) /\ IsFiniteSet(R) /\ IsFiniteSet(P \cap R)
    BY <2>2, <2>3, FS_Subset
  <2>8. IsFiniteSet(P \cup R) /\ Cardinality(P \cup R) =
          Cardinality(P) + Cardinality(R) - Cardinality(P \cap R)
    BY <2>7, FS_Union
  <2>9. Cardinality(A \ (P \cup R)) = Cardinality(A) - Cardinality(P \cup R)
    <3>1. A \cap (P \cup R) = P \cup R
      BY <2>2
    <3>2. Cardinality(A \ (P \cup R)) = Cardinality(A) - Cardinality(A \cap (P \cup R))
      BY <2>3, FS_Difference, Zenon
    <3> QED BY <3>1, <3>2
  <2>10. /\ Cardinality(A) \in Nat /\ Cardinality(P) \in Nat /\ Cardinality(R) \in Nat
         /\ Cardinality(P \cap R) \in Nat
    BY <2>3, <2>7, FS_CardinalityType
  <2> DEFINE a == Cardinality(A)
  <2> DEFINE p == Cardinality(P)
  <2> DEFINE r == Cardinality(R)
  <2> DEFINE both == Cardinality(P \cap R)
  <2> DEFINE missed == Cardinality(A \ (P \cup R))
  <2>11. missed = a - (p + r - both) /\ a \in Nat /\ p \in Nat /\ r \in Nat /\ both \in Nat
    BY <2>8, <2>9, <2>10
  <2>12. /\ OneNumber(before, cut, n) <=> missed = both
         /\ PrefixSizesAgree(before, cut, n) <=> p + r = a
    BY <2>5, <2>6
  <2> HIDE DEF a, p, r, both, missed
  <2> QED BY <2>11, <2>12
<1> QED BY <1>1, RecoveryInvariance, PTL

=============================================================================
