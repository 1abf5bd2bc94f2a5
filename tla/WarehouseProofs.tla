---------------------------- MODULE WarehouseProofs ----------------------------
(***************************************************************************)
(* What the reduction and the merge do to a target, for every batch, and   *)
(* what the transaction around them keeps, at every statement of it.       *)
(*                                                                         *)
(* The argument: a row of the target always shows the newest of the        *)
(* changes handed to it so far (Shows), whatever the batches were; the     *)
(* open transaction is at each statement a function of the committed       *)
(* database and the batch (TxInv), so a rollback loses nothing and a       *)
(* commit applies the whole batch.                                         *)
(***************************************************************************)
EXTENDS Warehouse, SourceProofs

-----------------------------------------------------------------------------
(* The reduction of a batch.                                                *)

InBatch(b) == {b[i] : i \in DOMAIN b}

\* The changes to one row among some records.
ChangesFor(r, H) == {e \in H : ~e.tomb /\ e.row = r}

\* No two changes to one row share a position.
PositionsTellApart(H) ==
  \A e, f \in H : ~e.tomb /\ ~f.tomb /\ e.row = f.row /\ e.lsn = f.lsn => e = f

\* What of a row reaches the stage: one change, the newest of the batch.
LEMMA ReduceFindsNewest ==
  ASSUME ~MergeByRecordKey, NEW b \in Seq(Records), NEW r \in Rows,
         ChangesFor(r, InBatch(b)) # {}, PositionsTellApart(InBatch(b))
  PROVE  \E e \in ChangesFor(r, InBatch(b)) :
           /\ \A f \in ChangesFor(r, InBatch(b)) : f.lsn <= e.lsn
           /\ {x \in Reduce(b) : x.row = r} = {e}
<1> DEFINE J == {i \in DOMAIN b : ~b[i].tomb /\ b[i].row = r}
<1>1. /\ Len(b) \in Nat /\ DOMAIN b = 1..Len(b) /\ r # Absent
      /\ \A i \in DOMAIN b : b[i].lsn \in Nat
  <2>1. \A i \in DOMAIN b : b[i] \in Records
    OBVIOUS
  <2> QED BY <2>1, EventsAssumption DEF EventsAssumption, Records
<1>2. J # {} /\ \A e : e \in ChangesFor(r, InBatch(b)) <=> \E i \in J : e = b[i]
  BY DEF ChangesFor, InBatch
<1>3. PICK m \in J : \A j \in J : b[j].lsn <= b[m].lsn
  <2>1. J \in SUBSET (1..Len(b))
    BY <1>1
  <2> DEFINE f == [i \in 1..Len(b) |-> b[i].lsn]
  <2>2. \A j \in J : f[j] \in Nat
    BY <1>1
  <2>3. \E m \in J : \A j \in J : f[j] <= f[m]
    BY <1>1, <1>2, <2>1, <2>2, GreatestPlace
  <2> QED BY <1>1, <2>3
<1> DEFINE top == {j \in J : b[j].lsn = b[m].lsn}
<1>4. PICK p \in top : \A j \in top : j <= p
  <2>1. top \in SUBSET Nat /\ top # {} /\ \A j \in top : j <= Len(b)
    BY <1>1, <1>3
  <2> QED BY <1>1, <2>1, GreatestOf
<1>5. p \in J /\ \A j \in J : b[j].lsn <= b[p].lsn
  BY <1>3, <1>4
<1>6. \A i \in DOMAIN b : i \in Addressable(b) /\ Slot(b[i]) = r <=> i \in J
  BY <1>1 DEF Addressable, Slot
<1>7. b[p] \in Reduce(b) /\ b[p].row = r
  <2>1. p \in Addressable(b) /\ Slot(b[p]) = r
    BY <1>5, <1>6
  <2>2. ASSUME NEW j \in Addressable(b), Slot(b[j]) = r PROVE ~Supersedes(b, j, p)
    <3>1. j \in J /\ j \in Nat /\ p \in Nat /\ b[j].lsn \in Nat /\ b[p].lsn \in Nat
      BY <1>1, <1>4, <1>6, <2>2 DEF Addressable
    <3>2. b[j].lsn = b[p].lsn => j <= p
      BY <1>3, <1>4, <3>1
    <3> QED BY <1>5, <3>1, <3>2 DEF Supersedes
  <2> QED BY <1>5, <2>1, <2>2 DEF Reduce
<1>8. ASSUME NEW x \in Reduce(b), x.row = r PROVE x = b[p]
  <2>1. PICK i \in Addressable(b) :
          /\ x = b[i]
          /\ \A j \in Addressable(b) : Slot(b[j]) = Slot(b[i]) => ~Supersedes(b, j, i)
    BY DEF Reduce
  <2>2. i \in J /\ Slot(b[i]) = r
    <3>1. i \in DOMAIN b /\ ~b[i].tomb
      BY <2>1 DEF Addressable
    <3> QED BY <1>1, <1>8, <2>1, <3>1 DEF Slot
  <2>3. ~Supersedes(b, p, i)
    BY <1>5, <1>6, <2>1, <2>2
  <2>4. b[i].lsn = b[p].lsn
    BY <1>1, <1>5, <2>2, <2>3 DEF Supersedes
  <2> QED BY <1>5, <2>1, <2>2, <2>4 DEF PositionsTellApart, InBatch
<1> QED BY <1>2, <1>5, <1>7, <1>8

\* Nothing else is staged: a staged record is an addressable change of the batch.
LEMMA ReduceIsPart ==
  ASSUME NEW b
  PROVE  \A x \in Reduce(b) : x \in InBatch(b) /\ ~x.tomb /\ Slot(x) # Absent
BY DEF Reduce, InBatch, Addressable

\* The highest tombstone position of a key is the position of one of its tombstones.
LEMMA TombstonesAreHighest ==
  ASSUME NEW b \in Seq(Records), NEW k
  PROVE  /\ k \in DOMAIN Tombstones(b) <=> \E t \in InBatch(b) : t.tomb /\ t.key = k
         /\ \A t \in InBatch(b) : t.tomb /\ t.key = k => t.lsn <= Tombstones(b)[k]
         /\ k \in DOMAIN Tombstones(b) =>
              \E t \in InBatch(b) : t.tomb /\ t.key = k /\ t.lsn = Tombstones(b)[k]
<1> DEFINE J == {i \in DOMAIN b : b[i].tomb /\ b[i].key = k}
<1> DEFINE lsns == {b[i].lsn : i \in J}
<1>1. Len(b) \in Nat /\ DOMAIN b = 1..Len(b) /\ \A i \in DOMAIN b : b[i].lsn \in Nat
  <2>1. \A i \in DOMAIN b : b[i] \in Records
    OBVIOUS
  <2> QED BY <2>1 DEF Records
<1>2. k \in DOMAIN Tombstones(b) <=> J # {}
  BY DEF Tombstones
<1>3. J # {} => Tombstones(b)[k] = CHOOSE n \in lsns : \A m \in lsns : m <= n
  BY <1>2, Zenon DEF Tombstones
<1>4. J # {} => \E n \in lsns : \A m \in lsns : m <= n
  <2> SUFFICES ASSUME J # {} PROVE \E n \in lsns : \A m \in lsns : m <= n
    OBVIOUS
  <2> DEFINE f == [i \in 1..Len(b) |-> b[i].lsn]
  <2>1. J \in SUBSET (1..Len(b)) /\ \A j \in J : f[j] \in Nat /\ f[j] = b[j].lsn
    BY <1>1
  <2> HIDE DEF f
  <2>2. PICK m \in J : \A j \in J : f[j] <= f[m]
    BY <1>1, <2>1, GreatestPlace
  <2>3. b[m].lsn \in lsns /\ \A j \in J : b[j].lsn <= b[m].lsn
    BY <2>1, <2>2
  <2> QED BY <2>3
<1>5. J # {} => /\ Tombstones(b)[k] \in lsns
                /\ \A m \in lsns : m <= Tombstones(b)[k]
  BY <1>3, <1>4
<1>6. J # {} <=> \E t \in InBatch(b) : t.tomb /\ t.key = k
  BY DEF InBatch
<1>7. \A t \in InBatch(b) : t.tomb /\ t.key = k => t.lsn \in lsns
  BY DEF InBatch
<1>8. \A n \in lsns : \E t \in InBatch(b) : t.tomb /\ t.key = k /\ t.lsn = n
  BY DEF InBatch
<1> HIDE DEF J, lsns
<1> QED BY <1>2, <1>5, <1>6, <1>7, <1>8

-----------------------------------------------------------------------------
(* A batch, row by row.                                                     *)

\* The comparison of positions is on.
Guards(guard) == \A e, held : Matched(e, held, guard) <=> e.lsn > held.lsn

LEMMA GuardsWhenOn == Guard => Guards(Guard)
BY DEF Guards, Matched

Merged(target, b, n, guard) == MergeInto(target, Reduce(b), n, guard)

\* A tombstone of the batch reaches a row: it carries the row's key and is not
\* older than it.
Reached(b, row) == \E t \in InBatch(b) : t.tomb /\ t.key = row.key /\ row.lsn <= t.lsn

\* A row no change of the batch names goes through the merge as it is.
LEMMA MergeKeeps ==
  ASSUME NEW target, NEW b, NEW n, NEW guard, NEW r \in Rows,
         ChangesFor(r, InBatch(b)) = {}
  PROVE  Merged(target, b, n, guard)[r] = target[r]
<1>1. \A e \in Reduce(b) : e.row # r
  BY ReduceIsPart DEF ChangesFor
<1> QED BY <1>1 DEF Merged, MergeInto

\* Of the others the merge looks at the newest change, and at nothing else.
LEMMA MergeTakesNewest ==
  ASSUME ~MergeByRecordKey, NEW target, NEW b \in Seq(Records), NEW n, NEW guard,
         NEW r \in Rows, ChangesFor(r, InBatch(b)) # {}, PositionsTellApart(InBatch(b))
  PROVE  \E e \in ChangesFor(r, InBatch(b)) :
           /\ \A f \in ChangesFor(r, InBatch(b)) : f.lsn <= e.lsn
           /\ Merged(target, b, n, guard)[r] =
                IF target[r] = Absent \/ Matched(e, target[r], guard)
                THEN Stored(e, n) ELSE target[r]
<1>1. PICK e \in ChangesFor(r, InBatch(b)) :
        /\ \A f \in ChangesFor(r, InBatch(b)) : f.lsn <= e.lsn
        /\ {x \in Reduce(b) : x.row = r} = {e}
  BY ReduceFindsNewest
<1>2. e \in Reduce(b) /\ e.row = r /\ \A x \in Reduce(b) : x.row = r => x = e
  BY <1>1
<1>3. (CHOOSE x \in Reduce(b) : x.row = r) = e
  BY <1>2
<1>4. (\E x \in Reduce(b) : x.row = r /\ (target[r] = Absent \/ Matched(x, target[r], guard)))
        <=> target[r] = Absent \/ Matched(e, target[r], guard)
  BY <1>2
<1>5. Merged(target, b, n, guard)[r] =
        IF target[r] = Absent \/ Matched(e, target[r], guard) THEN Stored(e, n) ELSE target[r]
  BY <1>3, <1>4 DEF Merged, MergeInto
<1> QED BY <1>1, <1>5

\* Under the guard a batch with nothing newer leaves the merged row as it was.
LEMMA MergeKeepsNewest ==
  ASSUME ~MergeByRecordKey, NEW target, NEW b \in Seq(Records), NEW n,
         NEW guard, Guards(guard), NEW r \in Rows, target[r] # Absent, target[r].lsn \in Nat,
         \A e \in ChangesFor(r, InBatch(b)) : e.lsn <= target[r].lsn,
         PositionsTellApart(InBatch(b))
  PROVE  Merged(target, b, n, guard)[r] = target[r]
<1>1. CASE ChangesFor(r, InBatch(b)) = {}
  BY <1>1, MergeKeeps
<1>2. CASE ChangesFor(r, InBatch(b)) # {}
  <2>1. PICK e \in ChangesFor(r, InBatch(b)) :
          Merged(target, b, n, guard)[r] =
            IF target[r] = Absent \/ Matched(e, target[r], guard)
            THEN Stored(e, n) ELSE target[r]
    BY <1>2, MergeTakesNewest
  <2>2. e.lsn <= target[r].lsn /\ e.lsn \in Nat
    <3>1. \A i \in DOMAIN b : b[i] \in Records
      OBVIOUS
    <3> QED BY <2>1, <3>1 DEF ChangesFor, InBatch, Records
  <2>3. ~Matched(e, target[r], guard)
    BY <2>2 DEF Guards
  <2> QED BY <2>1, <2>3
<1> QED BY <1>1, <1>2

\* The where clause of tombstone_sql over the collected keys says no more than
\* that some tombstone of the batch reaches the row.
LEMMA EntombedWhenReached ==
  ASSUME NEW b \in Seq(Records), NEW row, row.lsn \in Nat
  PROVE  Entombed(row, Tombstones(b)) <=> Reached(b, row) /\ ~row.deleted
<1>1. \A t \in InBatch(b) : t.lsn \in Nat
  <2>1. \A i \in DOMAIN b : b[i] \in Records
    OBVIOUS
  <2> QED BY <2>1 DEF InBatch, Records
<1> DEFINE k == row.key
<1> DEFINE top == Tombstones(b)[k]
<1>2. /\ k \in DOMAIN Tombstones(b) <=> \E t \in InBatch(b) : t.tomb /\ t.key = k
      /\ \A t \in InBatch(b) : t.tomb /\ t.key = k => t.lsn <= top
      /\ k \in DOMAIN Tombstones(b) =>
           \E t \in InBatch(b) : t.tomb /\ t.key = k /\ t.lsn = top
  BY TombstonesAreHighest
<1>3. (k \in DOMAIN Tombstones(b) /\ row.lsn <= top) <=> Reached(b, row)
  <2>1. ASSUME k \in DOMAIN Tombstones(b), row.lsn <= top PROVE Reached(b, row)
    BY <1>2, <2>1 DEF Reached
  <2>2. ASSUME Reached(b, row) PROVE k \in DOMAIN Tombstones(b) /\ row.lsn <= top
    <3>1. PICK t \in InBatch(b) : t.tomb /\ t.key = k /\ row.lsn <= t.lsn
      BY <2>2 DEF Reached
    <3>2. k \in DOMAIN Tombstones(b) /\ t.lsn <= top
      BY <1>2, <3>1
    <3>3. top \in Nat
      BY <1>1, <1>2, <3>2
    <3> QED BY <1>1, <3>1, <3>2, <3>3
  <2> QED BY <2>1, <2>2
<1> QED BY <1>3 DEF Entombed

\* What the tombstones of the batch make of a merged row.
LEMMA TombstonesReach ==
  ASSUME NEW target, NEW b \in Seq(Records), NEW n, NEW guard, NEW onT, NEW r \in Rows,
         Merged(target, b, n, guard)[r] = Absent \/ Merged(target, b, n, guard)[r] \in StoredRows
  PROVE  LET m == Merged(target, b, n, guard)[r]
         IN  ApplyTo(target, b, n, guard, onT)[r] =
               IF onT = "delete" /\ m # Absent /\ Reached(b, m) /\ ~m.deleted
               THEN Entomb(m, n) ELSE m
<1> DEFINE M == Merged(target, b, n, guard)
<1> DEFINE m == M[r]
<1>1. DOMAIN M = Rows
  BY DEF Merged, MergeInto
<1>2. CASE onT # "delete"
  BY <1>2 DEF ApplyTo, Merged
<1>3. CASE onT = "delete"
  <2>1. m # Absent => (Entombed(m, Tombstones(b)) <=> Reached(b, m) /\ ~m.deleted)
    <3>1. m # Absent => m.lsn \in Nat
      BY DEF StoredRows
    <3> QED BY <3>1, EntombedWhenReached
  <2>2. ApplyTo(target, b, n, guard, onT)[r] =
          IF m # Absent /\ Entombed(m, Tombstones(b))
          THEN Entomb(m, n) ELSE m
    BY <1>1, <1>3 DEF ApplyTo, EntombIn, Merged
  <2> QED BY <1>3, <2>1, <2>2
<1> QED BY <1>2, <1>3

-----------------------------------------------------------------------------
(* Types.                                                                   *)

LEMMA RecordsOfBatch ==
  ASSUME NEW b \in Seq(Records)
  PROVE  InBatch(b) \subseteq Records
BY DEF InBatch

LEMMA StoredTyped ==
  ASSUME NEW e \in Records, NEW n \in Nat
  PROVE  Stored(e, n) \in StoredRows
BY DEF Records, Stored, StoredRows

LEMMA MergeTyped ==
  ASSUME NEW target \in Targets, NEW stage \in SUBSET Records, NEW n \in Nat, NEW guard
  PROVE  MergeInto(target, stage, n, guard) \in Targets
<1> SUFFICES ASSUME NEW r \in Rows
             PROVE  MergeInto(target, stage, n, guard)[r] \in StoredRows \cup {Absent}
  BY DEF Targets, MergeInto
<1>1. CASE \E e \in stage : e.row = r /\ (target[r] = Absent \/ Matched(e, target[r], guard))
  <2>1. (CHOOSE e \in stage : e.row = r) \in Records
    BY <1>1
  <2>2. MergeInto(target, stage, n, guard)[r] = Stored(CHOOSE e \in stage : e.row = r, n)
    BY <1>1 DEF MergeInto
  <2> QED BY <2>1, <2>2, StoredTyped
<1>2. CASE ~\E e \in stage : e.row = r /\ (target[r] = Absent \/ Matched(e, target[r], guard))
  BY <1>2 DEF MergeInto, Targets
<1> QED BY <1>1, <1>2

LEMMA EntombTyped ==
  ASSUME NEW target \in Targets, NEW tombs, NEW n \in Nat
  PROVE  EntombIn(target, tombs, n) \in Targets
<1> SUFFICES ASSUME NEW r \in Rows
             PROVE  EntombIn(target, tombs, n)[r] \in StoredRows \cup {Absent}
  BY DEF Targets, EntombIn
<1>1. target[r] # Absent => Entomb(target[r], n) \in StoredRows
  BY DEF Entomb, Targets, StoredRows
<1> QED BY <1>1 DEF Targets, EntombIn

LEMMA ReduceTyped ==
  ASSUME NEW b \in Seq(Records)
  PROVE  Reduce(b) \subseteq Records
BY ReduceIsPart, RecordsOfBatch

\* A target stays a target under every batch.
LEMMA ApplyTyped ==
  ASSUME NEW target \in Targets, NEW b \in Seq(Records), NEW n \in Nat, NEW guard, NEW onT
  PROVE  /\ Merged(target, b, n, guard) \in Targets
         /\ ApplyTo(target, b, n, guard, onT) \in Targets
<1>1. Merged(target, b, n, guard) \in Targets
  BY MergeTyped, ReduceTyped DEF Merged
<1> QED BY <1>1, EntombTyped DEF ApplyTo, Merged

-----------------------------------------------------------------------------
(* A target and the records handed to it so far.                            *)

\* The row shows the newest of the changes handed to it.  It is marked deleted
\* when that change is a delete, and otherwise only by a tombstone that reached it.
Shows(row, H, r) ==
  \/ row = Absent /\ ChangesFor(r, H) = {}
  \/ /\ row # Absent
     /\ \E e \in ChangesFor(r, H) :
          /\ \A f \in ChangesFor(r, H) : f.lsn <= e.lsn
          /\ row.lsn = e.lsn /\ row.val = e.val /\ row.key = e.key
          /\ e.op = "d" => row.deleted
          /\ row.deleted => \/ e.op = "d"
                            \/ \E t \in H : t.tomb /\ t.key = e.key /\ e.lsn <= t.lsn

\* The tombstones change nothing of a row but its mark and its batch.
LEMMA ReachedRow ==
  ASSUME NEW target \in Targets, NEW b \in Seq(Records), NEW n \in Nat, NEW guard, NEW onT,
         NEW r \in Rows
  PROVE  LET m == Merged(target, b, n, guard)[r]
             row == ApplyTo(target, b, n, guard, onT)[r]
         IN  /\ row = Absent <=> m = Absent
             /\ m # Absent => /\ row.lsn = m.lsn /\ row.val = m.val /\ row.key = m.key
                              /\ m.deleted => row = m
                              /\ row.deleted => m.deleted \/ Reached(b, m)
                              /\ onT = "delete" /\ Reached(b, m) => row.deleted
<1> DEFINE m == Merged(target, b, n, guard)[r]
<1> DEFINE row == ApplyTo(target, b, n, guard, onT)[r]
<1>1. /\ m \in StoredRows \cup {Absent} /\ row \in StoredRows \cup {Absent}
  BY ApplyTyped DEF Targets
<1>2. row = IF onT = "delete" /\ m # Absent /\ Reached(b, m) /\ ~m.deleted
            THEN Entomb(m, n) ELSE m
  BY <1>1, TombstonesReach
<1> HIDE DEF m, row
<1>3. m # Absent => Entomb(m, n) \in StoredRows
  BY <1>1 DEF Entomb, StoredRows
<1>4. m # Absent => LET x == Entomb(m, n)
                    IN  x.lsn = m.lsn /\ x.val = m.val /\ x.key = m.key /\ x.deleted
  BY <1>1 DEF Entomb, StoredRows
<1> QED BY <1>1, <1>2, <1>3, <1>4, MergeAssumption DEF m, row

LEMMA StoredFields ==
  ASSUME NEW e, NEW n
  PROVE  /\ Stored(e, n).lsn = e.lsn /\ Stored(e, n).val = e.val /\ Stored(e, n).key = e.key
         /\ (Stored(e, n).deleted <=> e.op = "d") /\ Stored(e, n).batch = n
BY DEF Stored

\* A guarded batch brings the row up to the newest change of all.
LEMMA BatchShows ==
  ASSUME ~MergeByRecordKey, NEW target \in Targets, NEW b \in Seq(Records), NEW n \in Nat,
         NEW guard, Guards(guard), NEW onT, NEW H \in SUBSET Records, NEW r \in Rows,
         PositionsTellApart(H \cup InBatch(b)), Shows(target[r], H, r)
  PROVE  Shows(ApplyTo(target, b, n, guard, onT)[r], H \cup InBatch(b), r)
<1> DEFINE G == H \cup InBatch(b)
<1> DEFINE m == Merged(target, b, n, guard)[r]
<1> DEFINE row == ApplyTo(target, b, n, guard, onT)[r]
<1>1. G \in SUBSET Records /\ PositionsTellApart(InBatch(b))
  BY RecordsOfBatch DEF PositionsTellApart
<1>2. \A e \in G : e.lsn \in Nat
  BY <1>1 DEF Records
<1>3. ChangesFor(r, G) = ChangesFor(r, H) \cup ChangesFor(r, InBatch(b))
  BY DEF ChangesFor
<1>4. target[r] \in StoredRows \cup {Absent} /\ m \in StoredRows \cup {Absent}
  <2>1. Merged(target, b, n, guard) \in Targets
    BY ApplyTyped
  <2> QED BY <2>1 DEF Targets
<1>5. \/ m = Absent /\ ChangesFor(r, G) = {}
      \/ /\ m # Absent
         /\ \E e \in ChangesFor(r, G) :
              /\ \A f \in ChangesFor(r, G) : f.lsn <= e.lsn
              /\ m.lsn = e.lsn /\ m.val = e.val /\ m.key = e.key
              /\ e.op = "d" => m.deleted
              /\ m.deleted => \/ e.op = "d"
                              \/ \E t \in H : t.tomb /\ t.key = e.key /\ e.lsn <= t.lsn
  <2>1. CASE ChangesFor(r, InBatch(b)) = {}
    <3>1. m = target[r] /\ ChangesFor(r, G) = ChangesFor(r, H)
      BY <1>3, <2>1, MergeKeeps
    <3> HIDE DEF m, G
    <3> QED BY <3>1 DEF Shows
  <2>2. CASE ChangesFor(r, InBatch(b)) # {}
    <3>1. PICK e \in ChangesFor(r, InBatch(b)) :
            /\ \A f \in ChangesFor(r, InBatch(b)) : f.lsn <= e.lsn
            /\ m = IF target[r] = Absent \/ Matched(e, target[r], guard)
                   THEN Stored(e, n) ELSE target[r]
      BY <1>1, <2>2, MergeTakesNewest
    <3>2. e \in ChangesFor(r, G) /\ e \in G /\ e \in Records /\ e.lsn \in Nat
      BY <1>1, <1>2, <1>3 DEF ChangesFor
    <3>3. Stored(e, n) \in StoredRows /\ Stored(e, n) # Absent
      BY <3>2, StoredTyped, MergeAssumption
    <3>4. CASE target[r] = Absent
      <4>1. m = Stored(e, n) /\ ChangesFor(r, G) = ChangesFor(r, InBatch(b))
        BY <1>3, <3>1, <3>4 DEF Shows
      <4> HIDE DEF m, G
      <4> QED BY <3>1, <3>2, <3>3, <4>1, StoredFields
    <3>5. CASE target[r] # Absent
      <4>1. PICK h \in ChangesFor(r, H) :
              /\ \A f \in ChangesFor(r, H) : f.lsn <= h.lsn
              /\ target[r].lsn = h.lsn /\ target[r].val = h.val /\ target[r].key = h.key
              /\ h.op = "d" => target[r].deleted
              /\ target[r].deleted => \/ h.op = "d"
                                      \/ \E t \in H : t.tomb /\ t.key = h.key /\ h.lsn <= t.lsn
        BY <3>5 DEF Shows
      <4>2. h \in ChangesFor(r, G) /\ h \in G /\ h.lsn \in Nat
        BY <1>2, <1>3, <4>1 DEF ChangesFor
      <4>3. Matched(e, target[r], guard) <=> h.lsn < e.lsn
        BY <3>2, <4>1, <4>2 DEF Guards
      <4>4. CASE h.lsn < e.lsn
        <5>1. m = Stored(e, n)
          BY <3>1, <4>3, <4>4
        <5>2. \A f \in ChangesFor(r, G) : f.lsn <= e.lsn
          <6> SUFFICES ASSUME NEW f \in ChangesFor(r, G) PROVE f.lsn <= e.lsn
            OBVIOUS
          <6>1. f.lsn \in Nat
            BY <1>2 DEF ChangesFor
          <6>2. f \in ChangesFor(r, H) => f.lsn <= h.lsn
            BY <4>1
          <6>3. f \in ChangesFor(r, InBatch(b)) => f.lsn <= e.lsn
            BY <3>1
          <6>4. f \in ChangesFor(r, H) \/ f \in ChangesFor(r, InBatch(b))
            BY <1>3
          <6>5. e.lsn \in Nat /\ h.lsn \in Nat
            BY <3>2, <4>2
          <6> QED BY <4>4, <6>1, <6>2, <6>3, <6>4, <6>5
        <5> HIDE DEF m, G
        <5> QED BY <3>2, <3>3, <5>1, <5>2, StoredFields
      <4>5. CASE ~(h.lsn < e.lsn)
        <5>1. m = target[r]
          BY <3>1, <3>5, <4>3, <4>5
        <5>2. \A f \in ChangesFor(r, G) : f.lsn <= h.lsn
          <6> SUFFICES ASSUME NEW f \in ChangesFor(r, G) PROVE f.lsn <= h.lsn
            OBVIOUS
          <6>1. f.lsn \in Nat
            BY <1>2 DEF ChangesFor
          <6>2. f \in ChangesFor(r, H) => f.lsn <= h.lsn
            BY <4>1
          <6>3. f \in ChangesFor(r, InBatch(b)) => f.lsn <= e.lsn
            BY <3>1
          <6>4. f \in ChangesFor(r, H) \/ f \in ChangesFor(r, InBatch(b))
            BY <1>3
          <6>5. e.lsn \in Nat /\ h.lsn \in Nat
            BY <3>2, <4>2
          <6> QED BY <4>5, <6>1, <6>2, <6>3, <6>4, <6>5
        <5> HIDE DEF m, G
        <5> QED BY <3>5, <4>1, <4>2, <5>1, <5>2
      <4> QED BY <4>4, <4>5
    <3> QED BY <3>4, <3>5
  <2> QED BY <2>1, <2>2
<1>6. /\ row = Absent <=> m = Absent
      /\ m # Absent => /\ row.lsn = m.lsn /\ row.val = m.val /\ row.key = m.key
                       /\ m.deleted => row = m
                       /\ row.deleted => m.deleted \/ Reached(b, m)
  BY ReachedRow
<1>7. CASE m = Absent
  BY <1>5, <1>6, <1>7 DEF Shows
<1>8. CASE m # Absent
  <2>1. PICK e \in ChangesFor(r, G) :
          /\ \A f \in ChangesFor(r, G) : f.lsn <= e.lsn
          /\ m.lsn = e.lsn /\ m.val = e.val /\ m.key = e.key
          /\ e.op = "d" => m.deleted
          /\ m.deleted => \/ e.op = "d"
                          \/ \E t \in H : t.tomb /\ t.key = e.key /\ e.lsn <= t.lsn
    BY <1>5, <1>8
  <2>2. row # Absent /\ row.lsn = e.lsn /\ row.val = e.val /\ row.key = e.key
    BY <1>6, <1>8, <2>1
  <2>3. e.op = "d" => row.deleted
    BY <1>6, <1>8, <2>1
  <2>4. row.deleted => e.op = "d" \/ \E t \in G : t.tomb /\ t.key = e.key /\ e.lsn <= t.lsn
    BY <1>6, <1>8, <2>1 DEF Reached
  <2> HIDE DEF row, m, G
  <2>5. Shows(row, G, r)
    BY <2>1, <2>2, <2>3, <2>4 DEF Shows
  <2> QED BY <2>5 DEF row, G
<1> QED BY <1>7, <1>8

\* Every tombstone among some records has its own delete among them, and a record
\* key names one row.
TombstonesFramed(H) ==
  \A t \in H : t.tomb =>
    \E d \in H : ~d.tomb /\ d.op = "d" /\ d.key = t.key /\ d.lsn = t.lsn

OneRowPerKey(H) ==
  \A e, f \in H : ~e.tomb /\ ~f.tomb /\ e.key = f.key => e.row = f.row

\* A batch that was applied before changes nothing, its batch column included.
LEMMA ReplayChangesNothing ==
  ASSUME ~MergeByRecordKey, NEW target \in Targets, NEW b \in Seq(Records), NEW n \in Nat,
         NEW guard, Guards(guard), NEW onT, NEW H \in SUBSET Records,
         PositionsTellApart(H), TombstonesFramed(H), OneRowPerKey(H), InBatch(b) \subseteq H,
         NEW r \in Rows, Shows(target[r], H, r)
  PROVE  ApplyTo(target, b, n, guard, onT)[r] = target[r]
<1> DEFINE m == Merged(target, b, n, guard)[r]
<1>1. \A e \in H : e.lsn \in Nat
  BY DEF Records
<1>2. \A e \in ChangesFor(r, InBatch(b)) : e \in ChangesFor(r, H)
  BY DEF ChangesFor
<1>3. PositionsTellApart(InBatch(b))
  BY DEF PositionsTellApart
<1>4. m = target[r]
  <2>1. CASE target[r] = Absent
    <3>1. ChangesFor(r, InBatch(b)) = {}
      BY <1>2, <2>1 DEF Shows
    <3> QED BY <3>1, MergeKeeps
  <2>2. CASE target[r] # Absent
    <3>1. PICK h \in ChangesFor(r, H) :
            /\ \A f \in ChangesFor(r, H) : f.lsn <= h.lsn
            /\ target[r].lsn = h.lsn
      BY <2>2 DEF Shows
    <3>2. target[r].lsn \in Nat
      BY <1>1, <3>1 DEF ChangesFor
    <3>3. \A e \in ChangesFor(r, InBatch(b)) : e.lsn <= target[r].lsn
      BY <1>2, <3>1
    <3> QED BY <1>3, <2>2, <3>2, <3>3, MergeKeepsNewest
  <2> QED BY <2>1, <2>2
<1>5. target[r] \in StoredRows \cup {Absent}
  BY DEF Targets
<1>6. target[r] # Absent /\ Reached(b, target[r]) => target[r].deleted
  <2> SUFFICES ASSUME target[r] # Absent, Reached(b, target[r]) PROVE target[r].deleted
    OBVIOUS
  <2>1. PICK h \in ChangesFor(r, H) :
          /\ \A f \in ChangesFor(r, H) : f.lsn <= h.lsn
          /\ target[r].lsn = h.lsn /\ target[r].key = h.key
          /\ h.op = "d" => target[r].deleted
    BY DEF Shows
  <2>2. PICK t \in InBatch(b) : t.tomb /\ t.key = h.key /\ h.lsn <= t.lsn
    BY <2>1 DEF Reached
  <2>3. PICK d \in H : ~d.tomb /\ d.op = "d" /\ d.key = t.key /\ d.lsn = t.lsn
    BY <2>2 DEF TombstonesFramed
  <2>4. h \in H /\ ~h.tomb /\ h.row = r
    BY <2>1 DEF ChangesFor
  <2>5. d \in ChangesFor(r, H)
    BY <2>2, <2>3, <2>4 DEF OneRowPerKey, ChangesFor
  <2>6. d.lsn <= h.lsn /\ d.lsn \in Nat /\ h.lsn \in Nat
    BY <1>1, <2>1, <2>3, <2>4, <2>5
  <2>7. d.lsn = h.lsn
    BY <2>2, <2>3, <2>6
  <2>8. d = h
    BY <2>3, <2>4, <2>5, <2>7 DEF PositionsTellApart, ChangesFor
  <2> QED BY <2>1, <2>3, <2>8
<1>7. LET row == ApplyTo(target, b, n, guard, onT)[r]
      IN  row = IF onT = "delete" /\ m # Absent /\ Reached(b, m) /\ ~m.deleted
                THEN Entomb(m, n) ELSE m
  <2>1. m = Absent \/ m \in StoredRows
    BY <1>4, <1>5
  <2> QED BY <2>1, TombstonesReach
<1> HIDE DEF m
<1> QED BY <1>4, <1>6, <1>7

-----------------------------------------------------------------------------
(* The transaction.                                                         *)

\* What the open transaction is after each statement, as a function of the
\* committed database and the batch; without one no batch is under way.
TxInv ==
  /\ pc = "staged" => tx = [db EXCEPT !.stage = Reduce(batch)]
  /\ pc = "merged" =>
       tx = [db EXCEPT !.stage = Reduce(batch),
                       !.target = Merged(db.target, batch, number, Guard)]
  /\ pc = "tombstoned" =>
       tx = [db EXCEPT !.stage = Reduce(batch),
                       !.target = ApplyTo(db.target, batch, number, Guard, OnTombstone)]
  /\ pc \in {"idle", "down"} => batch = <<>>

WarehouseInv == WarehouseTypeOK /\ TxInv

LEMMA WarehouseInitInv == WarehouseInit => WarehouseInv
<1> SUFFICES ASSUME WarehouseInit PROVE WarehouseInv
  OBVIOUS
<1>1. EmptyTarget \in Targets
  BY DEF EmptyTarget, Targets
<1>2. db \in Databases
  BY <1>1 DEF WarehouseInit, Databases
<1> QED BY <1>2 DEF WarehouseInit, WarehouseInv, WarehouseTypeOK, TxInv, FailurePoints

LEMMA StageInv ==
  ASSUME WarehouseInv, NEW b \in Seq(Records), NEW n \in Nat, Stage(b, n)
  PROVE  WarehouseInv' /\ db' = db /\ pc' = "staged" /\ batch' = b /\ number' = n
<1>1. Reduce(b) \in SUBSET Records
  BY ReduceTyped
<1>2. [db EXCEPT !.stage = Reduce(b)] \in Databases
  BY <1>1 DEF WarehouseInv, WarehouseTypeOK, Databases
<1> QED BY <1>2 DEF WarehouseInv, WarehouseTypeOK, TxInv, Stage, FailurePoints

LEMMA StatementInv ==
  ASSUME WarehouseInv, Statement
  PROVE  /\ WarehouseInv' /\ db' = db /\ batch' = batch /\ number' = number
         /\ pc \in FailurePoints /\ pc' \in FailurePoints
<1> USE DEF FailurePoints
<1>1. db \in Databases /\ batch \in Seq(Records) /\ number \in Nat
  BY DEF WarehouseInv, WarehouseTypeOK
<1>2. Reduce(batch) \in SUBSET Records /\ db.target \in Targets
  BY <1>1, ReduceTyped DEF Databases
<1>3. CASE MergeStage
  <2>1. tx = [db EXCEPT !.stage = Reduce(batch)]
    BY <1>3 DEF MergeStage, WarehouseInv, TxInv
  <2>2. tx.target = db.target /\ tx.stage = Reduce(batch)
    BY <1>1, <2>1 DEF Databases
  <2>3. tx' = [db EXCEPT !.stage = Reduce(batch),
                         !.target = Merged(db.target, batch, number, Guard)]
    BY <1>1, <1>3, <2>1, <2>2 DEF MergeStage, Merged, Databases
  <2>4. Merged(db.target, batch, number, Guard) \in Targets
    BY <1>1, <1>2, ApplyTyped
  <2>5. tx' \in Databases
    BY <1>1, <1>2, <2>3, <2>4 DEF Databases
  <2> QED BY <1>1, <1>3, <2>3, <2>5 DEF MergeStage, WarehouseInv, WarehouseTypeOK, TxInv
<1>4. CASE SoftDelete
  <2> DEFINE merged == Merged(db.target, batch, number, Guard)
  <2> DEFINE applied == ApplyTo(db.target, batch, number, Guard, OnTombstone)
  <2>1. tx = [db EXCEPT !.stage = Reduce(batch), !.target = merged]
    BY <1>4 DEF SoftDelete, WarehouseInv, TxInv
  <2>2. applied = IF OnTombstone = "delete"
                  THEN EntombIn(merged, Tombstones(batch), number) ELSE merged
    BY DEF ApplyTo, Merged
  <2>3. applied \in Targets
    BY <1>1, <1>2, ApplyTyped
  <2> HIDE DEF merged, applied
  <2>4. tx.target = merged
    BY <1>1, <2>1 DEF Databases
  <2>5. tx' = [db EXCEPT !.stage = Reduce(batch), !.target = applied]
    <3>1. CASE OnTombstone = "delete"
      BY <1>1, <1>4, <2>1, <2>2, <2>4, <3>1 DEF SoftDelete, Databases
    <3>2. CASE OnTombstone # "delete"
      BY <1>1, <1>4, <2>1, <2>2, <2>4, <3>2 DEF SoftDelete, Databases
    <3> QED BY <3>1, <3>2
  <2>6. tx' \in Databases
    BY <1>1, <1>2, <2>3, <2>5 DEF Databases
  <2> QED BY <1>1, <1>4, <2>5, <2>6 DEF SoftDelete, WarehouseInv, WarehouseTypeOK, TxInv, applied
<1> QED BY <1>3, <1>4 DEF Statement

\* A commit applies the batch, the whole of it, and the ledger names it.
LEMMA CommitInv ==
  ASSUME WarehouseInv, RecordAndCommit
  PROVE  /\ WarehouseInv' /\ pc = "tombstoned" /\ pc' = "idle" /\ batch' = <<>>
         /\ number' = number
         /\ db'.target = ApplyTo(db.target, batch, number, Guard, OnTombstone)
         /\ db'.ledger = [db.ledger EXCEPT ![Ledger] = number]
<1> USE DEF FailurePoints
<1> DEFINE applied == ApplyTo(db.target, batch, number, Guard, OnTombstone)
<1>1. db \in Databases /\ tx \in Databases /\ number \in Nat /\ pc = "tombstoned"
  BY DEF WarehouseInv, WarehouseTypeOK, RecordAndCommit
<1>2. tx = [db EXCEPT !.stage = Reduce(batch), !.target = applied]
  BY <1>1 DEF WarehouseInv, TxInv
<1> HIDE DEF applied
<1>3. tx.target = applied /\ tx.ledger = db.ledger
  BY <1>1, <1>2 DEF Databases
<1>4. db' = [tx EXCEPT !.ledger = [tx.ledger EXCEPT ![Ledger] = number]]
  BY <1>1 DEF RecordAndCommit, Recorded, Databases
<1>5. db'.target = tx.target /\ db'.ledger = [tx.ledger EXCEPT ![Ledger] = number]
  BY <1>1, <1>4 DEF Databases
<1>6. db' \in Databases
  BY <1>1, <1>4 DEF Databases
<1>7. WarehouseInv'
  BY <1>1, <1>6 DEF WarehouseInv, WarehouseTypeOK, TxInv, RecordAndCommit
<1> QED BY <1>1, <1>3, <1>5, <1>7 DEF RecordAndCommit, applied

\* A death leaves the committed database as it was.
LEMMA DieInv ==
  ASSUME WarehouseInv, Die
  PROVE  WarehouseInv' /\ db' = db /\ pc' = "down" /\ pc \in FailurePoints
BY DEF Die, WarehouseInv, WarehouseTypeOK, TxInv, FailurePoints

LEMMA WarehouseStutter ==
  ASSUME WarehouseInv, UNCHANGED warehouseVars
  PROVE  WarehouseInv'
BY DEF WarehouseInv, WarehouseTypeOK, TxInv, warehouseVars

-----------------------------------------------------------------------------
(* The records of a log, as a warehouse meets them.                         *)

\* What the merge of a deployment needs: the guard, positions no two changes
\* share, the primary key in every image, and a record key for each row.
MergeIsEnough ==
  Guard /\ ~Ties /\ ~MergeByRecordKey /\ OneSlotPerKey /\ NarrowRows = {}

LEMMA StreamOfRecords ==
  ASSUME SourceTypeOK
  PROVE  Stream(log) \subseteq Records
<1> SUFFICES ASSUME NEW e \in Stream(log) PROVE e \in Records
  OBVIOUS
<1>1. PICK i \in DOMAIN log : \/ e = ChangeRecord(i, log[i])
                              \/ log[i].op = "d" /\ e = TombstoneRecord(i, log[i])
  BY StreamElements
<1>2. log[i] \in Changes /\ i \in Nat \ {0}
  BY DEF SourceTypeOK
<1>3. /\ log[i].row \in Rows /\ KeyOf[log[i].row] \in Keys
      /\ log[i].op \in {"c", "u", "d"} /\ log[i].lsn \in Nat \ {0}
      /\ log[i].val \in Values \cup {Absent}
      /\ ImageRow(log[i]) \in Rows \cup {Absent}
  BY <1>2, EventsAssumption DEF EventsAssumption, Changes, ImageRow
<1>4. ChangeRecord(i, log[i]) \in Records
  BY <1>2, <1>3 DEF ChangeRecord, Records
<1>5. log[i].op = "d" => TombstoneRecord(i, log[i]) \in Records
  BY <1>2, <1>3 DEF TombstoneRecord, Records
<1> QED BY <1>1, <1>4, <1>5

\* A change record comes from one change of the log and names its row.
LEMMA ChangeOfRecord ==
  ASSUME SourceTypeOK, NarrowRows = {}, NEW e \in Stream(log), ~e.tomb
  PROVE  /\ e.at \in DOMAIN log /\ e = ChangeRecord(e.at, log[e.at])
         /\ e.row = log[e.at].row /\ e.row \in Rows /\ e.key = KeyOf[e.row]
         /\ e.lsn = log[e.at].lsn /\ e.lsn \in Nat
         /\ e.val = log[e.at].val /\ e.op = log[e.at].op
<1>1. PICK i \in DOMAIN log : e = ChangeRecord(i, log[i])
  BY StreamElements, RecordFields
<1>2. log[i] \in Changes
  BY DEF SourceTypeOK
<1>3. ImageRow(log[i]) = log[i].row
  BY DEF ImageRow
<1> QED BY <1>1, <1>2, <1>3, RecordFields DEF Changes

\* A tombstone comes from one delete of the log.
LEMMA DeleteOfTombstone ==
  ASSUME SourceTypeOK, NEW t \in Stream(log), t.tomb
  PROVE  /\ t.at \in DOMAIN log /\ t = TombstoneRecord(t.at, log[t.at])
         /\ log[t.at].op = "d" /\ t.key = KeyOf[log[t.at].row]
         /\ t.lsn = log[t.at].lsn /\ t.lsn \in Nat
<1>1. PICK i \in DOMAIN log : t = TombstoneRecord(i, log[i]) /\ log[i].op = "d"
  BY StreamElements, RecordFields
<1>2. log[i] \in Changes
  BY DEF SourceTypeOK
<1> QED BY <1>1, <1>2, RecordFields DEF Changes

LEMMA StreamPositions ==
  ASSUME SourceTypeOK, LogInv, ~Ties, NarrowRows = {}, NEW H \in SUBSET Stream(log)
  PROVE  PositionsTellApart(H)
<1> SUFFICES ASSUME NEW e \in H, NEW f \in H, ~e.tomb, ~f.tomb, e.lsn = f.lsn
             PROVE  e = f
  BY DEF PositionsTellApart
<1>1. /\ e.at \in DOMAIN log /\ e = ChangeRecord(e.at, log[e.at]) /\ e.lsn = log[e.at].lsn
      /\ f.at \in DOMAIN log /\ f = ChangeRecord(f.at, log[f.at]) /\ f.lsn = log[f.at].lsn
      /\ e.lsn \in Nat
  BY ChangeOfRecord
<1>2. \A i, j \in DOMAIN log : log[i].lsn = log[j].lsn => i = j
  <2> SUFFICES ASSUME NEW i \in DOMAIN log, NEW j \in DOMAIN log, log[i].lsn = log[j].lsn
               PROVE  i = j
    OBVIOUS
  <2>1. i \in Nat /\ j \in Nat /\ log[i].lsn \in Nat
    <3>1. log[i] \in Changes
      BY DEF SourceTypeOK
    <3> QED BY <3>1 DEF SourceTypeOK, Changes
  <2>2. ~(i < j) /\ ~(j < i)
    BY <2>1 DEF LogInv, LogOrdered
  <2> QED BY <2>1, <2>2
<1> QED BY <1>1, <1>2

LEMMA StreamKeys ==
  ASSUME SourceTypeOK, NarrowRows = {}, ~MergeByRecordKey, OneSlotPerKey,
         NEW H \in SUBSET Stream(log)
  PROVE  OneRowPerKey(H)
<1>1. \A e \in H : ~e.tomb => e.row \in Rows /\ e.key = KeyOf[e.row]
  BY ChangeOfRecord
<1> QED BY <1>1 DEF OneRowPerKey, OneSlotPerKey, SlotOf

-----------------------------------------------------------------------------
(* Batches one after another.                                               *)

\* f is the function CleanRun chooses, up to the k-th batch.
IsRun(f, k, b, guard, onT) ==
  f = [n \in 0..k |-> IF n = 0 THEN EmptyTarget
                      ELSE ApplyTo(f[n - 1], b[n], n, guard, onT)]

LEMMA RunExists ==
  ASSUME NEW b, NEW guard, NEW onT
  PROVE  \A k \in Nat : \E f : IsRun(f, k, b, guard, onT)
<1> DEFINE S == {k \in Nat : \E f : IsRun(f, k, b, guard, onT)}
<1>1. 0 \in S
  <2>1. IsRun([n \in 0..0 |-> EmptyTarget], 0, b, guard, onT)
    BY DEF IsRun
  <2> QED BY <2>1
<1>2. ASSUME NEW k \in Nat, k \in S PROVE k + 1 \in S
  <2>1. PICK f : IsRun(f, k, b, guard, onT)
    BY <1>2
  <2> DEFINE g == [n \in 0..k + 1 |->
                     IF n = k + 1 THEN ApplyTo(f[k], b[k + 1], k + 1, guard, onT) ELSE f[n]]
  <2>2. IsRun(g, k + 1, b, guard, onT)
    BY <2>1 DEF IsRun
  <2> QED BY <2>2
<1> HIDE DEF S
<1>3. Nat \subseteq S
  BY <1>1, <1>2, NatSetInduction
<1> QED BY <1>3 DEF S

\* The clean run starts empty and takes one batch at a time.
LEMMA CleanRunSteps ==
  ASSUME NEW b, Len(b) \in Nat, NEW guard, NEW onT
  PROVE  /\ CleanRun(b, guard, onT)[0] = EmptyTarget
         /\ \A n \in 1..Len(b) :
              CleanRun(b, guard, onT)[n] =
                ApplyTo(CleanRun(b, guard, onT)[n - 1], b[n], n, guard, onT)
<1>1. \E f : f = [n \in 0..Len(b) |-> IF n = 0 THEN EmptyTarget
                      ELSE ApplyTo(f[n - 1], b[n], n, guard, onT)]
  <2>1. PICK f : IsRun(f, Len(b), b, guard, onT)
    BY RunExists
  <2> QED BY <2>1, Zenon DEF IsRun
<1>2. IsRun(CleanRun(b, guard, onT), Len(b), b, guard, onT)
  BY <1>1, Zenon DEF CleanRun, IsRun
<1> QED BY <1>2 DEF IsRun

\* The records of the first batches of a list.
FirstOf(c, m) == {e \in UNION {InBatch(c[i]) : i \in DOMAIN c} :
                    \E i \in DOMAIN c : i <= m /\ e \in InBatch(c[i])}

LEMMA FirstOfElements ==
  ASSUME NEW c, NEW m
  PROVE  \A e : e \in FirstOf(c, m) <=> \E i \in DOMAIN c : i <= m /\ e \in InBatch(c[i])
BY DEF FirstOf

\* However records are batched, a clean run shows after each batch the newest of
\* the changes in the batches so far.
LEMMA CleanRunShows ==
  ASSUME ~MergeByRecordKey, NEW c \in Seq(Seq(Records)),
         NEW guard, Guards(guard), NEW onT, PositionsTellApart(FirstOf(c, Len(c)))
  PROVE  \A m \in 0..Len(c) :
           /\ CleanRun(c, guard, onT)[m] \in Targets
           /\ \A r \in Rows : Shows(CleanRun(c, guard, onT)[m][r], FirstOf(c, m), r)
<1> DEFINE T(m) == CleanRun(c, guard, onT)[m]
<1> DEFINE Good(m) == T(m) \in Targets /\ \A r \in Rows : Shows(T(m)[r], FirstOf(c, m), r)
<1> DEFINE S == {m \in Nat : m <= Len(c) => Good(m)}
<1>1. Len(c) \in Nat /\ DOMAIN c = 1..Len(c) /\ \A i \in DOMAIN c : c[i] \in Seq(Records)
  OBVIOUS
<1>2. T(0) = EmptyTarget /\ \A n \in 1..Len(c) : T(n) = ApplyTo(T(n - 1), c[n], n, guard, onT)
  BY <1>1, CleanRunSteps
<1> HIDE DEF T
<1>3. 0 \in S
  <2>1. EmptyTarget \in Targets
    BY DEF EmptyTarget, Targets
  <2>2. FirstOf(c, 0) = {}
    BY <1>1 DEF FirstOf
  <2>3. \A r \in Rows : EmptyTarget[r] = Absent /\ ChangesFor(r, {}) = {}
    BY DEF EmptyTarget, ChangesFor
  <2> QED BY <1>2, <2>1, <2>2, <2>3 DEF Shows
<1>4. ASSUME NEW m \in Nat, m \in S PROVE m + 1 \in S
  <2> SUFFICES ASSUME m + 1 <= Len(c) PROVE Good(m + 1)
    OBVIOUS
  <2>1. Good(m) /\ m + 1 \in DOMAIN c /\ m + 1 \in 1..Len(c) /\ (m + 1) - 1 = m
    BY <1>1, <1>4
  <2>2. T(m + 1) = ApplyTo(T(m), c[m + 1], m + 1, guard, onT) /\ c[m + 1] \in Seq(Records)
    BY <1>1, <1>2, <2>1
  <2>3. FirstOf(c, m + 1) = FirstOf(c, m) \cup InBatch(c[m + 1])
    <3>1. \A i \in DOMAIN c : i <= m + 1 <=> i <= m \/ i = m + 1
      BY <1>1
    <3> QED BY <2>1, <3>1, FirstOfElements
  <2>4. FirstOf(c, m) \in SUBSET Records
    BY <1>1, RecordsOfBatch DEF FirstOf
  <2>5. PositionsTellApart(FirstOf(c, m + 1))
    <3>1. FirstOf(c, m + 1) \subseteq FirstOf(c, Len(c))
      <4>1. \A i \in DOMAIN c : i <= Len(c)
        BY <1>1
      <4> QED BY <4>1, FirstOfElements
    <3> QED BY <3>1 DEF PositionsTellApart
  <2>6. ASSUME NEW r \in Rows PROVE Shows(T(m + 1)[r], FirstOf(c, m + 1), r)
    <3>1. Shows(T(m)[r], FirstOf(c, m), r) /\ T(m) \in Targets /\ m + 1 \in Nat
      BY <2>1
    <3>2. PositionsTellApart(FirstOf(c, m) \cup InBatch(c[m + 1]))
      BY <2>3, <2>5
    <3> DEFINE t == ApplyTo(T(m), c[m + 1], m + 1, guard, onT)
    <3>3. Shows(t[r], FirstOf(c, m) \cup InBatch(c[m + 1]), r)
      BY <2>2, <2>4, <3>1, <3>2, BatchShows
    <3> HIDE DEF t
    <3> QED BY <2>2, <2>3, <3>3 DEF t
  <2>7. T(m + 1) \in Targets
    <3>1. T(m) \in Targets /\ m + 1 \in Nat
      BY <2>1
    <3> QED BY <2>2, <3>1, ApplyTyped
  <2> QED BY <2>6, <2>7
<1> HIDE DEF S
<1>5. Nat \subseteq S
  BY <1>3, <1>4, NatSetInduction
<1> QED BY <1>1, <1>5 DEF S, T

=============================================================================
