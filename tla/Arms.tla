--------------------------------- MODULE Arms ---------------------------------
(***************************************************************************)
(* The arms of scripts/merge_probe.py that leave a part of the design out, *)
(* beside the one that has all of it: the same batches of the same change  *)
(* stream, each loaded into a warehouse of its own (load).                 *)
(*                                                                         *)
(*   open          no position guard in the merge                          *)
(*   hard          no soft delete: deleted rows go after every batch       *)
(*   versions      the merge key has the log position in it                *)
(*   unreduced     the batch is staged without collapsing it first         *)
(*                                                                         *)
(* The last two run over the interleaving alone, as in the probe.  An arm  *)
(* loads a batch when the pipeline commits it: no arm sees another one.    *)
(***************************************************************************)
EXTENDS Pipeline

VARIABLES
  open,
  hard,
  versions,   \* primary key and position -> row
  unreduced,
  refused,    \* whether the engine refused a batch of that arm, which ends it
  doubled     \* history: rows whose last batch held several changes of theirs

armVars == <<open, hard, versions, unreduced, refused, doubled>>
armsVars == <<pipelineVars, armVars>>

ArmsInit ==
  /\ PipelineInit
  /\ open = EmptyTarget /\ hard = EmptyTarget /\ unreduced = EmptyTarget
  /\ versions = <<>>
  /\ refused = FALSE
  /\ doubled = {}

-----------------------------------------------------------------------------
\* "delete from t where deleted = true", after the batch.
WithoutDeleted(target) ==
  [r \in Rows |-> IF target[r] # Absent /\ target[r].deleted THEN Absent ELSE target[r]]

VersionKey(e) == <<e.row, e.lsn>>

\* Mutant: the reduction does not know of the versions.
ReduceOnPrimaryKey(records) == Reduce(records)

\* reduce_batch, versioned: the position is part of the slot.
ReduceVersioned(records) ==
  {records[i] : i \in {i \in Addressable(records) :
     \A j \in Addressable(records) :
       VersionKey(records[j]) = VersionKey(records[i]) => ~Supersedes(records, j, i)}}

\* merge_sql, versioned: the stage joins the target on the position too.
MergeVersions(target, stage, n) ==
  LET Old(k) ==
        k \in DOMAIN target
        /\ \A e \in stage : VersionKey(e) = k => ~Matched(e, target[k], TRUE)
  IN  [k \in DOMAIN target \cup {VersionKey(e) : e \in stage} |->
         IF Old(k) THEN target[k]
         ELSE Stored(CHOOSE e \in stage : VersionKey(e) = k, n)]

\* _stage_unreduced: of a row every addressable change is staged, as it arrived.
ChangesOf(r, records) == {i \in Addressable(records) : records[i].row = r}

\* The engine raises on two staged rows for a row that is not there.
EngineRefuses(target, records) ==
  \E r \in Rows : target[r] = Absent /\ Cardinality(ChangesOf(r, records)) > 1

\* Mutant: the engine has a rule for choosing, the last staged row.
MergeTakesLast(target, records, n) ==
  [r \in Rows |->
     LET taken == {i \in ChangesOf(r, records) :
                     target[r] = Absent \/ Matched(records[i], target[r], TRUE)}
     IN  IF taken = {} THEN target[r]
         ELSE Stored(records[CHOOSE i \in taken : \A j \in taken : j <= i], n)]

\* Of several staged rows that match one row the engine takes the first.
MergeUnreduced(target, records, n) ==
  [r \in Rows |->
     LET taken == {i \in ChangesOf(r, records) :
                     target[r] = Absent \/ Matched(records[i], target[r], TRUE)}
     IN  IF taken = {} THEN target[r]
         ELSE Stored(records[CHOOSE i \in taken : \A j \in taken : i <= j], n)]

-----------------------------------------------------------------------------
LoadOpen == open' = ApplyTo(open, batch, number, FALSE, OnTombstone)

\* Mutant: deleted rows are removed once the stream is over, not batch by batch.
HardDeletesAtTheEnd ==
  LET loaded == ApplyTo(hard, batch, number, TRUE, OnTombstone)
  IN  hard' = IF Drained THEN WithoutDeleted(loaded) ELSE loaded

LoadHard == hard' = WithoutDeleted(ApplyTo(hard, batch, number, TRUE, OnTombstone))

LoadVersions ==
  LET merged == MergeVersions(versions, ReduceVersioned(batch), number)
  IN  \/ /\ delivery = "interleave"
         /\ versions' = EntombIn(merged, Tombstones(batch), number)
      \/ delivery # "interleave" /\ UNCHANGED versions

LoadUnreduced ==
  LET merged == MergeUnreduced(unreduced, batch, number)
      twice == {r \in Rows : Cardinality(ChangesOf(r, batch)) > 1}
      once == {r \in Rows : Cardinality(ChangesOf(r, batch)) = 1}
  IN  \/ /\ delivery = "interleave" /\ ~refused
         /\ EngineRefuses(unreduced, batch)
         /\ refused' = TRUE
         /\ UNCHANGED <<unreduced, doubled>>
      \/ /\ delivery = "interleave" /\ ~refused
         /\ ~EngineRefuses(unreduced, batch)
         /\ unreduced' = EntombIn(merged, Tombstones(batch), number)
         /\ doubled' = (doubled \ once) \cup twice
         /\ UNCHANGED refused
      \/ /\ delivery # "interleave" \/ refused
         /\ UNCHANGED <<unreduced, refused, doubled>>

LoadBatch == FinishBatch /\ LoadOpen /\ LoadHard /\ LoadVersions /\ LoadUnreduced

Feed == (Commits \/ Poll \/ StartBatch \/ RunStatement) /\ UNCHANGED armVars

ArmsNext == Feed \/ LoadBatch

ArmsSpec == ArmsInit /\ [][ArmsNext]_armsVars

-----------------------------------------------------------------------------
(* Properties.                                                              *)

ArmsTypeOK ==
  /\ PipelineTypeOK
  /\ {open, hard, unreduced} \subseteq Targets
  /\ DOMAIN versions \subseteq Rows \X Nat
  /\ \A k \in DOMAIN versions : versions[k] \in StoredRows
  /\ refused \in BOOLEAN
  /\ doubled \subseteq Rows

\* The guard and the soft delete are storage against disorder and nothing else:
\* while the broker keeps the order within partitions, a merge without the one
\* or the other leaves the very same rows, positions and batch ids included.
OrderNeedsNeither ==
  delivery = "interleave" /\ Settled =>
    open = db.target /\ hard = WithoutDeleted(db.target)

\* What a hard delete costs (merge.py, "The delete is soft because the ordering
\* guard needs somewhere to live"): a finished run is wrong about a row only by
\* bringing it back from the dead, and only where order was lost.
HardDeleteOnlyResurrects ==
  Settled /\ Drained =>
    \A r \in Rows : Live(hard)[r] # table[r] => table[r] = Absent /\ delivery # "interleave"

\* A row changed since its last delete that was followed by its tombstone.
SinceItsTombstone(r, i) ==
  \A e \in delivered : e.tomb /\ e.key = KeyOf[r] => e.lsn < log[i].lsn

\* A merge key with the position in it keeps a history and not a table: the live
\* versions of a row are all its changes since it last came into being.
VersionedIsHistory ==
  delivery = "interleave" /\ Settled =>
    \A r \in Rows :
      {<<k[2], versions[k].val>> :
         k \in {k \in DOMAIN versions : k[1] = r /\ ~versions[k].deleted}}
      = {<<log[i].lsn, log[i].val>> :
         i \in {i \in Applied(r) : log[i].op # "d" /\ SinceItsTombstone(r, i)}}

\* What the reduction is worth (merge.py, "The reduction is not an optimisation"):
\* without it the table is behind on exactly the rows whose last batch changed
\* them more than once, silently, and never ahead on any.
UnreducedIsSilentlyBehind ==
  delivery = "interleave" /\ Settled /\ ~refused =>
    \A r \in Rows :
      IF r \in doubled
      THEN unreduced[r].lsn < db.target[r].lsn
      ELSE unreduced[r] = db.target[r]

=============================================================================
