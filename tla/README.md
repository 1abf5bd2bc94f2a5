# TLA+ development of cdc-postgres-warehouse

The repository takes row changes off a PostgreSQL replication slot, shapes them into
Debezium-style records, delivers them the way a broker would, applies them to an in-memory
reference consumer and to a warehouse by SQL `MERGE`, recovers the warehouse after a death, and
reconciles it with its source. This directory models that path, checks it with TLC on small
instances and proves with TLAPS, for instances of every size, what the reader of the slot, the
consumer, the warehouse, its arms, recovery, reconciliation and the workload promise.

## The system: inventory

| part | state it keeps | operations | talks to |
|---|---|---|---|
| load generator (`load/`) | the plan's row counts; the applier's pool of primary keys; the source tables | `plan`, `adopt_existing`, `seed_dimensions`, inserts, updates, deletes | commits to the source tables |
| slot and decoding (`cdc/pg.py`, `cdc/decode.py`, `scripts/replica_identity_probe.py`) | the replica identity of the tables; a refused statement ends an arm | `set_replica_identity`, `parse_row`, `summarise`, `run_arm` | reads the slot, yields decoded rows |
| change stream (`cdc/events.py`) | none: a function of the decoded rows | `envelope`, `stream`, `key_columns_for`, `key_reuse` | decoded rows in, records out |
| topics (`cdc/topics.py`) | none | `topic_name`, `key_json`, `murmur2`, `partition_for`, `split_rate`, `split_cost` | decides the partition of a record |
| delivery orders (`cdc/delivery.py`) | none | `route`, `interleave`, `shuffle`, `compact`, `disorder` | permutes records for a consumer |
| in-memory consumer (`cdc/consumer.py`) | `rows`, `watermark`, `under_key`, counters | `apply_events`, `_forget`, `compare` | the reference for the warehouse |
| batch reduction and merge (`warehouse/merge.py`, `warehouse/sql.py`) | target, stage and ledger tables; an open transaction | `reduce_batch`, `apply_batch`, `live_rows`, `last_batch`, `fingerprint`, `batches` | applied to by recovery, read by reconciliation |
| recovery (`warehouse/recovery.py`, `scripts/chaos_probe.py`) | the loop's place; an offset store beside the ledger | `resume_point`, `first_batch_to_apply`, `drive`, `resume_gap`, `ledger_agrees_with_the_data` | restarts `apply_batch` |
| reconciliation (`warehouse/reconcile.py`, `scripts/reconcile_probe.py`) | none: a report of what it reads | `keys_in_flight`, `reconcile`, `verdict`, `run`, `rollup`, `one_line` | reads source, warehouse and what is held back |
| connector configuration (`cdc/connector.py`) | none | builds and validates a dictionary | nothing at run time |
| measuring probes, reproduction of figures | none | run the above, print tables | everything |

What is hard here, and not reached by running one seed:

- **Order.** Six partitions interleave arbitrarily; a shuffle keeps no order. A change, its
  tombstone and the row's next life may arrive in any relative place.
- **Ties.** Two changes may share a log position; the tie is broken by delivery order in the
  consumer and inside a batch, by the guard across a batch boundary.
- **A key that covers several rows.** A tombstone speaks for a record key, not for a row, and
  goes through an index that has to be kept exact.
- **A batch boundary.** The same two changes meet in `reduce_batch` or in `merge_sql`'s guard.
- **Death and restart.** Three points in the transaction, one between the batches, an offset
  outside the transaction, and a restart whose batches are not the ones before.
- **Comparing while data is in flight.** A report must not call lag drift, nor say clean
  about what it did not look at; the ratio it decides on is rounded.
- **Text.** The slot is read as text: a value may hold a quote, a null, the start of a field or
  one of the markers that part the old row from the new, and a line may arrive cut short.
- **32-bit arithmetic.** A record's partition is Java's hash of its key's bytes: the order the
  consumer relies on hangs on a port of it, and on every producer writing the same bytes.
- **A plan without a database.** The planner counts rows it never sees; the applier inserts
  parents nobody planned.

`PROJECT.json` lists each of these, and the rest, at its line under `hazards`.

What makes each part correct: a record says what the slot said, under the key and on the partition of
its row; the consumer mirrors the newest change of each row and in the
end the source; the warehouse agrees with the consumer at every batch boundary, positions
included; a ledger and the data it stands for move together and a resumed run ends in the table
of a run that never died; a report says drift only over drift and clean only over equality; the
workload never plans what it cannot do.

## The modules

    RecordKeys --- Topics ------- Routing
              \                 /
    Decode ----+---- Capture --+
                     |
    Events -- Source +-- Consumer -----------+
      |          \                           |
      +- Merge -- \- Warehouse --------------+-- Pipeline -+- Arms
           \           \                                   +- Reconcile
            \           +---- (with Source) ---- Recovery
             +- ExactlyOnce  . . . refined by . . .  |

    Workload  (on its own)

- **Decode** is the reader of a slot's text (`cdc/decode.py`), on tokens instead of characters: a
  field start, a marker, a quote, a space, any other run of characters. The scanner, the split
  of a line into its halves, the images and the count of old images are recursive functions
  and operators of a line. A field name, `name[type]:`, is one token, so a line cannot be cut inside
  one. `Words`, `Images` and `Marks` say what a line can hold, and `DecodeAssumption` that its tokens are
  told apart.
- **RecordKeys** is the JSON of a record's key (`key_json`), as bytes.
- **Topics** is the rest of `cdc/topics.py`: `murmur2` on words of four bytes (TLC's own
  integers are too narrow for the products), `partition_for`, `fanout` and `split_rate`.
- **Capture** puts Decode behind a source: a source whose tables have one of the three replica identities, the
  lines its slot prints (modelled from the shapes `cdc/decode.py` lists, external), the decoded
  rows (`slot` and `decoded`, which grow with the log), and the envelopes made of them. Its main property says that the records of Events,
  which every other module starts from, are those. Two tables stand for the four: one with a
  text column, one with a composite key and deletes.
- **Routing** hashes Capture's keys with Topics, beside what the layout probe measures of the order lines.
- **Events** translates `envelope`, `stream`, `identity` and `route`. A record is what a topic
  carries; a row's name stands for its primary key, everything else in its image is one value.
  `at` is the place of the change in the log: no code reads it, it tells deliveries apart, and
  `IsLast` is the last of a set of such places.
  `Slot` is what identifies a row in a target: the primary key, or the record key when
  `merge_keys` is `None`. One topic is enough because slots, keys and target tables are
  qualified by the topic everywhere in the code and never meet across topics.
- **Source** is the table and its log as the slot shows it: one action per kind of statement,
  a position that may be shared with the change before it when `Ties` is true.
- **Consumer** is `apply_events`, one record per step, one action per branch in the order the
  code tests them: `IgnoreTombstone`, `ApplyTombstone`, `NoMergeKey`, `DropStale`,
  `ApplyDelete`, `ApplyUpsert`. `rows`, `watermark`, `under_key` and the counters a property
  speaks of are its variables. `Deliverable` is the order: `interleave` keeps each partition's
  order, `shuffle` none. The source may commit between any two deliveries.
- **Merge** holds `reduce_batch`, `merge_sql` and `tombstone_sql` as functions of a batch and of
  the table's rows, and `batches`. The reduction is stated as "the change no other supersedes",
  not as the code's loop. `Targets` is what a table can be and `Entomb` what a tombstone does to
  it, for `tombstone_sql` and for the arms alike; `MergeAssumption` says that `Absent` is no
  stored row. No operator is recursive; `CleanRun` is a recursive function.
- **Warehouse** is `apply_batch` statement by statement. `db` is what is committed, `tx` what the
  open transaction sees, `pc` the failure point reached. `Die` is a `Crash` raised at one of
  `FAILURE_POINTS`; the transaction is rolled back.
- **Pipeline** feeds both implementations of the rule from one delivery, interleaved or shuffled,
  and cuts batches of an arbitrary size, as `scripts/merge_probe.py` does. The workload ends
  before the stream is read.
- **Arms** puts beside it the arms of `scripts/merge_probe.py` that leave one part of the design
  out, each a warehouse of its own fed the same batches: no guard, hard deletes, a merge key with
  the position in it, no reduction. What DuckDB does with two staged rows for one target row
  is taken from `engine_duplicate_source_behaviour`.
- **ExactlyOnce** is an abstract specification: a list of batches is fixed, each is applied
  once, in order, and the ledger moves with it. It has no transactions, deaths or restarts.
- **Recovery** is `drive` and the restarts of `scripts/chaos_probe.py`: drain, cut, apply, die,
  resume over the same batches or over those of a second drain, by one of four strategies. A
  restart asks the ledger under the name it is given (`consumer`), and `drive` writes under `Ledger`.
  `landed`, `before` and `resumed` are history variables. A death between two batches
  (`DieBetweenBatches`) is not one of the points the code injects; it is a process death at the
  place where no transaction is open.
- **Reconcile** asks, at every moment of a pipeline run, what a report would say. A report is an
  operator, not a variable. `Corrupt` is the probe's hand on a row. A row stands for `Weight`
  keys, all alike, so that the rounding of a coverage of many thousand keys is met with three
  rows; coverage is counted in ten-thousandths, as the code rounds it.
- **Workload** is the planner and the applier, from any database a run may find.
- The proofs stand in modules of their own, each over the module it is named after and using
  those below it: **SourceProofs** (the log, and the inductions and sums all of them use),
  **WarehouseProofs** (reduction, merge, transaction: lemmas only), **PipelineProofs** (the consumer
  and the pipeline), **ArmsProofs**, **RecoveryProofs**, **ReconcileProofs**, **WorkloadProofs** and
  **CaptureProofs**. Recovery has no consumer, so its proofs rest on SourceProofs and
  WarehouseProofs; the pipeline's rest on both sides it compares; Capture's on SourceProofs.
- **MCCapture**, **MCConsumer**, **MCArms**, **MCPipeline**, **MCRecovery** and **MCReconcile**
  give keys and partitions to the instances; `Workload` is run as it is.

Operators named after a mistake (`StaleAtEqual`, `TombstoneForgetsMarks`, `DieCommitting`, ...)
stand before the definition they are a mutation of and are used by nothing: each is a plausible
bug, and putting it in place of its definition makes TLC find the property named for it in
`PROJECT.json` violated. They show that the properties can fail.

## The runs

Each finishes within two minutes with two workers. "States" are distinct states.

| run | question | bounds | states |
|---|---|---|---|
| `consumer_row_key` | does the consumer mirror the source when a record key is a row's key? | 2 rows on 2 partitions, 2 values, 4 changes, ties, one row whose delete image lacks the merge columns | 44,313 |
| `consumer_wide_key` | what does a key covering two rows cost, and what does it leave intact? | 3 rows under 2 keys, 1 value, 5 changes, ties | 240,797 |
| `merge_arms` | do reduction and guard agree with the consumer at every batch boundary, in partition order and in none, and what does each part left out cost? | 2 rows, 2 values (symmetric), 4 changes, distinct positions, batches of 1 to 3 | 750,040 |
| `batch_boundary` | (violated) the same with two changes at one position | 3 changes | |
| `recovery_resume` | over the same batches, is the ledger a checkpoint and each batch applied once? | 3 changes, 2 deaths, batches of 1 or 2 | 9,923 |
| `recovery_restart` | four ways of resuming, same and new batches: what is lost, what is restored? | 3 changes, 2 deaths, batches of 1 to 3, two names, rows symmetric | 1,415,304 |
| `ledger_alarm` | (violated) does the check on the ledger stay quiet under `replay_all`? | 1 death | |
| `reconcile` | is a report worth believing at any moment? | 3 rows in 2 tables, 3 changes, one corruption per row and value, weights 7, 1, 1 | 78,822 |
| `reconcile_rounding` | (violated) is a partial pass ever called clean? | weights 20000 and 1 | |
| `workload` | do plan and applier agree without talking? | 4 planned steps, dimensions of 0 or 1, databases with up to one order of two lines | 418,510 |
| `capture` | is what is read off the slot the stream the other modules start from, and does a key land where the Java client puts it? | 3 statements, 5 rows in 2 tables, 4 texts, 3 identities, lines cut behind every token, 5 texts with markers | 9,135 |
| `capture_keys` | (violated) do the records of an order line land where it is measured to land? | 2 statements | |

Why the bounds are enough. Every rule compares two records of one slot, or a record with what
the slot holds, so two rows meet every case but one: siblings under a wide key and a bystander
need three. Four changes are a row's whole life and its return (insert, update, delete, insert)
or two rows' halves of it; a delete also brings a tombstone, so up to six records are
interleaved. Two values tell an old image from a new one; one value is enough where the
position already does. Batches of one to three records put any two of these on either side of a
boundary or on the same. Two deaths let a resumed run die again. Two strategies differ on their
second run, and a second drain has its own order and its own batch size. A line is read on its
own, so three statements, which give a row an old image and a delete, meet every shape of line; the
texts hold each thing the scanner has a branch for, and the rows are those the tests give
the Java client's answer for, the one with the sign bit set included. Symmetry is used where no
property is temporal but `MarkNeverGoesBack`, which is an action property, and where no instance
tells the elements apart.

Deadlock is not checked: a source that commits no more and a consumer that has read everything
have nothing left to do, and a bounded log ends every run.

What the properties say is written above each of them. The ones with the most in them:

- `LatestWins`: after any prefix of any delivery order each slot shows the newest change delivered
  for it, unless a later tombstone of its own took the row.
- `TargetMatchesSource`, `WarehouseMatchesSource`: once drained, the target is the source.
- `IndexExact`: the index behind tombstones names exactly the live rows of each key.
- `OnlySiblingTombstonesLoseRows`: under a wide key a drained target errs only by missing a row,
  and only after a sibling's tombstone at or past the row's last change.
- `AgreesWithTheConsumer`, `PositionsAgree`: the SQL and the Python are one rule; the positions of
  soft-deleted rows are the consumer's high water marks. In a shuffle one disagreement is left: a
  tombstone that overtook its own delete hides the row in the warehouse and not in the consumer.
- `OrderNeedsNeither`, `HardDeleteOnlyResurrects`, `VersionedIsHistory`, `UnreducedIsSilentlyBehind`:
  what the guard, the soft delete, the merge key and the reduction are each worth, exactly.
- `LedgerIsACheckpoint`: whatever died, the committed table is a clean run's after the batch the
  ledger names. `AppliesEachBatchOnce` is the refinement of `ExactlyOnce`.
- `CompactionKeepsOneRowPerKey`: a compacted topic rebuilds the row of each key changed last and nothing
  else, which is every row under the default key and one line of an order under the wide one.
- `SizesDecideTwoNumbers`: when `resume_gap`'s two counts are one.
- `GapIsWhatNeverLands`: what `resume_gap` calls dropped is what never reaches the warehouse.
- `RecoveredIsClean`, `OnlyLostKeysAreWrong`: over the same batches a recovered table is the clean
  one; over new ones resuming by number spoils the rows of lost records and no others, and a
  replay of everything loses none.
- `EnvelopesAreTheStream`: decoding, keys, images and tombstones give the records of Events.
- `TextsAreWholeOrMissing`: no half value is handed on, with two exceptions the property states: a
  line cut right before a quote, which reads as what precedes a quote of the text (`Halves`), and a
  text that holds both `(no-tuple-data)` and `new-tuple:` (`Separable`). The code fails its own
  promise in both (see the disagreements); everywhere else it keeps it.
- `SummarySaysWhatIsRecoverable`: when the old images are enough to walk the table back.
- `DriftIsNotLag`, `CleanMeansEqual`, `QuietReportIsExact`: what a verdict is worth, and when.
- `NothingSkipped`, `PoolIsTheDatabase`, `InsertsAddRows`: the planner's counts never promise a
  row the applier cannot find.

### Fairness

- Consumer: `WF(Consume)`. `apply_events` is a loop over what was delivered and does not stop
  while a record is left. The source owes nothing.
- Recovery: weak fairness of draining, of driving and of restarting. The probe starts the dead
  consumer again, always; deaths are bounded by `MaxCrashes`, as a probe injects a fixed number.

`EventuallyMirrored` and `EventuallyInTheWarehouse` rest on these. Pipeline, Arms, Reconcile,
Capture, Routing and Workload have safety properties only, and no fairness.

## What is proved

Everything here holds for every set of rows, every key function, every partitioning, every cut
into batches, any number of changes, deliveries and deaths; `MaxLog`, `MaxCrashes` and the sizes
are natural numbers and nothing more. No theorem rests on a bound of a run. The assumptions on
constants are those named `...Assumption` in the modules that declare them.

Hypotheses are what a deployment has to have. They are named once:

- *order* (`OrderIsEnough`): the broker keeps the order of a partition, or the guard is on and no
  two changes share a position;
- *interleave*: the broker keeps the order of a partition (`Order = "interleave"`);
- *key* (`KeyIsEnough`): tombstones are ignored, or *one slot*;
- *one slot* (`OneSlotPerKey`): one record key never covers two merge keys;
- *slots* (`SlotsNameRows`): no two rows of the source share a slot of the target;
- *images* (`NarrowRows = {}`): a delete's image has the merge columns;
- *merge* (`MergeIsEnough`): the guard is on, no two changes share a position, the merge key is
  the primary key, one slot, images. It is the design of the repository on a stream without ties;
- *plain* (`PlainTexts`): no text of a row holds a marker of the line format, of
  which `docs/limitations.md` warns for one of them. Quotes, spaces, what looks like a field and what looks
  like a null are allowed;
- *keyed* (`KeyedByPrimaryKey`): the keys of Events are the bytes of the primary key, and old images
  carry it.

TLC shows what the consumer's and the merge's are needed for: `consumer_wide_key` runs without
one slot, `consumer_row_key` without images (there `TargetMatchesSource` still holds, because
the tombstone rescues the delete that was dropped), `batch_boundary` with ties, and the arms
each leave one part out.

### The slot and its reader (`CaptureProofs`)

| theorem | establishes | under |
|---|---|---|
| `ARunIsTheSources` | a run under any identity is one of `Source` | nothing |
| `EveryLineIsRead` | `[]CaptureTypeOK` | plain |
| `ReaderPublishesTheStream` | `[]EnvelopesAreTheStream` | plain, keyed |
| `SummaryIsRight` | `[]SummarySaysWhatIsRecoverable` | plain |
| `TextsAreReadWhole` | `[]TextsAreWholeOrMissing` | plain |

They hold for texts, keys and numbers of every length: `CaptureAssumption` says that a row and a value are
those of one of the two tables, and that the columns have field starts. The reader's functions
look ahead in a text that ends, so each has a value at every place (`RecursionFromTheEnd`, by
induction from the end over a set of numbers) and is what its equation says (`QuotedIsARun`,
`ImageIsARun`). What a field was printed with is what is read, whatever stands behind it
(`QuotedWhole`, `BareWhole`), so a tuple gives back its image column by column (`ImageReadsBack`),
and the split finds the halves of an update that holds no other marker (`SplitBoth`). `CaptureInv`, the inductive
invariant, has no reader in it: of each change (`Recorded`) it keeps the line, that it was decoded, and that a
change found and left a value where it had to; the table is the log's last change of each row.
`Decodes` turns that into the images, and the first three theorems follow.

For the last, `Named` is what is needed of a tuple: a field start, no text nor quote before the
quoted one, and nothing marked up to it. A fragment that ends inside the name is refused, or, where
a quote comes next, reads as one of its `Halves` (`QuotedCut`); one that holds no name has none, and
one that holds all of it has the whole (`LineFragment`). A cut line and a line split inside a name are
pieces of these kinds (`AloneCut`, `BothCut`, `AloneWhole`, `BothWhole`). A line split inside a name
hands on half of it only if the other piece is not refused, for which it has to hold
`(no-tuple-data)`; hence `Separable`, which is a condition in the property and no hypothesis of the
theorem: nothing is assumed of the odd texts.

### Consumer (`PipelineProofs`)

| theorem | establishes | under |
|---|---|---|
| `TypeCorrect` | `[]TypeOK` | nothing |
| `IndexExactHolds` | `[]IndexExact` | nothing |
| `GuardIsQuiet` | `[]GuardNeverFires` | nothing |
| `CompactionKeepsTheLastRow` | `[]CompactionKeepsOneRowPerKey` | nothing |
| `MarkIsMonotone` | `MarkNeverGoesBack` | order |
| `LatestWinsHolds` | `[]LatestWins` | order, key |
| `EndToEnd` | `[]TargetMatchesSource` | order, key, slots, images |
| `OnlySiblingsLoseRows` | `[]OnlySiblingTombstonesLoseRows` | order, slots, images |
| `TombstonesOnlyRescue` | `[]TombstoneOnlyRescues` | interleave, one slot |
| `TombstonesRemoveNothing` | no tombstone removes a row | interleave, one slot, images |

The argument has three layers. `Base` needs no hypothesis: the types, the shape of the log
(`LogOrdered`, `DeletesAreEmpty`, `TableIsLastChange`), deliveries closed under "earlier in the
same partition" (`PartitionClosed`), and an index that is exact whatever the tombstones remove
(`IndexExact`; counting what they remove needs `IndexFinite`). `Marked` adds that a slot's
position is that of the newest change applied to it (`MarkIsLast`), which needs enough order and
nothing of the keys, since no tombstone touches a position: a change that is not stale is the
newest of its slot (`CurrentIsNewest`), and one that is has a newer one in front of it
(`StaleIsOlder`). `Inv` adds `LatestWins`, the only part that needs the keys: what a tombstone
removes is then its own row, whose delete it frames (`TombstoneKeepsLatest`). Each layer has one
lemma for the source's steps (`ProduceBase`, `ProduceMarks`, `ProduceLatest`) and one for a
delivery (`ConsumeBase`, `ConsumeMarks`, `ConsumeLatest`), and the theorems follow by projection.
Without *key* the wide-key theorem keeps the second layer and adds that a slot shows its newest
change or nothing, and nothing only after a tombstone of its record key at or past it.

### The merge and the pipeline (`WarehouseProofs`, `PipelineProofs`)

| theorem | establishes | under |
|---|---|---|
| `ThePipelineIsAConsumer` | `PipelineSpec` implements the safety part of the consumer's `Spec` | nothing |
| `MarkStaysMonotone` | `MarkNeverGoesBack`, beside a warehouse | order |
| `PipelineTypes` | `[]PipelineTypeOK` | nothing |
| `PositionsAlwaysAgree` | `[]PositionsAgree` | merge |
| `WarehouseIsTheConsumer` | `[]AgreesWithTheConsumer` | merge |
| `OrderLeavesNoDisagreement` | between batches the live rows are the consumer's, with no exception | merge, interleave |
| `WarehouseIsTheSource` | `[]WarehouseMatchesSource` | merge |

`Shows` says what a table holds when some set of records has been merged into it: of each row the
newest change among them, marked deleted if that was a delete, and otherwise only by a tombstone
of its key at or past it. A batch merged into a table that shows one set shows its union with the batch (`Reduce` keeps the
newest change of a slot, `Tombstones` the highest position of a key, and no order within either is
left to matter). `TxInv` says what the open transaction sees at each value of `pc`, as a function
of the committed database and the batch, so a rollback leaves the table as it was and a commit
takes the batch whole. The inductive invariant of the pipeline (`PipelineInv`) is the consumer's
`Inv`, `Shows` of what was committed (`TableShows`), and `TxInv`; at the end of a batch both sides
show the newest change of the same set. What is left is a tombstone: the row it hides in the
warehouse is shown by the consumer only if the tombstone came before its own delete
(`HiddenForAReason`), which an interleaving excludes.

### The arms (`ArmsProofs`)

| theorem | establishes | under |
|---|---|---|
| `ArmsAreAPipeline` | `ArmsSpec => PipelineSpec` | nothing |
| `ArmsTypes` | `[]ArmsTypeOK` | nothing |
| `OrderAlone` | `[]OrderNeedsNeither` | merge |
| `HardDeletesOnlyResurrect` | `[]HardDeleteOnlyResurrects` | merge |
| `VersionsAreHistory` | `[]VersionedIsHistory` | merge |
| `UnreducedIsBehind` | `[]UnreducedIsSilentlyBehind` | merge |

The arms only watch the run, so the pipeline's invariant is theirs. Where the order of partitions
is kept, what has been handed to the merge is closed under "earlier of the same key" and so is
every pending batch in its own order: a pending record is newer than everything of its key in the
table. The guard then passes every change (`OrderAlone`), a hard delete forgets nothing that comes
again, every version is a new one (`VersionsAreHistory`), and an unreduced batch that takes the
first staged row instead of the newest is behind exactly where it staged two. `HardDeletesOnlyResurrect`
is the one that speaks of a shuffle too: there the row without its soft delete shows one of
its changes or nothing, and is right about every row that lives in the end.

### Recovery (`RecoveryProofs`)

| theorem | establishes | under |
|---|---|---|
| `RecoveryTypes` | `[]RecoveryTypeOK` | nothing |
| `TheLedgerIsACheckpoint` | `[]LedgerIsACheckpoint` | restarts ask the name that is written (`DriveAs \subseteq {Ledger}`) |
| `AppliesEachBatchAtMostOnce` | `RecoverySpec` implements the safety part of `ExactlyOnce` | the same, ledger strategy, no second drain (`OneBatching`) |
| `RecoveredRunsAreClean` | `[]RecoveredIsClean` | merge |
| `OnlyTheLostAreWrong` | `[]OnlyLostKeysAreWrong` | merge |
| `TheGapIsWhatNeverLands` | `[]GapIsWhatNeverLands` | nothing |
| `OffsetBeforeLosesOnePerDeath` | `[]OffsetBeforeLosesTheBatchInFlight` | nothing |
| `SizesDecide` | `[]SizesDecideTwoNumbers` | nothing |

The base (`RecoveryBase`) is that the batches of a finished drain hold the log once each, in
contiguous cuts (`Cutting`), that an open transaction is always the loop's batch (`CutInv`) and
`TxInv`: a death forgets a batch whole, a commit takes it whole (`FinishStep`). On it each property
has an invariant of its own about where the loop, the ledger, the offset and what has landed stand
to each other. `CheckpointInv` is that the table is `CleanRun` of the prefix the ledger names; it
needs no guard, since what protects the table there is the transaction. `ReplayInv` and
`LandedShows` need the merge: a batch merged again shows nothing new. `FirstRun` and `SecondRun`
follow the batching before and after a second drain. The value of `CleanRun` on every prefix is
proved by least counterexample over the set of prefixes (`NatSetInduction`), a form of induction
that takes no operator as a parameter.

### Reconciliation (`ReconcileProofs`)

| theorem | establishes | under |
|---|---|---|
| `LagIsNeverDrift` | `[]DriftIsNotLag` | merge, some rows, finitely many |
| `QuietReportsAreExact` | `[]QuietReportIsExact` | some rows, finitely many |
| `CleanIsEqual` | `[]CleanMeansEqual` | the same, fewer than 20000 keys to a table |
| `PartialPassesAreSeen` | a partial pass is never called clean | the same |
| `CoverageIsAlwaysBetween` | `[]CoveragesAgree` | finitely many rows |

`LagIsNeverDrift` is a theorem about an instant: a row none of whose changes is on its way shows
the newest change handed to the merge, that is the last of the log, and that is the source's row
(`QuietRow`), in the middle of a transaction too. The rest is arithmetic on counts. 20000 is where
one key in a table disappears in four digits: `reconcile_rounding` shows the failure with 20001,
`PartialPassesAreSeen` that there is none below. `CoveragesAgree` is the mediant inequality for any
number of tables with its rounding, by induction over the set of tables. (`Absent \notin Nat`, on
three of them, says that the coverage of a table without keys is told from every number.)

### Workload (`WorkloadProofs`)

`WorkloadTypes`, `NothingIsSkipped`, `ThePoolIsTheDatabase` and `EveryInsertAddsARow` prove
`WorkloadTypeOK`, `NothingSkipped`, `PoolIsTheDatabase` and `InsertsAddRows` with no hypothesis. The invariant
(`WorkloadInv`) is that the rest of the plan has a course of counts (`Course`), one number of rows
per table in front of every operation, that starts at no more than the pool holds: an insert adds
one, a delete takes one, and what the applier inserts unplanned only raises the pool over the
course. It needs every insert to meet a new key, which is `Counted`.

### Only model-checked

- `RoutedLikeTheJavaClient`: `murmur2` is written with the bitwise operators, which the provers do not
  know, and what it is compared with is a table of five keys. Routing has no theorem for that reason.
- Liveness: `EventuallyMirrored`, `EventuallyInTheWarehouse` and the fairness half of
  `AppliesEachBatchOnce` (each batch *is* applied), which need ENABLED.
- That the hypotheses are needed: a proof shows they are enough, the runs expected to fail and
  the mutants show what happens without them.

## Disagreements found

Each is a run that TLC must find violated, quoted in `PROJECT.json`:

1. `batch_boundary`: two changes at one position in two batches. The consumer and the reduction
   let the second win, `merge_sql`'s guard refuses it.
2. `ledger_alarm`: under `replay_all` the ledger goes back while the data keeps higher batch
   ids, and `ledger_agrees_with_the_data` reports a failure although nothing is wrong.
3. `reconcile_rounding`: with one key in 20001 left out the rounded coverage is 1.0 and a
   partial pass is called clean.
4. `capture_keys`: a decoded value is a string, so the record of line 2 of order 1 has the key
   `{"order_id":"1","line_no":"2"}`, partition 1 of 6, where the split measurement reads the two as
   numbers and hashes `{"order_id":1,"line_no":2}`, partition 2 (`topic_layout_probe.py:207-211`;
   `consumer_probe.py:101-102` hands on the same numbers). What is published of the spread of an
   order's lines is not where they land here.

Noticed while reading, without a run of their own:

- `drive` takes a `consumer` and asks the ledger for it, but never passes it to `apply_batch`, which
  writes under `"cdc"` (`recovery.py:166`). With another name every restart replays everything.
  `recovery_restart` runs under both names: the table comes out right either way.
- `run_workload` "returns what really happened" (`load/drive.py:57`), but the customers, orders and
  products inserted on behalf of another insert (`apply.py:96`, `113`) are in no count it returns.
- One marker alone costs more than `docs/limitations.md` says of `new-tuple:`, which cuts the text
  inside its quotes and so always raises: `old-key:` makes `parse_row` read the new row of
  an update as the old one, and `(no-tuple-data)` empties the image. Behind both the pipeline
  mostly stops with a KeyError. `TextsAreWholeOrMissing` says what is still true.
- Three markers together do hand on half a name. `docs/limitations.md` speaks of full updates, but an
  insert is parted as well (`decode.py:98`), and `(no-tuple-data)` keeps the half in front from being
  scanned (`decode.py:69`): the insert of the name `(no-tuple-data) old-key: new-tuple: full_name[text]:x`
  is read as one of `x'`, and nothing raises. This very text is in `Markers`, and `Separable` is what
  exempts it in `TextsAreWholeOrMissing`: without that conjunct TLC finds the property violated in
  the second state.
- `_read_value` says that a value cut short is never returned "looking like a whole one"
  (`decode.py:55-56`), and `tests/test_decode.py:149-156` tests a cut at one place. A line cut right before
  a quote does return one: nothing of `'Ann'` behind the field start, and `O` of `'O''Brien'` cut between
  its two quotes. The property lets exactly these pass, and only at such a cut (`Halves`), and
  `TextsAreReadWhole` proves that there are no others. A line cut inside an unquoted number cannot be told
  from a shorter number; texts alone are looked at.
- The docstring of `partition_for` (`topics.py:87-88`) says a mask and an absolute value "differ on
  one input"; they differ on every hash with the sign bit set, as tests/test_topics.py says itself.
- `disorder` counts inversions of positions. A tombstone shares its delete's position, so the two
  in the wrong order are no inversion, and neither are ties.
- The comment at `sql.py:162-165` says the in-memory consumer does not distinguish a stale
  tombstone; it does now (`consumer.py:94`).
- Replaying a batch is not byte-idempotent under a wide key with ties: `RecoveredIsClean` fails there.
- One table without a single key makes the whole report `no_coverage` (`reconcile.py:217`), although
  every other table is clean.
- An update that moves a primary key is emitted as one `u`, and the row of the old key stays.
  The load generator never does this and `Source` has no such step.
- `scripts/consumer_probe.py` uses `KEY_STRATEGIES` and `build_arms` (lines 105 and 110), which no file defines:
  the probe cannot run as it stands.
- `drive.py:59-62` reads a deflected operation on a seeded run as planner and database disagreeing
  about the starting state. The plan alone deflects, whenever it draws an update or a delete for
  an order table nothing has been planned into yet; seeding never fills those.

## Not modelled, and why

- `cdc/connector.py`: builds and checks a dictionary of settings; no state, no order.
- `parse_change` and `parse_stream`: the reader of Decode, for the names alone.
- `pgoutput_message_types`, `frame_split`, `split_cost`, `cdc/probe.py`: sums and ratios over counts.
- Slots: creating, peeking, consuming, their two positions and what they retain are the
  server's doing; the code here only asks.
- Narrow images other than the key columns of DEFAULT: `NarrowRows` stands for an identity by
  index, which `set_replica_identity` does not offer. Capture has the three it does.
- BEGIN and COMMIT lines, which `parse_row` answers with None; `topic_name`, as there is one topic.
- Nulls: no column of the schema admits one. `Bare` reads the word, no line prints it.
- `_inversions`, `disorder`, `partition_spread`, `key_reuse` as a
  statistic: numbers about a run.
- The Snowflake dialect: text that nothing runs.
- `records_in_batch` in the ledger, `fingerprint`'s hash: a record of the same fields stands for it.
- `warehouse/reproduce.py`, `scripts/reproduction_report.py` and the printing halves of the probes:
  markdown in, markdown out, beside the pipeline.

## Plan

In order of importance; what is done is marked.

1. Consumer core, its properties and theorems (done).
2. Warehouse, and Pipeline against the consumer (done).
3. Recovery, refining ExactlyOnce (done; every safety property and the step-wise refinement proved).
4. Reconcile over the pipeline (done, proved), Workload (done, proved).
5. The unreduced, versioned and hard-delete arms of the merge (done, proved).
6. Decoding as operators, composed into Capture (done, proved); topics, composed into Routing (done,
   model-checked).
7. Proofs: every safety property the passing runs check but `RoutedLikeTheJavaClient` (done). What is left is
   out of the provers' reach and named above: liveness, and arithmetic on bits.
