------------------------------- MODULE Recovery -------------------------------
(***************************************************************************)
(* A consumer that dies and is started again (warehouse/recovery.py, and   *)
(* scripts/chaos_probe.py, which drives it): the six partitions are        *)
(* drained into one order, the order is cut into batches, and drive()      *)
(* applies them until it ends or the process dies.  A restart asks the     *)
(* ledger, or an offset kept beside it, where to go on, over the same      *)
(* batches or over those of a second drain.                                *)
(***************************************************************************)
EXTENDS Warehouse, Source, SequencesExt

CONSTANTS
  MaxBatch,    \* the largest batch size tried
  MaxCrashes,  \* how often the process dies
  Strategies,  \* the ways of resuming this instance tries
  Redrains,    \* whether a restart may drain and batch again
  DriveAs      \* the names drive() and the restart may be given

\* "ledger" and "replay_all" are STRATEGIES; the other two trust a
\* SeparateOffsetStore, by its commit_before.
AllStrategies == {"ledger", "replay_all", "offset_after", "offset_before"}

ASSUME RecoveryAssumption ==
  /\ MaxBatch \in Nat \ {0}
  /\ MaxCrashes \in Nat
  /\ Strategies \subseteq AllStrategies
  /\ Redrains \in BOOLEAN
  /\ DriveAs \subseteq Consumers
  /\ ~MergeByRecordKey

VARIABLES
  order,     \* the records drained so far, in the order they came
  cut,       \* that order in batches, <<>> until the drain is over
  at,        \* the next batch of drive()'s loop
  strategy,  \* how a restart finds its first batch
  consumer,  \* the name a restart asks the ledger under
  offset,    \* SeparateOffsetStore.committed
  crashes,   \* deaths so far
  before,    \* history: the batches of the run that died, if they changed since
  resumed,   \* history: the first batch of the run going on
  landed     \* history: the records of every batch committed

driveVars == <<cut, at, strategy, consumer, offset, crashes, before, resumed, landed>>
recoveryVars == <<sourceVars, warehouseVars, order, driveVars>>

\* Only a restart that asks the ledger asks it under a name.
RecoveryInit ==
  /\ SourceInit
  /\ WarehouseInit
  /\ order = <<>> /\ cut = <<>> /\ before = <<>>
  /\ at = 1 /\ resumed = 1
  /\ strategy \in Strategies
  /\ consumer \in IF strategy = "ledger" THEN DriveAs ELSE {Ledger}
  /\ offset = 0 /\ crashes = 0
  /\ landed = {}

resume_point(name) == LastBatch(name)

first_batch_to_apply(last, how) == IF how = "replay_all" THEN 1 ELSE last + 1

\* What the restarted consumer trusts, and so where it goes on.
StartAt ==
  IF strategy \in {"offset_after", "offset_before"}
  THEN offset + 1
  ELSE first_batch_to_apply(resume_point(consumer), strategy)

-----------------------------------------------------------------------------
\* The workload ends before the first drain begins.
Commits ==
  /\ order = <<>> /\ cut = <<>> /\ crashes = 0
  /\ SourceNext
  /\ UNCHANGED <<warehouseVars, order, driveVars>>

Drain ==
  /\ cut = <<>> /\ pc = "idle"
  /\ \E e \in Stream(log) \ ToSet(order) :
       /\ InPartitionOrder(e, log, ToSet(order))
       /\ order' = Append(order, e)
  /\ UNCHANGED <<sourceVars, warehouseVars, driveVars>>

\* merge.batches, then drive(): the loop passes over the batches before its start.
CutAndDrive ==
  /\ cut = <<>> /\ order # <<>> /\ Stream(log) = ToSet(order)
  /\ \E size \in 1..MaxBatch : cut' = Batches(order, size)
  /\ at' = StartAt
  /\ resumed' = StartAt
  /\ UNCHANGED <<sourceVars, warehouseVars, order, strategy, consumer, offset, crashes, before, landed>>

\* An offset written after the merge is a statement of its own.
OffsetBehind == strategy = "offset_after" /\ cut # <<>> /\ offset # at - 1

\* Mutant: the loop ends one batch early.
StartAllButLast ==
  /\ at < Len(cut) /\ ~OffsetBehind
  /\ Stage(cut[at], at)
  /\ offset' = IF strategy = "offset_before" THEN at ELSE offset
  /\ UNCHANGED <<sourceVars, order, cut, at, strategy, consumer, crashes, before, resumed, landed>>

\* Mutant: the offset is written before the merge whatever commit_before says.
StartCommitsOffset ==
  /\ at <= Len(cut) /\ ~OffsetBehind
  /\ Stage(cut[at], at)
  /\ offset' = at
  /\ UNCHANGED <<sourceVars, order, cut, at, strategy, consumer, crashes, before, resumed, landed>>

\* The top of drive()'s loop: an offset written before the merge is written here.
StartBatch ==
  /\ at <= Len(cut) /\ ~OffsetBehind
  /\ Stage(cut[at], at)
  /\ offset' = IF strategy = "offset_before" THEN at ELSE offset
  /\ UNCHANGED <<sourceVars, order, cut, at, strategy, consumer, crashes, before, resumed, landed>>

RunStatement ==
  /\ Statement
  /\ UNCHANGED <<sourceVars, order, driveVars>>

FinishBatch ==
  /\ RecordAndCommit
  /\ landed' = landed \cup ToSet(batch)
  /\ at' = at + 1
  /\ UNCHANGED <<sourceVars, order, cut, strategy, consumer, offset, crashes, before, resumed>>

CommitOffset ==
  /\ pc = "idle" /\ OffsetBehind
  /\ offset' = at - 1
  /\ UNCHANGED <<sourceVars, warehouseVars, order, cut, at, strategy, consumer, crashes, before, resumed, landed>>

\* Between two batches no transaction is open: nothing is rolled back.
DieBetweenBatches ==
  /\ pc = "idle" /\ cut # <<>>
  /\ pc' = "down"
  /\ UNCHANGED <<db, tx, batch, number>>

CrashNow ==
  /\ crashes < MaxCrashes
  /\ Die \/ DieBetweenBatches
  /\ crashes' = crashes + 1
  /\ UNCHANGED <<sourceVars, order, cut, at, strategy, consumer, offset, before, resumed, landed>>

\* A restart drives the same batches again, from where it is told to.
Resume ==
  /\ pc = "down"
  /\ pc' = "idle"
  /\ at' = StartAt
  /\ resumed' = StartAt
  /\ UNCHANGED <<sourceVars, db, tx, batch, number, order, cut, strategy, consumer, offset, crashes, before, landed>>

\* A restart drains the partitions again and cuts what comes.
Redrain ==
  /\ Redrains /\ pc = "down"
  /\ pc' = "idle"
  /\ before' = cut
  /\ cut' = <<>> /\ order' = <<>>
  /\ UNCHANGED <<sourceVars, db, tx, batch, number, at, strategy, consumer, offset, crashes, resumed, landed>>

-----------------------------------------------------------------------------
Drive == StartBatch \/ RunStatement \/ FinishBatch \/ CommitOffset

RecoveryNext == Commits \/ Drain \/ CutAndDrive \/ Drive \/ CrashNow \/ Resume \/ Redrain

\* The probe always starts the dead consumer again, and a started one runs.
RecoverySpec ==
  /\ RecoveryInit /\ [][RecoveryNext]_recoveryVars
  /\ WF_recoveryVars(Drain \/ CutAndDrive) /\ WF_recoveryVars(Drive)
  /\ WF_recoveryVars(Resume \/ Redrain)

-----------------------------------------------------------------------------
(* Properties.                                                              *)

RecoveryTypeOK ==
  /\ SourceTypeOK /\ WarehouseTypeOK
  /\ order \in Seq(Records)
  /\ cut \in Seq(Seq(Records)) /\ before \in Seq(Seq(Records))
  /\ at \in Nat \ {0} /\ resumed \in Nat \ {0}
  /\ strategy \in Strategies /\ consumer \in DriveAs \cup {Ledger}
  /\ offset \in Nat /\ crashes \in 0..MaxCrashes
  /\ landed \subseteq Stream(log)

Finished == cut # <<>> /\ at > Len(cut) /\ pc = "idle" /\ ~OffsetBehind

SameBatches == cut # <<>> /\ before = <<>>

\* The ledger is a checkpoint: at every instant, whatever died, the committed
\* table is the one a run without a death has after the batch the ledger names.
LedgerIsACheckpoint ==
  strategy = "ledger" /\ SameBatches =>
    db.target = CleanRun(cut, Guard, OnTombstone)[resume_point(consumer)]

\* Over the same batches a recovered table is byte for byte the clean run's,
\* batch column and all: replaying a batch changes nothing.
RecoveredIsClean ==
  Finished /\ SameBatches /\ strategy # "offset_before" =>
    db.target = CleanRun(cut, Guard, OnTombstone)[Len(cut)]

\* The same batches applied once each, and all of them in the end.
Promise == INSTANCE ExactlyOnce WITH
  batches <- cut, store <- db.target, applied <- db.ledger[Ledger]

AppliesEachBatchOnce == Promise!Spec

\* However often the process dies, every batch is applied in the end, the short
\* last one too: the warehouse comes to show the source table and stays so.
EventuallyInTheWarehouse == <>[](Live(db.target) = table)

\* resume_gap, of batchings b and a, resumed at n.
Held(batches) == UNION {ToSet(batches[i]) : i \in DOMAIN batches}
\* Mutant: the batch in flight is counted as applied.
AppliedWithCrashed(b, n) == UNION {ToSet(b[i]) : i \in {i \in DOMAIN b : i <= n}}

AppliedBefore(b, n) == UNION {ToSet(b[i]) : i \in {i \in DOMAIN b : i < n}}
Replayed(a, n) == UNION {ToSet(a[i]) : i \in {i \in DOMAIN a : i >= n}}

Dropped(b, a, n) == Held(a) \ (AppliedBefore(b, n) \cup Replayed(a, n))
AppliedTwice(b, a, n) == AppliedBefore(b, n) \cap Replayed(a, n)

\* Mutant: the replayed suffix is taken from the batches of the run before.
SizesOfOneBatching(b, a, n) ==
  Cardinality(AppliedBefore(b, n)) + Cardinality(Replayed(b, n)) = Cardinality(Held(a))

PrefixSizesAgree(b, a, n) ==
  Cardinality(AppliedBefore(b, n)) + Cardinality(Replayed(a, n)) = Cardinality(Held(a))

\* resume_gap_is_two_numbers: what is dropped and what is applied twice are one
\* number just when the prefix and the suffix add up to the stream.
OneNumber(b, a, n) ==
  Cardinality(Dropped(b, a, n)) = Cardinality(AppliedTwice(b, a, n))

\* Whatever two drains came to and wherever a run resumes, the sizes alone decide
\* whether a report of both counts reports one number twice.
SizesDecideTwoNumbers ==
  before # <<>> /\ cut # <<>> =>
    \A n \in 1..Len(before) + 1 : OneNumber(before, cut, n) <=> PrefixSizesAgree(before, cut, n)

Lost == Stream(log) \ landed

\* A batch number is not an offset.  When the batching moved under it, what never
\* lands is what resume_gap says is dropped, neither more nor less.
GapIsWhatNeverLands ==
  Finished /\ before # <<>> /\ crashes = 1 /\ strategy \in {"ledger", "replay_all"} =>
    Lost = Dropped(before, cut, resumed)

\* fingerprint(include_batch=False): the table without its batch column.
Fingerprint(target) ==
  [r \in Rows |-> IF target[r] = Absent THEN Absent ELSE [target[r] EXCEPT !.batch = 0]]

\* The run that did not die, over the batches of the first drain.
FirstCut == IF before = <<>> THEN cut ELSE before
Clean == Fingerprint(CleanRun(FirstCut, Guard, OnTombstone)[Len(FirstCut)])

\* A record lost hurts the rows of its own key at most: the others end up as the
\* clean run left them, although records of theirs were applied twice.
OnlyLostKeysAreWrong ==
  Finished /\ crashes <= 1 =>
    \A r \in Rows :
      Fingerprint(db.target)[r] # Clean[r] => \E e \in Lost : e.key = KeyOf[r]

\* An offset written before its merge loses the batches in flight at a death, one
\* batch for each, and one written after it none.
OffsetBeforeLosesTheBatchInFlight ==
  Finished /\ SameBatches =>
    /\ strategy = "offset_after" => Lost = {}
    /\ strategy = "offset_before" =>
         \E S \in SUBSET DOMAIN cut :
           /\ Cardinality(S) <= crashes
           /\ Lost = UNION {ToSet(cut[i]) : i \in S}

\* ledger_agrees_with_the_data: the highest batch of any row against the ledger's.
DataAheadOfTheLedger ==
  \E r \in Rows : db.target[r] # Absent /\ db.target[r].batch > resume_point(consumer)

\* "no row may carry a batch id the ledger has never reached" (recovery.py,
\* ledger_agrees_with_the_data): the check stays quiet.
DataNotAheadOfTheLedger == ~DataAheadOfTheLedger

=============================================================================
