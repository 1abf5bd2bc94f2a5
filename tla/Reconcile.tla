------------------------------- MODULE Reconcile -------------------------------
(***************************************************************************)
(* The reconciliation of the source tables with the warehouse, a key at a  *)
(* time, at any moment of a run of the pipeline (warehouse/reconcile.py,   *)
(* and scripts/reconcile_probe.py, which holds part of the stream back and *)
(* breaks a row on purpose).                                               *)
(*                                                                         *)
(* A report is a function of what it reads, so it is no variable: the      *)
(* properties ask what it would say now.  Coverage is counted in           *)
(* ten-thousandths, as the code rounds it.                                 *)
(***************************************************************************)
EXTENDS Pipeline, FiniteSetsExt

CONSTANTS
  TableOf,  \* the table each row belongs to
  Weight    \* how many keys of its table a row stands for, all alike

ASSUME ReconcileAssumption ==
  /\ DOMAIN TableOf = Rows
  /\ Weight \in [Rows -> Nat \ {0}]

VARIABLE broken   \* history: rows whose stored image was changed behind the merge

reconcileVars == <<pipelineVars, broken>>

Tables == {TableOf[r] : r \in Rows}

ReconcileInit == PipelineInit /\ broken = {}

Load == PipelineNext /\ UNCHANGED broken

\* corrupt_one_excluded_row: a column of a live row is moved behind the merge.
Corrupt(r, v) ==
  /\ pc = "idle"
  /\ Live(db.target)[r] \notin {Absent, v}
  /\ db' = [db EXCEPT !.target[r].val = v]
  /\ broken' = broken \cup {r}
  /\ UNCHANGED <<vars, tx, pc, batch, number, buffer, size, delivery>>

ReconcileNext == Load \/ \E r \in Rows, v \in Values : Corrupt(r, v)

ReconcileSpec == ReconcileInit /\ [][ReconcileNext]_reconcileVars

-----------------------------------------------------------------------------
\* Everything produced and not committed to the warehouse yet.
HeldBack ==
  LET underWay == {buffer[i] : i \in DOMAIN buffer} \cup {batch[i] : i \in DOMAIN batch}
  IN  (Stream(log) \ delivered) \cup underWay

\* Mutant: a delete's key, in its before image, is not looked for.
KeysOfAfterImages(held) == {e.row : e \in {e \in held : ~e.tomb /\ e.op # "d"}} \ {Absent}

\* keys_in_flight: tombstones and images without the key name none.
KeysInFlight(held) == {e.row : e \in {e \in held : ~e.tomb}} \ {Absent}

Count(S) == MapThenSumSet(LAMBDA r : Weight[r], S)

\* A ratio rounded to four places, Absent over no keys at all.
Coverage(checked, keys) ==
  IF keys = 0 THEN Absent ELSE (20000 * checked + keys) \div (2 * keys)

\* Mutant: the first version's three verdicts.
VerdictOfThree(rep) ==
  IF rep.missing + rep.extra + rep.differing > 0 THEN "drift"
  ELSE IF rep.checked = 0 THEN "no_coverage" ELSE "clean"

\* Mutant: a row that differs is no drift.
VerdictBlindToDiffering(rep) ==
  IF rep.missing + rep.extra > 0 THEN "drift"
  ELSE IF rep.checked = 0 THEN "no_coverage"
  ELSE IF rep.coverage = 10000 THEN "clean" ELSE "clean_partial"

\* The verdict's tests, in the order the code makes them.
Verdict(rep) ==
  IF rep.missing + rep.extra + rep.differing > 0 THEN "drift"
  ELSE IF rep.checked = 0 THEN "no_coverage"
  ELSE IF rep.coverage = 10000 THEN "clean" ELSE "clean_partial"

\* reconcile(), of one table.  The primary key makes a duplicate impossible.
TableReport(t, source, applied, inFlight) ==
  LET Keyed == {r \in Rows : TableOf[r] = t /\ {source[r], applied[r]} # {Absent}}
      Checked == Keyed \ inFlight
      rep == [checked |-> Count(Checked),
              keys |-> Count(Keyed),
              excluded |-> Count(Keyed \cap inFlight),
              missing |-> Count({r \in Checked : applied[r] = Absent}),
              extra |-> Count({r \in Checked : source[r] = Absent}),
              differing |-> Count({r \in Checked :
                 Absent \notin {source[r], applied[r]} /\ source[r] # applied[r]}),
              coverage |-> Coverage(Count(Checked), Count(Keyed))]
  IN  [rep |-> rep, verdict |-> Verdict(rep)]

\* run(), on what is committed now.
Report ==
  [t \in Tables |-> TableReport(t, table, Live(db.target), KeysInFlight(HeldBack))]

\* The worst verdict any table holds.
Severity == <<"drift", "no_coverage", "clean_partial", "clean">>

Rollup(report) ==
  LET held == {i \in DOMAIN Severity : \E t \in Tables : report[t].verdict = Severity[i]}
  IN  Severity[Min(held)]

\* Mutant: the keys left out are counted twice.
RolledTwiceExcluded(report) ==
  Coverage(MapThenSumSet(LAMBDA t : report[t].rep.checked, Tables),
           MapThenSumSet(LAMBDA t : report[t].rep.keys + report[t].rep.excluded, Tables))

\* one_line's coverage: the sums divided, not the ratios averaged.
RolledCoverage(report) ==
  Coverage(MapThenSumSet(LAMBDA t : report[t].rep.checked, Tables),
           MapThenSumSet(LAMBDA t : report[t].rep.keys, Tables))

\* coverage_is_between_the_tables: tables without a key are left out.
CoverageIsBetween(report) ==
  LET each == {report[t].rep.coverage : t \in Tables} \ {Absent}
  IN  each # {} => RolledCoverage(report) \in Min(each)..Max(each)

-----------------------------------------------------------------------------
(* Properties.                                                              *)

\* Lag is never called drift: a report that leaves out the keys in flight says
\* drift only over a row somebody changed behind the merge.
DriftIsNotLag == Rollup(Report) = "drift" => broken # {}

\* The strongest verdict is worth believing: clean means the live rows are the
\* source's rows, all of them, whatever was still on its way.
CleanMeansEqual == Rollup(Report) = "clean" => Live(db.target) = table

\* With nothing held back the report is exact: drift just when the tables differ.
QuietReportIsExact ==
  HeldBack = {} => (Rollup(Report) = "drift" <=> Live(db.target) # table)

\* The two definitions of coverage stay related, rounding included.
CoveragesAgree == CoverageIsBetween(Report)

\* "A pass over part of the table is its own answer" (reconcile.py, verdict).
PartialPassIsNotClean ==
  Rollup(Report) = "clean" => \A t \in Tables : Report[t].rep.excluded = 0

=============================================================================
