---------------------------- MODULE ReconcileProofs ----------------------------
(***************************************************************************)
(* What a reconciliation report is worth, for every source, every moment of*)
(* a run and every part of the stream still on its way.                    *)
(*                                                                         *)
(* The argument: a row none of whose changes is on its way shows the last  *)
(* of them, and that is the source's row (QuietRow); so a report that      *)
(* leaves the keys in flight out finds a difference only in a row somebody *)
(* changed behind the merge.  What clean and coverage mean is arithmetic on*)
(* the counts, sums over finite sets (SourceProofs).                       *)
(***************************************************************************)
EXTENDS Reconcile, PipelineProofs, FiniteSetTheorems

-----------------------------------------------------------------------------
(* Counting keys.                                                           *)

\* Count, as the community modules compute it, is such a sum.
LEMMA CountUnfolds ==
  ASSUME NEW S
  PROVE  Count(S) = (CHOOSE f : SumsUp(f, Weight, S))[S]
BY DEF Count, MapThenSumSet, MapThenFoldSet, SumsUp, Pick

\* The keys of a set of rows, one row at a time.
LEMMA Counting ==
  ASSUME IsFiniteSet(Rows)
  PROVE  /\ Count({}) = 0
         /\ \A S \in SUBSET Rows :
              Count(S) \in Nat /\ \A x \in S : Count(S) = Weight[x] + Count(S \ {x})
<1>1. PICK f : SumsUp(f, Weight, Rows)
  BY SumExists
<1>2. ASSUME NEW S \in SUBSET Rows PROVE Count(S) = f[S]
  <2> DEFINE g == CHOOSE g : SumsUp(g, Weight, S)
  <2>1. SumsUp(g, Weight, S)
    BY SumExists, FS_Subset
  <2>2. Count(S) = g[S]
    BY CountUnfolds
  <2> HIDE DEF g
  <2> QED BY <1>1, <2>1, <2>2, SumsAgree
<1>3. \A x \in Rows : Weight[x] \in Nat
  BY ReconcileAssumption
<1>4. /\ f[{}] = 0
      /\ \A s \in SUBSET Rows : f[s] \in Nat /\ \A x \in s : f[s] = Weight[x] + f[s \ {x}]
  BY <1>1, <1>3, SumTakesAny
<1> QED BY <1>2, <1>4

\* Only no rows are no keys.
LEMMA CountPositive ==
  ASSUME IsFiniteSet(Rows), NEW S \in SUBSET Rows
  PROVE  Count(S) \in Nat /\ (Count(S) = 0 <=> S = {})
<1>1. Count({}) = 0 /\ Count(S) \in Nat
  BY Counting
<1>2. ASSUME NEW x \in S PROVE Count(S) > 0
  <2>1. Count(S) = Weight[x] + Count(S \ {x}) /\ Count(S \ {x}) \in Nat
    BY Counting
  <2>2. Weight[x] \in Nat \ {0}
    BY ReconcileAssumption
  <2> QED BY <2>1, <2>2
<1> QED BY <1>1, <1>2

\* Counting a set in two parts.
LEMMA CountSplits ==
  ASSUME IsFiniteSet(Rows), NEW T, NEW S \in SUBSET Rows
  PROVE  Count(S) = Count(S \ T) + Count(S \cap T)
<1> DEFINE B == {s \in SUBSET Rows : Count(s) # Count(s \ T) + Count(s \cap T)}
<1> SUFFICES ASSUME B # {} PROVE FALSE
  OBVIOUS
<1>1. PICK s \in B : \A t \in SUBSET s : t # s => t \notin B
  BY MinimalSet
<1>2. s \in SUBSET Rows /\ Count(s) # Count(s \ T) + Count(s \cap T)
  BY <1>1
<1>3. s # {}
  <2>1. {} \ T = {} /\ {} \cap T = {}
    OBVIOUS
  <2> QED BY <1>2, <2>1, Counting
<1>4. PICK x \in s : TRUE
  BY <1>3
<1> DEFINE u == s \ {x}
<1>5. u \in SUBSET Rows /\ Count(u) = Count(u \ T) + Count(u \cap T)
  BY <1>1, <1>2, <1>4
<1>6. Count(s) = Weight[x] + Count(u) /\ Weight[x] \in Nat
  BY <1>2, <1>4, Counting, ReconcileAssumption
<1>7. /\ s \ T \in SUBSET Rows /\ s \cap T \in SUBSET Rows
      /\ Count(u \ T) \in Nat /\ Count(u \cap T) \in Nat
  BY <1>2, <1>5, Counting
<1>8. CASE x \in T
  <2>1. s \ T = u \ T /\ (s \cap T) \ {x} = u \cap T /\ x \in s \cap T
    BY <1>4, <1>8
  <2>2. Count(s \cap T) = Weight[x] + Count((s \cap T) \ {x})
    BY <1>7, <2>1, Counting
  <2>3. Count(s \cap T) = Weight[x] + Count(u \cap T) /\ Count(s \ T) = Count(u \ T)
    BY <2>1, <2>2
  <2> HIDE DEF B, u
  <2> QED BY <1>2, <1>5, <1>6, <1>7, <2>3
<1>9. CASE x \notin T
  <2>1. s \cap T = u \cap T /\ (s \ T) \ {x} = u \ T /\ x \in s \ T
    BY <1>4, <1>9
  <2>2. Count(s \ T) = Weight[x] + Count((s \ T) \ {x})
    BY <1>7, <2>1, Counting
  <2>3. Count(s \ T) = Weight[x] + Count(u \ T) /\ Count(s \cap T) = Count(u \cap T)
    BY <2>1, <2>2
  <2> HIDE DEF B, u
  <2> QED BY <1>2, <1>5, <1>6, <1>7, <2>3
<1> QED BY <1>8, <1>9

\* Division, rounded down.
LEMMA Quotient ==
  ASSUME NEW a \in Nat, NEW b \in Nat \ {0}
  PROVE  /\ a \div b \in Nat
         /\ b * (a \div b) <= a /\ a < b * (a \div b) + b
OBVIOUS

\* Below 20000 keys only a whole pass rounds to a coverage of 1.
LEMMA WholeCoverage ==
  ASSUME NEW c \in Nat, NEW k \in Nat, c <= k, k < 20000, Coverage(c, k) = 10000,
         Absent \notin Nat
  PROVE  c = k /\ k # 0
<1>1. k # 0
  BY DEF Coverage
<1>2. 20000 * c + k \in Nat /\ 2 * k \in Nat \ {0}
  BY <1>1
<1>3. (2 * k) * 10000 <= 20000 * c + k
  BY <1>1, <1>2, Quotient DEF Coverage
<1> QED BY <1>1, <1>3

-----------------------------------------------------------------------------
(* One table's report, and the worst of them.                               *)

\* What verdict can return.
Verdicts == {"drift", "no_coverage", "clean_partial", "clean"}

\* The rows of a table that hold a key on either side.
KeyedRows(t, source, applied) ==
  {r \in Rows : TableOf[r] = t /\ {source[r], applied[r]} # {Absent}}

\* What a report counts of a table's keys.
LEMMA ReportCounts ==
  ASSUME NEW t, NEW source, NEW applied, NEW F,
         NEW rep, rep = TableReport(t, source, applied, F).rep
  PROVE  /\ rep.keys = Count(KeyedRows(t, source, applied))
         /\ rep.checked = Count(KeyedRows(t, source, applied) \ F)
         /\ rep.excluded = Count(KeyedRows(t, source, applied) \cap F)
         /\ rep.coverage = Coverage(rep.checked, rep.keys)
BY DEF TableReport, KeyedRows

\* What makes a verdict drift, and what it takes to be clean.
LEMMA ReportVerdict ==
  ASSUME IsFiniteSet(Rows), NEW t, NEW source, NEW applied, NEW F,
         NEW report, report = TableReport(t, source, applied, F)
  PROVE  /\ report.verdict \in Verdicts
         /\ report.verdict = "drift" <=>
              \E r \in Rows : TableOf[r] = t /\ r \notin F /\ source[r] # applied[r]
         /\ report.verdict = "clean" => report.rep.coverage = 10000
<1> DEFINE rep == report.rep
<1> DEFINE Checked == KeyedRows(t, source, applied) \ F
<1> DEFINE Missing == {r \in Checked : applied[r] = Absent}
<1> DEFINE Extra == {r \in Checked : source[r] = Absent}
<1> DEFINE Differing ==
      {r \in Checked : Absent \notin {source[r], applied[r]} /\ source[r] # applied[r]}
<1>1. /\ rep.missing = Count(Missing) /\ rep.extra = Count(Extra)
      /\ rep.differing = Count(Differing) /\ report.verdict = Verdict(rep)
  BY DEF TableReport, KeyedRows
<1>2. Missing \in SUBSET Rows /\ Extra \in SUBSET Rows /\ Differing \in SUBSET Rows
  BY DEF KeyedRows
<1>3. Missing \cup Extra \cup Differing =
        {r \in Rows : TableOf[r] = t /\ r \notin F /\ source[r] # applied[r]}
  BY DEF KeyedRows
<1> HIDE DEF rep, Missing, Extra, Differing
<1>4. /\ rep.missing \in Nat /\ rep.extra \in Nat /\ rep.differing \in Nat
      /\ rep.missing = 0 <=> Missing = {}
      /\ rep.extra = 0 <=> Extra = {}
      /\ rep.differing = 0 <=> Differing = {}
  BY <1>1, <1>2, CountPositive
<1>5. report.verdict \in Verdicts
  BY <1>1 DEF Verdict, Verdicts
<1>6. report.verdict = "drift" <=> rep.missing + rep.extra + rep.differing > 0
  BY <1>1 DEF Verdict
<1>7. report.verdict = "drift" <=> Missing \cup Extra \cup Differing # {}
  BY <1>4, <1>6
<1>8. report.verdict = "clean" => rep.coverage = 10000
  BY <1>1 DEF Verdict
<1> QED BY <1>3, <1>5, <1>7, <1>8 DEF rep

\* The rollup is drift when some table's verdict is, clean when all of them are.
LEMMA RollupFacts ==
  ASSUME NEW report, Rows # {}, \A t \in Tables : report[t].verdict \in Verdicts
  PROVE  /\ Rollup(report) = "drift" <=> \E t \in Tables : report[t].verdict = "drift"
         /\ Rollup(report) = "clean" => \A t \in Tables : report[t].verdict = "clean"
<1> DEFINE held == {i \in DOMAIN Severity : \E t \in Tables : report[t].verdict = Severity[i]}
<1>1. /\ DOMAIN Severity = {1, 2, 3, 4}
      /\ Severity[1] = "drift" /\ Severity[2] = "no_coverage"
      /\ Severity[3] = "clean_partial" /\ Severity[4] = "clean"
  BY DEF Severity
<1>2. Rollup(report) = Severity[Min(held)]
  BY DEF Rollup
<1>3. Tables # {}
  BY DEF Tables
<1>4. held # {} /\ held \in SUBSET Nat
  BY <1>1, <1>3 DEF Verdicts
<1>5. Min(held) \in held /\ \A i \in held : Min(held) <= i
  <2> HIDE DEF held
  <2>1. \E m \in held : \A k \in held : m =< k
    BY <1>4, LeastOf
  <2> QED BY <2>1 DEF Min
<1>6. \A i \in {1, 2, 3, 4} : i \in held <=> \E t \in Tables : report[t].verdict = Severity[i]
  BY <1>1
<1>7. held \subseteq {1, 2, 3, 4}
  BY <1>1
<1> HIDE DEF held
<1>8. Rollup(report) = "drift" <=> Min(held) = 1
  BY <1>1, <1>2, <1>5, <1>7
<1>9. Rollup(report) = "clean" <=> Min(held) = 4
  BY <1>1, <1>2, <1>5, <1>7
<1>10. Min(held) = 1 <=> 1 \in held
  <2>1. Min(held) \in {1, 2, 3, 4}
    BY <1>5, <1>7
  <2>2. 1 \in held => Min(held) <= 1
    BY <1>5
  <2> QED BY <1>5, <2>1, <2>2
<1>11. Min(held) = 4 => 1 \notin held /\ 2 \notin held /\ 3 \notin held
  BY <1>5
<1> QED BY <1>1, <1>6, <1>8, <1>9, <1>10, <1>11 DEF Verdicts


-----------------------------------------------------------------------------
(* The inductive invariant.                                                 *)

\* Until somebody changes a row behind the merge the warehouse is the pipeline's.
ReconcileInv ==
  /\ PipelineBase
  /\ broken = {} => PipelineInv

\* A row changed behind the merge is still a row, and no transaction saw it.
LEMMA CorruptBase ==
  ASSUME PipelineBase, NEW r \in Rows, NEW v \in Values, Corrupt(r, v)
  PROVE  PipelineBase' /\ broken' # {}
<1> DEFINE row == [db.target[r] EXCEPT !.val = v]
<1>1. /\ WarehouseInv /\ Base /\ db \in Databases /\ db.target \in Targets
      /\ pc = "idle" /\ pc' = pc /\ tx' = tx /\ batch' = batch /\ number' = number
      /\ buffer' = buffer /\ size' = size /\ delivery' = delivery /\ UNCHANGED vars
      /\ db' = [db EXCEPT !.target[r].val = v]
  BY DEF PipelineBase, WarehouseInv, WarehouseTypeOK, Databases, Corrupt, vars
<1>2. db.target[r] \in StoredRows
  BY <1>1 DEF Corrupt, Live, Targets
<1>3. row \in StoredRows
  BY <1>2 DEF StoredRows
<1>4. db' = [db EXCEPT !.target = [db.target EXCEPT ![r] = row]]
  BY <1>1
<1> HIDE DEF row
<1>5. [db.target EXCEPT ![r] = row] \in Targets
  BY <1>1, <1>3 DEF Targets
<1>6. db' \in Databases
  BY <1>1, <1>4, <1>5 DEF Databases
<1>7. WarehouseTypeOK'
  BY <1>1, <1>6 DEF WarehouseInv, WarehouseTypeOK
<1>8. TxInv'
  BY <1>1 DEF WarehouseInv, TxInv
<1>9. Base'
  BY <1>1, Stutter
<1>10. pending' = pending /\ InBatch(pending)' = InBatch(pending) /\ delivered' = delivered
  BY <1>1 DEF pending, InBatch, vars
<1>11. broken' # {}
  BY DEF Corrupt
<1> QED BY <1>1, <1>7, <1>8, <1>9, <1>10, <1>11 DEF PipelineBase, WarehouseInv

\* Nothing a run or a corruption does takes a table out of its type.
LEMMA ReconcileBaseStep ==
  PipelineBase /\ [ReconcileNext]_reconcileVars => PipelineBase'
<1> SUFFICES ASSUME PipelineBase, [ReconcileNext]_reconcileVars PROVE PipelineBase'
  OBVIOUS
<1>1. CASE Load \/ UNCHANGED reconcileVars
  BY <1>1, PipelineBaseStep DEF Load, reconcileVars
<1>2. CASE \E r \in Rows, v \in Values : Corrupt(r, v)
  BY <1>2, CorruptBase
<1> QED BY <1>1, <1>2 DEF ReconcileNext

\* The invariant is inductive.
LEMMA ReconcileInvStep ==
  MergeIsEnough /\ ReconcileInv /\ [ReconcileNext]_reconcileVars => ReconcileInv'
<1> SUFFICES ASSUME MergeIsEnough, ReconcileInv, [ReconcileNext]_reconcileVars
             PROVE  ReconcileInv'
  OBVIOUS
<1>1. PipelineBase'
  BY ReconcileBaseStep DEF ReconcileInv
<1>2. CASE Load \/ UNCHANGED reconcileVars
  <2>1. [PipelineNext]_pipelineVars /\ broken' = broken
    BY <1>2 DEF Load, reconcileVars
  <2> QED BY <1>1, <2>1, PipelineInvStep DEF ReconcileInv
<1>3. CASE \E r \in Rows, v \in Values : Corrupt(r, v)
  <2>1. broken' # {}
    BY <1>3 DEF Corrupt
  <2> QED BY <1>1, <2>1 DEF ReconcileInv
<1> QED BY <1>2, <1>3 DEF ReconcileNext

\* A row none of whose changes is on its way is the source's row.
LEMMA QuietRow ==
  ASSUME MergeIsEnough, PipelineInv, NEW r \in Rows,
         \A e \in Stream(log) : ~e.tomb /\ e.row = r => e \in Handed
  PROVE  Live(db.target)[r] = table[r]
<1>1. /\ SourceTypeOK /\ LogOrdered /\ DeletesAreEmpty /\ TableIsLastChange
      /\ Handed \subseteq Stream(log) /\ Shows(db.target[r], Handed, r) /\ NarrowRows = {}
      /\ ~Ties
  BY DEF PipelineInv, PipelineBase, Base, TypeOK, LogInv, TableShows, Handed, MergeIsEnough
<1>2. ASSUME NEW e \in ChangesFor(r, Handed)
      PROVE  /\ e.at \in ChangesTo(r) /\ e = ChangeRecord(e.at, log[e.at])
             /\ e.lsn = log[e.at].lsn
  BY <1>1, <1>2, ChangeOfRecord DEF ChangesFor, ChangesTo
<1>3. Live(db.target)[r] =
        IF db.target[r] = Absent \/ db.target[r].deleted THEN Absent ELSE db.target[r].val
  BY DEF Live
<1>4. CASE ChangesTo(r) = {} /\ table[r] = Absent
  <2>1. ChangesFor(r, Handed) = {}
    BY <1>2, <1>4
  <2> QED BY <1>1, <1>3, <1>4, <2>1 DEF Shows
<1>5. ASSUME NEW i \in ChangesTo(r), IsLast(i, ChangesTo(r)), table[r] = log[i].val
      PROVE  Live(db.target)[r] = table[r]
  <2> DEFINE c == ChangeRecord(i, log[i])
  <2>1. /\ i \in DOMAIN log /\ i \in Nat /\ log[i].row = r /\ log[i] \in Changes
        /\ log[i].lsn \in Nat
    <3>1. i \in DOMAIN log /\ i \in Nat /\ log[i].row = r /\ log[i] \in Changes
      BY <1>1 DEF ChangesTo, SourceTypeOK
    <3> QED BY <3>1 DEF Changes
  <2>2. /\ c \in Stream(log) /\ ~c.tomb /\ c.row = r /\ c.lsn = log[i].lsn /\ c.val = log[i].val
        /\ c.op = log[i].op /\ c.key = KeyOf[r]
    BY <1>1, <2>1, StreamElements, RecordFields DEF ImageRow
  <2> HIDE DEF c
  <2>3. c \in ChangesFor(r, Handed)
    BY <2>2 DEF ChangesFor
  <2>4. PICK e \in ChangesFor(r, Handed) :
          /\ db.target[r] # Absent
          /\ \A f \in ChangesFor(r, Handed) : f.lsn <= e.lsn
          /\ db.target[r].val = e.val
          /\ e.op = "d" => db.target[r].deleted
          /\ db.target[r].deleted =>
               \/ e.op = "d"
               \/ \E t \in Handed : t.tomb /\ t.key = e.key /\ e.lsn <= t.lsn
    BY <1>1, <2>3 DEF Shows
  <2>5. e = c
    <3>1. /\ e.at \in ChangesTo(r) /\ e = ChangeRecord(e.at, log[e.at])
          /\ e.lsn = log[e.at].lsn /\ c.lsn <= e.lsn
      BY <1>2, <2>3, <2>4
    <3>2. e.at \in DOMAIN log /\ e.at \in Nat /\ log[e.at].lsn \in Nat /\ e.at <= i
      <4>1. e.at \in DOMAIN log /\ e.at \in Nat /\ log[e.at] \in Changes
        BY <1>1, <3>1 DEF ChangesTo, SourceTypeOK
      <4>2. log[e.at].lsn \in Nat
        BY <4>1 DEF Changes
      <4> QED BY <1>5, <3>1, <4>1, <4>2 DEF IsLast
    <3>3. ~(e.at < i)
      BY <1>1, <2>1, <2>2, <3>1, <3>2 DEF LogOrdered
    <3>4. e.at = i
      BY <2>1, <3>2, <3>3
    <3> QED BY <3>1, <3>4 DEF c
  <2>6. CASE log[i].op = "d"
    BY <1>1, <1>3, <1>5, <2>1, <2>2, <2>4, <2>5, <2>6 DEF DeletesAreEmpty
  <2>7. CASE log[i].op # "d"
    <3>1. ASSUME NEW t \in Handed, t.tomb, t.key = KeyOf[r], log[i].lsn <= t.lsn PROVE FALSE
      <4>1. /\ t.at \in DOMAIN log /\ log[t.at].op = "d" /\ t.key = KeyOf[log[t.at].row]
            /\ t.lsn = log[t.at].lsn /\ t.lsn \in Nat
        BY <1>1, <3>1, DeleteOfTombstone
      <4>2. log[t.at].row \in Rows /\ t.at \in Nat
        <5>1. log[t.at] \in Changes /\ t.at \in Nat
          BY <1>1, <4>1 DEF SourceTypeOK
        <5> QED BY <5>1 DEF Changes
      <4>3. log[t.at].row = r
        BY <3>1, <4>1, <4>2 DEF MergeIsEnough, OneSlotPerKey, SlotOf
      <4>4. t.at <= i /\ t.at # i
        BY <1>5, <2>7, <4>1, <4>3 DEF IsLast, ChangesTo
      <4>5. log[t.at].lsn < log[i].lsn
        BY <1>1, <2>1, <4>1, <4>2, <4>4 DEF LogOrdered
      <4> QED BY <2>1, <3>1, <4>1, <4>5
    <3>2. ~db.target[r].deleted
      BY <2>2, <2>4, <2>5, <2>7, <3>1
    <3> QED BY <1>3, <1>5, <2>2, <2>4, <2>5, <3>2
  <2> QED BY <2>6, <2>7
<1> QED BY <1>1, <1>4, <1>5 DEF TableIsLastChange

-----------------------------------------------------------------------------
(* What a report is worth.                                                  *)

\* There is a table with a key to reconcile, and there are finitely many keys.
SomeKeys == Rows # {} /\ IsFiniteSet(Rows)

\* Every table holds fewer keys than the rounding of a coverage can hide one of.
SmallTables == \A t \in Tables : Count({r \in Rows : TableOf[r] = t}) < 20000

\* What the worst verdict of a report says of the rows.
LEMMA ReportVerdicts ==
  ASSUME SomeKeys
  PROVE  /\ Rollup(Report) = "drift" <=>
              \E r \in Rows : r \notin KeysInFlight(HeldBack) /\ table[r] # Live(db.target)[r]
         /\ Rollup(Report) = "clean" => \A t \in Tables : Report[t].verdict = "clean"
<1> DEFINE F == KeysInFlight(HeldBack)
<1>1. \A t \in Tables : Report[t] = TableReport(t, table, Live(db.target), F)
  BY DEF Report
<1> HIDE DEF F
<1>2. ASSUME NEW t \in Tables
      PROVE  /\ Report[t].verdict \in Verdicts
             /\ Report[t].verdict = "drift" <=>
                  \E r \in Rows : TableOf[r] = t /\ r \notin F /\ table[r] # Live(db.target)[r]
  BY <1>1, ReportVerdict DEF SomeKeys
<1>3. \A r \in Rows : TableOf[r] \in Tables
  BY DEF Tables
<1>4. /\ Rollup(Report) = "drift" <=> \E t \in Tables : Report[t].verdict = "drift"
      /\ Rollup(Report) = "clean" => \A t \in Tables : Report[t].verdict = "clean"
  BY <1>2, RollupFacts DEF SomeKeys
<1> QED BY <1>2, <1>3, <1>4 DEF F

\* A clean table has been looked at, whole.
LEMMA CleanIsWhole ==
  ASSUME SomeKeys, SmallTables, Absent \notin Nat, NEW t \in Tables,
         Report[t].verdict = "clean"
  PROVE  /\ Report[t].rep.excluded = 0
         /\ \A r \in Rows : TableOf[r] = t => table[r] = Live(db.target)[r]
<1> DEFINE F == KeysInFlight(HeldBack)
<1> DEFINE rep == Report[t].rep
<1> DEFINE Keyed == KeyedRows(t, table, Live(db.target))
<1>1. Report[t] = TableReport(t, table, Live(db.target), F)
  BY DEF Report
<1> HIDE DEF F
<1>2. /\ rep.coverage = 10000
      /\ \A r \in Rows : TableOf[r] = t /\ r \notin F => table[r] = Live(db.target)[r]
  BY <1>1, ReportVerdict DEF SomeKeys
<1>3. /\ rep.keys = Count(Keyed) /\ rep.checked = Count(Keyed \ F)
      /\ rep.excluded = Count(Keyed \cap F) /\ rep.coverage = Coverage(rep.checked, rep.keys)
  <2>1. rep = TableReport(t, table, Live(db.target), F).rep
    BY <1>1
  <2> HIDE DEF rep
  <2> QED BY <2>1, ReportCounts
<1>4. /\ Keyed \in SUBSET Rows
      /\ Count(Keyed) \in Nat /\ Count(Keyed \ F) \in Nat /\ Count(Keyed \cap F) \in Nat
      /\ Count(Keyed) = Count(Keyed \ F) + Count(Keyed \cap F)
  <2>1. Keyed \in SUBSET Rows /\ Keyed \ F \in SUBSET Rows /\ Keyed \cap F \in SUBSET Rows
    BY DEF KeyedRows
  <2> HIDE DEF Keyed
  <2> QED BY <2>1, CountPositive, CountSplits DEF SomeKeys
<1> DEFINE OfTable == {r \in Rows : TableOf[r] = t}
<1>5. OfTable \in SUBSET Rows /\ OfTable \cap Keyed = Keyed
  BY DEF KeyedRows
<1>6. Count(OfTable) < 20000
  BY DEF SmallTables
<1> HIDE DEF OfTable, Keyed, rep
<1>7. Count(Keyed) < 20000
  <2>1. Count(OfTable) = Count(OfTable \ Keyed) + Count(OfTable \cap Keyed)
        /\ Count(OfTable \ Keyed) \in Nat
    BY <1>5, CountSplits, CountPositive DEF SomeKeys
  <2>2. Count(OfTable) = Count(OfTable \ Keyed) + Count(Keyed)
    BY <1>5, <2>1
  <2> QED BY <1>4, <1>6, <2>1, <2>2
<1>8. rep.excluded = 0 /\ Keyed \cap F = {}
  <2>1. Coverage(Count(Keyed \ F), Count(Keyed)) = 10000
    BY <1>2, <1>3
  <2>2. Count(Keyed \ F) <= Count(Keyed)
    BY <1>4
  <2>3. Count(Keyed \ F) = Count(Keyed)
    BY <1>4, <1>7, <2>1, <2>2, WholeCoverage
  <2>4. Count(Keyed \cap F) = 0 /\ Keyed \cap F \in SUBSET Rows
    BY <1>4, <2>3
  <2> QED BY <1>3, <2>4, CountPositive DEF SomeKeys
<1>9. \A r \in Rows : TableOf[r] = t => table[r] = Live(db.target)[r]
  BY <1>2, <1>8 DEF Keyed, KeyedRows
<1> QED BY <1>8, <1>9 DEF rep

\* Lag is never called drift (reconcile.py, the module comment): while nobody
\* changes a row behind the merge no report says drift, at any moment of a run and
\* with any part of the stream still on its way.
THEOREM LagIsNeverDrift == MergeIsEnough /\ SomeKeys => (ReconcileSpec => []DriftIsNotLag)
<1> SUFFICES ASSUME MergeIsEnough, SomeKeys PROVE ReconcileSpec => []DriftIsNotLag
  OBVIOUS
<1>1. ReconcileInit => ReconcileInv
  BY PipelineInitInv DEF ReconcileInit, ReconcileInv, PipelineInv
<1>2. ReconcileInv /\ [ReconcileNext]_reconcileVars => ReconcileInv'
  BY ReconcileInvStep
<1>3. ReconcileInv => DriftIsNotLag
  <2> SUFFICES ASSUME ReconcileInv, broken = {}, NEW r \in Rows,
                      r \notin KeysInFlight(HeldBack)
               PROVE  table[r] = Live(db.target)[r]
    BY ReportVerdicts DEF DriftIsNotLag
  <2>1. PipelineInv
    BY DEF ReconcileInv
  <2>2. ASSUME NEW e \in Stream(log), ~e.tomb, e.row = r PROVE e \in Handed
    <3>1. e \notin HeldBack
      BY <2>2, EventsAssumption DEF KeysInFlight
    <3>2. InBatch(pending) \subseteq HeldBack
      BY DEF HeldBack, InBatch, pending
    <3> QED BY <2>2, <3>1, <3>2 DEF HeldBack, Handed
  <2> QED BY <2>1, <2>2, QuietRow
<1> QED BY <1>1, <1>2, <1>3, PTL DEF ReconcileSpec

\* In every state of every run, broken rows and all, the tables keep their types.
LEMMA ReconcileBase == ReconcileSpec => []PipelineBase
<1>1. ReconcileInit => PipelineBase
  BY PipelineInitInv DEF ReconcileInit
<1> QED BY <1>1, ReconcileBaseStep, PTL DEF ReconcileSpec

\* Equal rows make equal tables.
LEMMA WholeTables ==
  ASSUME PipelineBase, \A r \in Rows : table[r] = Live(db.target)[r]
  PROVE  Live(db.target) = table
<1>1. table = [r \in Rows |-> table[r]]
  BY DEF PipelineBase, Base, TypeOK, SourceTypeOK
<1> QED BY <1>1 DEF Live

\* The strongest verdict is worth believing (reconcile.py, verdict): below 20000 keys a
\* table, where no rounded coverage hides a key, clean means the tables are equal,
\* whatever was on its way and whoever changed what.
THEOREM CleanIsEqual ==
  SomeKeys /\ SmallTables /\ Absent \notin Nat => (ReconcileSpec => []CleanMeansEqual)
<1> SUFFICES ASSUME SomeKeys, SmallTables, Absent \notin Nat
             PROVE  ReconcileSpec => []CleanMeansEqual
  OBVIOUS
<1>1. PipelineBase => CleanMeansEqual
  <2> SUFFICES ASSUME PipelineBase, Rollup(Report) = "clean" PROVE Live(db.target) = table
    BY DEF CleanMeansEqual
  <2>1. \A r \in Rows : table[r] = Live(db.target)[r]
    BY ReportVerdicts, CleanIsWhole DEF Tables
  <2> QED BY <2>1, WholeTables
<1> QED BY <1>1, ReconcileBase, PTL

\* A pass over part of a table is never called clean (reconcile.py, verdict), below the
\* same 20000 keys: the run reconcile_rounding shows one that is, above them.
THEOREM PartialPassesAreSeen ==
  SomeKeys /\ SmallTables /\ Absent \notin Nat => (ReconcileSpec => []PartialPassIsNotClean)
<1> SUFFICES ASSUME SomeKeys, SmallTables, Absent \notin Nat
             PROVE  ReconcileSpec => []PartialPassIsNotClean
  OBVIOUS
<1>1. PipelineBase => PartialPassIsNotClean
  BY ReportVerdicts, CleanIsWhole DEF PartialPassIsNotClean
<1> QED BY <1>1, ReconcileBase, PTL

\* With nothing held back a report is exact: it says drift just when the tables
\* differ, whatever the keys cover and whatever the merge got wrong.
THEOREM QuietReportsAreExact == SomeKeys => (ReconcileSpec => []QuietReportIsExact)
<1> SUFFICES ASSUME SomeKeys PROVE ReconcileSpec => []QuietReportIsExact
  OBVIOUS
<1>1. PipelineBase => QuietReportIsExact
  <2> SUFFICES ASSUME PipelineBase, HeldBack = {}
               PROVE  Rollup(Report) = "drift" <=> Live(db.target) # table
    BY DEF QuietReportIsExact
  <2>1. KeysInFlight(HeldBack) = {}
    BY DEF KeysInFlight
  <2> QED BY <2>1, ReportVerdicts, WholeTables
<1> QED BY <1>1, ReconcileBase, PTL

-----------------------------------------------------------------------------
(* The coverage of a run, between those of its tables.                      *)

\* A quotient is at least, or at most, what its divisor is worth.
LEMMA QuotientAtLeast ==
  ASSUME NEW a \in Nat, NEW b \in Nat \ {0}, NEW m \in Nat, b * m <= a
  PROVE  m <= a \div b
<1> DEFINE q == a \div b
<1>1. q \in Nat /\ a < b * q + b
  BY Quotient
<1> HIDE DEF q
<1>2. ASSUME q + 1 <= m PROVE FALSE
  <2>1. PICK d \in Nat : m = q + 1 + d
    <3>1. m - (q + 1) \in Nat /\ m = q + 1 + (m - (q + 1))
      BY <1>1, <1>2
    <3> QED BY <3>1
  <2>2. b * m = b * q + b + b * d /\ b * d \in Nat
    BY <1>1, <2>1
  <2> QED BY <1>1, <2>2
<1> QED BY <1>1, <1>2 DEF q

\* The same from above.
LEMMA QuotientAtMost ==
  ASSUME NEW a \in Nat, NEW b \in Nat \ {0}, NEW m \in Nat, a < b * m + b
  PROVE  a \div b <= m
<1> DEFINE q == a \div b
<1>1. q \in Nat /\ b * q <= a
  BY Quotient
<1> HIDE DEF q
<1>2. ASSUME m + 1 <= q PROVE FALSE
  <2>1. PICK d \in Nat : q = m + 1 + d
    <3>1. q - (m + 1) \in Nat /\ q = m + 1 + (q - (m + 1))
      BY <1>1, <1>2
    <3> QED BY <3>1
  <2>2. b * q = b * m + b + b * d /\ b * d \in Nat
    BY <1>1, <2>1
  <2> QED BY <1>1, <2>2
<1> QED BY <1>1, <1>2 DEF q

\* What it means for a rounded ratio to lie between two bounds.
FromBelow(c, k, m) == 2 * k * m <= 20000 * c + k
FromAbove(c, k, m) == 20000 * c + k < 2 * k * m + 2 * k

\* They say just that.
LEMMA CoverageBounds ==
  ASSUME NEW c \in Nat, NEW k \in Nat \ {0}, NEW m \in Nat
  PROVE  /\ Coverage(c, k) \in Nat
         /\ m <= Coverage(c, k) <=> FromBelow(c, k, m)
         /\ Coverage(c, k) <= m <=> FromAbove(c, k, m)
<1> DEFINE a == 20000 * c + k
<1> DEFINE b == 2 * k
<1> DEFINE q == a \div b
<1>1. a \in Nat /\ b \in Nat \ {0} /\ Coverage(c, k) = q
  BY DEF Coverage
<1> HIDE DEF a, b
<1>2. q \in Nat /\ b * q <= a /\ a < b * q + b
  BY <1>1, Quotient
<1>3. /\ m <= q <=> b * m <= a
      /\ q <= m <=> a < b * m + b
  <2>1. b * m <= a => m <= q
    BY <1>1, QuotientAtLeast
  <2>2. a < b * m + b => q <= m
    BY <1>1, QuotientAtMost
  <2> HIDE DEF q
  <2>3. ASSUME m <= q PROVE b * m <= b * q
    <3>1. PICK d \in Nat : q = m + d
      <4>1. q - m \in Nat /\ q = m + (q - m)
        BY <1>2, <2>3
      <4> QED BY <4>1
    <3>2. b * q = b * m + b * d /\ b * d \in Nat /\ b * m \in Nat
      BY <1>1, <3>1
    <3> QED BY <3>2
  <2>4. ASSUME q <= m PROVE b * q <= b * m
    <3>1. PICK d \in Nat : m = q + d
      <4>1. m - q \in Nat /\ m = q + (m - q)
        BY <1>2, <2>4
      <4> QED BY <4>1
    <3>2. b * m = b * q + b * d /\ b * d \in Nat /\ b * q \in Nat
      BY <1>1, <1>2, <3>1
    <3> QED BY <3>2
  <2>5. b * m \in Nat /\ b * q \in Nat
    BY <1>1, <1>2
  <2> QED BY <1>1, <1>2, <2>1, <2>2, <2>3, <2>4, <2>5
<1> QED BY <1>1, <1>2, <1>3 DEF a, b, FromBelow, FromAbove

\* The ratio of two sums lies between the bounds of the ratios, empty tables apart.
LEMMA RatioOfSums ==
  ASSUME NEW D, IsFiniteSet(D), NEW C, NEW K, NEW c, NEW k, NEW lo \in Nat, NEW hi \in Nat,
         SumsUp(c, C, D), SumsUp(k, K, D),
         \A x \in D : /\ C[x] \in Nat /\ K[x] \in Nat /\ C[x] <= K[x]
                      /\ K[x] # 0 => /\ lo <= Coverage(C[x], K[x])
                                     /\ Coverage(C[x], K[x]) <= hi,
         NEW y \in D, K[y] # 0
  PROVE  /\ c[D] \in Nat /\ k[D] \in Nat \ {0}
         /\ lo <= Coverage(c[D], k[D]) /\ Coverage(c[D], k[D]) <= hi
<1> DEFINE Between(s) ==
      /\ 2 * k[s] * lo <= 20000 * c[s] + k[s]
      /\ 20000 * c[s] + k[s] <= 2 * k[s] * hi + 2 * k[s]
      /\ k[s] # 0 => 20000 * c[s] + k[s] < 2 * k[s] * hi + 2 * k[s]
<1>1. /\ c[{}] = 0 /\ k[{}] = 0
      /\ \A s \in SUBSET D : c[s] \in Nat /\ \A x \in s : c[s] = C[x] + c[s \ {x}]
      /\ \A s \in SUBSET D : k[s] \in Nat /\ \A x \in s : k[s] = K[x] + k[s \ {x}]
  <2>1. (\A x \in D : C[x] \in Nat) /\ \A x \in D : K[x] \in Nat
    OBVIOUS
  <2>2. /\ c[{}] = 0
        /\ \A s \in SUBSET D : c[s] \in Nat /\ \A x \in s : c[s] = C[x] + c[s \ {x}]
    BY <2>1, SumTakesAny
  <2>3. /\ k[{}] = 0
        /\ \A s \in SUBSET D : k[s] \in Nat /\ \A x \in s : k[s] = K[x] + k[s \ {x}]
    BY <2>1, SumTakesAny
  <2> QED BY <2>2, <2>3
<1> DEFINE B == {s \in SUBSET D : ~Between(s)}
<1>2. B = {}
  <2> SUFFICES ASSUME B # {} PROVE FALSE
    OBVIOUS
  <2>1. B \in SUBSET (SUBSET D)
    OBVIOUS
  <2>2. PICK s \in B : \A t \in SUBSET s : t # s => t \notin B
    <3> HIDE DEF B
    <3> QED BY <2>1, MinimalSet
  <2> HIDE DEF Between
  <2>3. s \in SUBSET D /\ ~Between(s)
    BY <2>2
  <2>4. Between({})
    BY <1>1 DEF Between
  <2>5. PICK x \in s : TRUE
    BY <2>3, <2>4
  <2> DEFINE u == s \ {x}
  <2>6. u \in SUBSET D /\ Between(u) /\ x \in D
    BY <2>2, <2>3, <2>5
  <2>7. /\ c[s] = C[x] + c[u] /\ k[s] = K[x] + k[u]
        /\ c[u] \in Nat /\ k[u] \in Nat /\ C[x] \in Nat /\ K[x] \in Nat /\ C[x] <= K[x]
    BY <1>1, <2>3, <2>5, <2>6
  <2> HIDE DEF u, B
  <2>8. CASE K[x] = 0
    <3>1. c[s] = c[u] /\ k[s] = k[u]
      BY <2>7, <2>8
    <3> QED BY <2>3, <2>6, <3>1 DEF Between
  <2>9. CASE K[x] # 0
    <3>1. /\ 2 * K[x] * lo <= 20000 * C[x] + K[x]
          /\ 20000 * C[x] + K[x] < 2 * K[x] * hi + 2 * K[x]
      <4>1. /\ lo <= Coverage(C[x], K[x]) /\ Coverage(C[x], K[x]) <= hi
            /\ K[x] \in Nat \ {0}
        BY <2>6, <2>7, <2>9
      <4>2. FromBelow(C[x], K[x], lo) /\ FromAbove(C[x], K[x], hi)
        BY <2>7, <4>1, CoverageBounds
      <4> QED BY <4>2 DEF FromBelow, FromAbove
    <3>2. /\ 2 * k[s] * lo = 2 * K[x] * lo + 2 * k[u] * lo
          /\ 2 * k[s] * hi = 2 * K[x] * hi + 2 * k[u] * hi
          /\ 2 * K[x] * lo \in Nat /\ 2 * k[u] * lo \in Nat
          /\ 2 * K[x] * hi \in Nat /\ 2 * k[u] * hi \in Nat
      BY <2>7
    <3>3. /\ 2 * k[u] * lo <= 20000 * c[u] + k[u]
          /\ 20000 * c[u] + k[u] <= 2 * k[u] * hi + 2 * k[u]
      BY <2>6 DEF Between
    <3>4. Between(s)
      BY <2>7, <3>1, <3>2, <3>3 DEF Between
    <3> QED BY <2>3, <3>4
  <2> QED BY <2>8, <2>9
<1>3. c[D] \in Nat /\ k[D] \in Nat \ {0}
  <2>1. k[D] = K[y] + k[D \ {y}] /\ k[D \ {y}] \in Nat /\ K[y] \in Nat
    BY <1>1
  <2> QED BY <1>1, <2>1
<1>4. Between(D)
  <2> HIDE DEF Between
  <2> QED BY <1>2
<1>5. FromBelow(c[D], k[D], lo) /\ FromAbove(c[D], k[D], hi)
  BY <1>3, <1>4 DEF FromBelow, FromAbove
<1> HIDE DEF Between
<1> QED BY <1>3, <1>5, CoverageBounds

\* The counts the rollup adds up.
CheckedOf(report) == [t \in Tables |-> report[t].rep.checked]
KeysIn(report) == [t \in Tables |-> report[t].rep.keys]

\* The rollup's first sum.
LEMMA SumOfChecked ==
  ASSUME NEW report, IsFiniteSet(Tables), NEW c, SumsUp(c, CheckedOf(report), Tables)
  PROVE  MapThenSumSet(LAMBDA t : report[t].rep.checked, Tables) = c[Tables]
<1> DEFINE Eq(f) ==
      f = [s \in SUBSET Tables |->
             IF s = {} THEN 0 ELSE report[Pick(s)].rep.checked + f[s \ {Pick(s)}]]
<1> DEFINE sum == CHOOSE f : Eq(f)
<1>1. MapThenSumSet(LAMBDA t : report[t].rep.checked, Tables) = sum[Tables]
  BY DEF MapThenSumSet, MapThenFoldSet, Pick
<1>2. \A s \in SUBSET Tables : s # {} =>
        report[Pick(s)].rep.checked = CheckedOf(report)[Pick(s)]
  BY PickIn DEF CheckedOf
<1>3. ASSUME NEW f PROVE Eq(f) <=> SumsUp(f, CheckedOf(report), Tables)
  <2>1. [s \in SUBSET Tables |->
             IF s = {} THEN 0 ELSE report[Pick(s)].rep.checked + f[s \ {Pick(s)}]]
        = [s \in SUBSET Tables |->
             IF s = {} THEN 0 ELSE CheckedOf(report)[Pick(s)] + f[s \ {Pick(s)}]]
    BY <1>2
  <2> QED BY <2>1 DEF SumsUp
<1> HIDE DEF Eq
<1>4. Eq(sum)
  BY <1>3
<1>5. SumsUp(sum, CheckedOf(report), Tables)
  BY <1>3, <1>4
<1> HIDE DEF sum
<1> QED BY <1>1, <1>5, SumsAgree

\* The rollup's second sum.
LEMMA SumOfKeys ==
  ASSUME NEW report, IsFiniteSet(Tables), NEW k, SumsUp(k, KeysIn(report), Tables)
  PROVE  MapThenSumSet(LAMBDA t : report[t].rep.keys, Tables) = k[Tables]
<1> DEFINE Eq(f) ==
      f = [s \in SUBSET Tables |->
             IF s = {} THEN 0 ELSE report[Pick(s)].rep.keys + f[s \ {Pick(s)}]]
<1> DEFINE sum == CHOOSE f : Eq(f)
<1>1. MapThenSumSet(LAMBDA t : report[t].rep.keys, Tables) = sum[Tables]
  BY DEF MapThenSumSet, MapThenFoldSet, Pick
<1>2. \A s \in SUBSET Tables : s # {} => report[Pick(s)].rep.keys = KeysIn(report)[Pick(s)]
  BY PickIn DEF KeysIn
<1>3. ASSUME NEW f PROVE Eq(f) <=> SumsUp(f, KeysIn(report), Tables)
  <2>1. [s \in SUBSET Tables |->
             IF s = {} THEN 0 ELSE report[Pick(s)].rep.keys + f[s \ {Pick(s)}]]
        = [s \in SUBSET Tables |->
             IF s = {} THEN 0 ELSE KeysIn(report)[Pick(s)] + f[s \ {Pick(s)}]]
    BY <1>2
  <2> QED BY <2>1 DEF SumsUp
<1> HIDE DEF Eq
<1>4. Eq(sum)
  BY <1>3
<1>5. SumsUp(sum, KeysIn(report), Tables)
  BY <1>3, <1>4
<1> HIDE DEF sum
<1> QED BY <1>1, <1>5, SumsAgree

\* Finitely many keys are in finitely many tables.
LEMMA FewTables ==
  ASSUME IsFiniteSet(Rows)
  PROVE  IsFiniteSet(Tables)
<1> DEFINE f == [r \in Rows |-> TableOf[r]]
<1>1. f \in Surjection(Rows, Tables)
  BY DEF Surjection, Tables
<1> HIDE DEF f
<1> QED BY <1>1, FS_Surjection

\* A set of numbers no higher than a bound: the definitions of the library pick its ends.
LEMMA Ends ==
  ASSUME NEW S \in SUBSET Nat, S # {}, \E b \in Nat : \A x \in S : x <= b
  PROVE  /\ Min(S) \in S /\ Max(S) \in S
         /\ \A x \in S : Min(S) <= x /\ x <= Max(S)
<1>1. \E m \in S : \A x \in S : m =< x
  BY LeastOf
<1>2. \E m \in S : \A x \in S : m >= x
  <2>1. PICK m \in S : \A x \in S : x <= m
    BY GreatestOf
  <2> QED BY <2>1
<1>3. Min(S) \in S /\ \A x \in S : Min(S) =< x
  BY <1>1 DEF Min
<1>4. Max(S) \in S /\ \A x \in S : Max(S) >= x
  BY <1>2 DEF Max
<1> QED BY <1>3, <1>4

\* The coverage of the sums is one of the numbers between the tables' coverages.
LEMMA CoverageLies ==
  ASSUME IsFiniteSet(Rows), Absent \notin Nat, NEW report,
         \A t \in Tables : /\ report[t].rep.checked \in Nat /\ report[t].rep.keys \in Nat
                           /\ report[t].rep.checked <= report[t].rep.keys
                           /\ report[t].rep.coverage =
                                Coverage(report[t].rep.checked, report[t].rep.keys)
  PROVE  CoverageIsBetween(report)
<1> DEFINE C == CheckedOf(report)
<1> DEFINE K == KeysIn(report)
<1> DEFINE each == {report[t].rep.coverage : t \in Tables} \ {Absent}
<1> SUFFICES ASSUME each # {} PROVE RolledCoverage(report) \in Min(each)..Max(each)
  BY DEF CoverageIsBetween
<1>1. IsFiniteSet(Tables)
  BY FewTables
<1>2. PICK c, k : SumsUp(c, C, Tables) /\ SumsUp(k, K, Tables)
  BY <1>1, SumExists
<1>3. RolledCoverage(report) = Coverage(c[Tables], k[Tables])
  BY <1>1, <1>2, SumOfChecked, SumOfKeys DEF RolledCoverage
<1>4. \A t \in Tables : /\ C[t] \in Nat /\ K[t] \in Nat /\ C[t] <= K[t]
                        /\ report[t].rep.coverage = Coverage(C[t], K[t])
  BY DEF CheckedOf, KeysIn
<1> HIDE DEF C, K
<1>5. \A t \in Tables : K[t] = 0 => report[t].rep.coverage = Absent
  BY <1>4 DEF Coverage
<1>6. ASSUME NEW t \in Tables, K[t] # 0
      PROVE  /\ report[t].rep.coverage \in Nat /\ report[t].rep.coverage <= 10000
             /\ report[t].rep.coverage \in each
  <2>1. C[t] \in Nat /\ K[t] \in Nat \ {0} /\ C[t] <= K[t]
    BY <1>4, <1>6
  <2>2. FromAbove(C[t], K[t], 10000)
    BY <2>1 DEF FromAbove
  <2>3. Coverage(C[t], K[t]) \in Nat /\ Coverage(C[t], K[t]) <= 10000
    BY <2>1, <2>2, CoverageBounds
  <2> QED BY <1>4, <2>3
<1>7. each \in SUBSET Nat /\ \A x \in each : x <= 10000
  BY <1>5, <1>6
<1>8. PICK y \in Tables : K[y] # 0
  BY <1>5
<1>9. /\ Min(each) \in each /\ Max(each) \in each
      /\ \A x \in each : Min(each) <= x /\ x <= Max(each)
  <2>1. each # {}
    OBVIOUS
  <2> HIDE DEF each
  <2>2. \E b \in Nat : \A x \in each : x <= b
    <3> WITNESS 10000 \in Nat
    <3> QED BY <1>7
  <2>3. each \in SUBSET Nat
    BY <1>7
  <2> QED BY <2>1, <2>2, <2>3, Ends
<1> DEFINE lo == Min(each)
<1> DEFINE hi == Max(each)
<1>10. lo \in Nat /\ hi \in Nat
  BY <1>7, <1>9
<1>11. \A t \in Tables : K[t] # 0 => lo <= Coverage(C[t], K[t]) /\ Coverage(C[t], K[t]) <= hi
  BY <1>4, <1>6, <1>9
<1> HIDE DEF each, lo, hi
<1>12. /\ c[Tables] \in Nat /\ k[Tables] \in Nat \ {0}
       /\ lo <= Coverage(c[Tables], k[Tables]) /\ Coverage(c[Tables], k[Tables]) <= hi
  BY <1>1, <1>2, <1>4, <1>8, <1>10, <1>11, RatioOfSums
<1>13. Coverage(c[Tables], k[Tables]) \in Nat
  BY <1>12, CoverageBounds
<1> QED BY <1>3, <1>10, <1>12, <1>13 DEF lo, hi

\* The two definitions of coverage stay related (reconcile.py, one_line and
\* coverage_is_between_the_tables): the sums divided lie between the least and the
\* greatest of the tables' ratios, rounding and tables without a key included.
THEOREM CoverageIsAlwaysBetween ==
  IsFiniteSet(Rows) /\ Absent \notin Nat => (ReconcileSpec => []CoveragesAgree)
<1> SUFFICES ASSUME IsFiniteSet(Rows), Absent \notin Nat
             PROVE  ReconcileSpec => []CoveragesAgree
  OBVIOUS
<1>1. PipelineBase => CoveragesAgree
  <2> DEFINE F == KeysInFlight(HeldBack)
  <2>1. ASSUME NEW t \in Tables
        PROVE  /\ Report[t].rep.checked \in Nat /\ Report[t].rep.keys \in Nat
               /\ Report[t].rep.checked <= Report[t].rep.keys
               /\ Report[t].rep.coverage = Coverage(Report[t].rep.checked, Report[t].rep.keys)
    <3> DEFINE Keyed == KeyedRows(t, table, Live(db.target))
    <3>1. Report[t] = TableReport(t, table, Live(db.target), F)
      BY DEF Report
    <3> HIDE DEF F
    <3> DEFINE rep == Report[t].rep
    <3>2. rep = TableReport(t, table, Live(db.target), F).rep
      BY <3>1
    <3> HIDE DEF rep
    <3>5. /\ rep.keys = Count(Keyed) /\ rep.checked = Count(Keyed \ F)
          /\ rep.excluded = Count(Keyed \cap F) /\ rep.coverage = Coverage(rep.checked, rep.keys)
      BY <3>2, ReportCounts
    <3>3. Keyed \in SUBSET Rows /\ Keyed \ F \in SUBSET Rows /\ Keyed \cap F \in SUBSET Rows
      BY DEF KeyedRows
    <3> HIDE DEF Keyed
    <3>4. /\ Count(Keyed) \in Nat /\ Count(Keyed \ F) \in Nat /\ Count(Keyed \cap F) \in Nat
          /\ Count(Keyed) = Count(Keyed \ F) + Count(Keyed \cap F)
      BY <3>3, CountPositive, CountSplits
    <3> QED BY <3>4, <3>5 DEF rep
  <2> QED BY <2>1, CoverageLies DEF CoveragesAgree
<1> QED BY <1>1, ReconcileBase, PTL

=============================================================================
