-------------------------------- MODULE Workload --------------------------------
(***************************************************************************)
(* The load generator: a plan made without a database (load/workload.py)   *)
(* and the applier that carries it out on one (load/apply.py, Applier),    *)
(* as run_workload strings them together (load/drive.py).                  *)
(*                                                                         *)
(* Customers, products and orders are numbered by an identity column and   *)
(* never deleted, so a table of them is a set of numbers.  An order line   *)
(* is an order and a line number.                                          *)
(***************************************************************************)
EXTENDS Naturals, Sequences, FiniteSets

CONSTANTS
  MaxSteps,     \* bound on the steps of the plan
  MaxDimension  \* bound on customers and products, found and asked for

ASSUME WorkloadAssumption == MaxSteps \in Nat /\ MaxDimension \in Nat

Tables == {"customer", "product", "order_header", "order_item"}

\* Where the weights are not zero: only an order line is ever deleted.
Actions(t) == {"insert", "update"} \cup (IF t = "order_item" THEN {"delete"} ELSE {})

VARIABLES
  phase,     \* "plan" or "run"
  rows,      \* the plan's idea of how many rows each table holds
  ops,       \* the operations planned and not yet applied
  deflected, \* planned updates and deletes turned into inserts
  asked,     \* the numbers of customers and products run_workload is asked for
  db,        \* the tables
  ids,       \* the applier's pool of primary keys
  applied,   \* operations applied, by action
  skipped    \* operations the applier could not do

workloadVars ==
  <<phase, rows, ops, deflected, asked, db, ids, applied, skipped>>

Empty == [t \in Tables |-> {}]

Upto(n) == IF n = 0 THEN {} ELSE 1..n

\* The databases a run may find: customers, products and orders of earlier runs
\* and, of the first order, what is left of its lines.
Existing ==
  {found \in {[customer |-> Upto(c), product |-> Upto(p), order_header |-> Upto(o),
               order_item |-> {<<1, n>> : n \in lines}] :
                 c, p, o \in 0..MaxDimension, lines \in SUBSET {1, 2}} :
     /\ found["order_header"] # {} => found["customer"] # {}
     /\ found["order_item"] # {} => found["order_header"] # {} /\ found["product"] # {}}

\* seed_row_counts: what the planner is told exists.
SeedRowCounts(c, p) ==
  [t \in Tables |-> IF t = "customer" THEN c ELSE IF t = "product" THEN p ELSE 0]

Init ==
  /\ phase = "plan"
  /\ \E c, p \in 0..MaxDimension : asked = <<c, p>> /\ rows = SeedRowCounts(c, p)
  /\ db \in Existing
  /\ ops = <<>> /\ deflected = 0
  /\ ids = Empty
  /\ applied = [a \in {"insert", "update", "delete"} |-> 0]
  /\ skipped = 0

-----------------------------------------------------------------------------
(* The plan.                                                                *)

\* Mutants: only deletes are deflected; nothing is.
InfeasibleDelete(t, a) == a = "delete" /\ rows[t] = 0
NeverInfeasible(t, a) == FALSE

Infeasible(t, a) == a \in {"update", "delete"} /\ rows[t] = 0

\* One step of plan(): an operation on an empty table becomes an insert.
PlanStep ==
  /\ phase = "plan" /\ Len(ops) < MaxSteps
  /\ \E t \in Tables : \E a \in Actions(t) :
       LET action == IF Infeasible(t, a) THEN "insert" ELSE a
       IN  /\ ops' = Append(ops, [action |-> action, table |-> t])
           /\ deflected' = IF Infeasible(t, a) THEN deflected + 1 ELSE deflected
           /\ rows' = [rows EXCEPT ![t] =
                CASE action = "insert" -> @ + 1
                  [] action = "delete" -> @ - 1
                  [] OTHER -> @]
  /\ UNCHANGED <<phase, asked, db, ids, applied, skipped>>

\* adopt_existing, then seed_dimensions: each dimension topped up, not added to.
TopUp(held, want) == held \cup Upto(want)

AdoptAndSeed ==
  LET full == [db EXCEPT !["customer"] = TopUp(@, asked[1]),
                         !["product"] = TopUp(@, asked[2])]
  IN  /\ phase = "plan"
      /\ phase' = "run"
      /\ db' = full /\ ids' = full
      /\ UNCHANGED <<rows, ops, deflected, asked, applied, skipped>>

-----------------------------------------------------------------------------
(* The applier.  An insert is a function of the tables and the pool.        *)

\* Mutant: an inserted key is not read back into the pool.
WithRowNotPooled(w, t, k) == [db |-> [w.db EXCEPT ![t] = @ \cup {k}], ids |-> w.ids]

WithRow(w, t, k) ==
  [db |-> [w.db EXCEPT ![t] = @ \cup {k}], ids |-> [w.ids EXCEPT ![t] = @ \cup {k}]]

\* The identity column's next value.
WithNext(w, t) == WithRow(w, t, Cardinality(w.db[t]) + 1)

\* A parent row is inserted first when the pool holds none to pick.
WithParent(w, t) == IF w.ids[t] = {} THEN WithNext(w, t) ELSE w

\* insert_order_header
WithHeader(w) == WithNext(WithParent(w, "customer"), "order_header")

\* Mutant: the number of lines left plus one.
CountOfLines(items, order) == 1 + Cardinality({k \in items : k[1] = order})

\* max(line_no) + 1 over what is left of the order.
NextLine(items, order) ==
  LET lines == {k[2] : k \in {k \in items : k[1] = order}}
  IN  IF lines = {} THEN 1 ELSE 1 + (CHOOSE n \in lines : \A m \in lines : m <= n)

\* insert_order_item, for every order it may pick.
WithItem(w) ==
  LET ordered == IF w.ids["order_header"] = {} THEN WithHeader(w) ELSE w
      parents == WithParent(ordered, "product")
  IN  {WithRow(parents, "order_item", <<o, NextLine(parents.db["order_item"], o)>>) :
         o \in parents.ids["order_header"]}

Inserted(w, t) ==
  CASE t = "order_item" -> WithItem(w)
    [] t = "order_header" -> {WithHeader(w)}
    [] OTHER -> {WithNext(w, t)}

Insert(t) ==
  \E w \in Inserted([db |-> db, ids |-> ids], t) : db' = w.db /\ ids' = w.ids

\* An update moves no key.
Update(t) == UNCHANGED <<db, ids>>

Delete(t) ==
  \E k \in ids[t] :
    /\ ids' = [ids EXCEPT ![t] = @ \ {k}]
    /\ db' = [db EXCEPT ![t] = @ \ {k}]

Apply(op) ==
  CASE op.action = "insert" -> Insert(op.table)
    [] op.action = "update" -> Update(op.table)
    [] op.action = "delete" -> Delete(op.table)

\* One pass of run()'s loop: an operation with no row to pick is only counted.
ApplyStep ==
  /\ phase = "run" /\ ops # <<>>
  /\ LET op == Head(ops)
     IN  IF ids[op.table] = {} /\ op.action # "insert"
         THEN skipped' = skipped + 1 /\ UNCHANGED <<db, ids, applied>>
         ELSE /\ Apply(op)
              /\ applied' = [applied EXCEPT ![op.action] = @ + 1]
              /\ UNCHANGED skipped
  /\ ops' = Tail(ops)
  /\ UNCHANGED <<phase, rows, deflected, asked>>

Next == PlanStep \/ AdoptAndSeed \/ ApplyStep

Spec == Init /\ [][Next]_workloadVars

-----------------------------------------------------------------------------
(* Properties.                                                              *)

PrimaryKeys(t) == IF t = "order_item" THEN Nat \X Nat ELSE Nat

WorkloadTypeOK ==
  /\ phase \in {"plan", "run"}
  /\ rows \in [Tables -> Nat]
  /\ ops \in Seq([action : {"insert", "update", "delete"}, table : Tables])
  /\ {deflected, skipped} \subseteq Nat
  /\ applied \in [{"insert", "update", "delete"} -> Nat]
  /\ \A t \in Tables : db[t] \subseteq PrimaryKeys(t) /\ ids[t] \subseteq PrimaryKeys(t)

\* The planner and the applier agree about what can be done without ever
\* talking: no planned operation finds an empty pool (Applier.run).
NothingSkipped == skipped = 0

\* The pool an update or a delete picks from is exactly the live primary keys, so
\* no statement misses its row, whatever was found and implicitly inserted.
PoolIsTheDatabase == phase = "run" => ids = db

\* An insert adds a row, of a key no live row has, also where lines were deleted.
InsertsAddRows ==
  [][ops # <<>> /\ applied' # applied /\ Head(ops).action = "insert" =>
       Cardinality(db'[Head(ops).table]) = Cardinality(db[Head(ops).table]) + 1]_workloadVars

=============================================================================
