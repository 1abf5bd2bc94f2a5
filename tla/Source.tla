-------------------------------- MODULE Source --------------------------------
(***************************************************************************)
(* The source table and its write ahead log as the replication slot shows  *)
(* it: one committed change per step, appended in commit order.  The       *)
(* statements are the load generator's (load/apply.py): an insert of a     *)
(* key that is not there, an update of one that is, a hard delete.  A      *)
(* deleted key may be inserted again: an order line number is the highest  *)
(* one left plus one.                                                      *)
(***************************************************************************)
EXTENDS Events

CONSTANTS
  MaxLog,   \* bound on the length of the log
  Ties      \* whether two changes may share a log position

ASSUME SourceAssumption == MaxLog \in Nat /\ Ties \in BOOLEAN

VARIABLES
  log,      \* committed changes in commit order
  table     \* the rows of the source table

sourceVars == <<log, table>>

LastLsn == IF log = <<>> THEN 0 ELSE log[Len(log)].lsn

NextLsns == {LastLsn + 1} \cup (IF Ties /\ log # <<>> THEN {LastLsn} ELSE {})

SourceInit ==
  /\ log = <<>>
  /\ table = [r \in Rows |-> Absent]

Commit(r, op, v) ==
  /\ Len(log) < MaxLog
  /\ \E n \in NextLsns :
       log' = Append(log, [row |-> r, op |-> op, val |-> v, lsn |-> n])
  /\ table' = [table EXCEPT ![r] = v]

Insert(r, v) == table[r] = Absent /\ Commit(r, "c", v)

Update(r, v) == table[r] # Absent /\ Commit(r, "u", v)

Delete(r) == table[r] # Absent /\ Commit(r, "d", Absent)

SourceNext ==
  \/ \E r \in Rows, v \in Values : Insert(r, v) \/ Update(r, v)
  \/ \E r \in Rows : Delete(r)

SourceTypeOK ==
  /\ log \in Seq(Changes)
  /\ table \in [Rows -> Values \cup {Absent}]

=============================================================================
