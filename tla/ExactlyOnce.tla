------------------------------ MODULE ExactlyOnce ------------------------------
(***************************************************************************)
(* What a recovering consumer promises, without transactions, crashes or   *)
(* restarts: one list of batches is fixed, and each is applied once, in    *)
(* order, the ledger moving with it.                                       *)
(***************************************************************************)
EXTENDS Merge

VARIABLES
  batches,  \* the batches of the run, <<>> before they are cut
  store,    \* the target table
  applied   \* number of batches applied

Init == batches = <<>> /\ store = EmptyTarget /\ applied = 0

Fix == batches = <<>> /\ batches' \in Seq(Seq(Records)) /\ UNCHANGED <<store, applied>>

Apply ==
  /\ applied < Len(batches)
  /\ store' = ApplyTo(store, batches[applied + 1], applied + 1, Guard, OnTombstone)
  /\ applied' = applied + 1
  /\ UNCHANGED batches

Next == Fix \/ Apply

Spec == Init /\ [][Next]_<<batches, store, applied>> /\ WF_<<batches, store, applied>>(Apply)

=============================================================================
