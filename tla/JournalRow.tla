----------------------------- MODULE JournalRow -----------------------------
(***************************************************************************)
(* One row of the Power journal (src/team/power_journal.py): the batch of  *)
(* operations that is pending for one Team generation.  The two SQLite     *)
(* tables are joined into one sequence, an entry per ordinal; the absent   *)
(* row is the empty sequence, since prepare_batch never stores an empty    *)
(* batch.  The batch fingerprint commits to the generation, the thread and *)
(* the operations in order; within one generation the first two are fixed, *)
(* so two batches have one fingerprint exactly when their operations agree.*)
(***************************************************************************)
EXTENDS Sequences, Functions

CONSTANT NoResult    \* the SQL NULL of an entry without a result

EntryState == {"prepared", "executing", "completed"}

NoRow == << >>

\* The operations of a batch in order, as its fingerprint commits to them.
Fingerprint(row) == [k \in DOMAIN row |-> row[k].op]

\* _load_batch: the stored row is the one the handle names.
Current(row, ops) == row # NoRow /\ Fingerprint(row) = ops

\* The rows prepare_batch inserts for a batch it does not know yet.
Inserted(ops) ==
  [k \in DOMAIN ops |-> [op |-> ops[k], state |-> "prepared", result |-> NoResult]]

\* Mutant of MayExecute: begin without its test for an uncertain outcome.
MayExecuteUncertain(row, k) == row[k].state # "completed"

\* begin: a prepared entry is marked before its side effect may start.
MayExecute(row, k) == row[k].state = "prepared"
Begun(row, k) == [row EXCEPT ![k].state = "executing"]

\* complete: the result is stored with the state, in one UPDATE.
MayComplete(row, k) == row[k].state = "executing"
Completed(row, k, result) ==
  [row EXCEPT ![k].state = "completed", ![k].result = result]

\* suspend: only an executing entry, or one already prepared, is replayable.
MaySuspend(row, k) == row[k].state \in {"executing", "prepared"}
Suspended(row, k) == [row EXCEPT ![k].state = "prepared"]

\* delivered: every result of the batch exists.
Deliverable(row) == \A k \in DOMAIN row : row[k].state = "completed"
=============================================================================
