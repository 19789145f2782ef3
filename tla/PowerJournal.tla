---------------------------- MODULE PowerJournal ----------------------------
(***************************************************************************)
(* The Power journal (src/team/power_journal.py) under any client.  Every  *)
(* method runs in one SQLite transaction under one mutex, so each is one   *)
(* action; a method that raises rolls back and changes nothing.  Callers   *)
(* are arbitrary: any Team generation may use any handle at any time, also *)
(* a stale one that survived a restart, a delivery or a purge.             *)
(***************************************************************************)
EXTENDS JournalRow, Integers, FiniteSets

CONSTANTS
  Generation,       \* Team generations, the primary key of table batches
  Operation,        \* operations: an interrupt id with a request fingerprint
  InterruptOf,      \* the interrupt id of an operation
  Result,           \* canonical Power results
  MaxGenerations,   \* MAX_GENERATIONS, the capacity of the table
  MaxOperations     \* MAX_OPERATIONS, the longest batch

ASSUME JournalAssumption ==
  /\ IsFiniteSet(Generation)
  /\ MaxGenerations \in Nat \ {0}
  /\ MaxOperations \in Nat \ {0}
  /\ NoResult \notin Result

VARIABLES
  rows,     \* the durable row of each generation
  granted   \* history: execute decisions not yet taken back by a suspension

vars == <<rows, granted>>

-----------------------------------------------------------------------------
\* The batches _batch accepts: bounded, not empty, no interrupt id twice.
Batch ==
  UNION {{ops \in [1..n -> Operation] :
            \A j, k \in 1..n : j # k => InterruptOf[ops[j]] # InterruptOf[ops[k]]} :
         n \in 1..MaxOperations}

Pending == {g \in Generation : rows[g] # NoRow}

Init ==
  /\ rows = [g \in Generation |-> NoRow]
  /\ granted = [g \in Generation |-> << >>]

\* Mutant of PrepareBatch: the capacity is compared one too late.
PrepareBatchOverCapacity(g, ops) ==
  /\ rows[g] = NoRow
  /\ Cardinality(Pending) <= MaxGenerations
  /\ rows' = [rows EXCEPT ![g] = Inserted(ops)]
  /\ granted' = [granted EXCEPT ![g] = [k \in DOMAIN ops |-> 0]]

\* Mutant of PrepareBatch: a pending batch that has not begun is replaced.
PrepareBatchReplaces(g, ops) ==
  /\ \A k \in DOMAIN rows[g] : MayExecute(rows[g], k)
  /\ Cardinality(Pending \ {g}) < MaxGenerations
  /\ rows' = [rows EXCEPT ![g] = Inserted(ops)]
  /\ granted' = [granted EXCEPT ![g] = [k \in DOMAIN ops |-> 0]]

\* prepare_batch for a generation without a row.  A generation with the same
\* batch keeps it as it is, one with another batch is refused, and so is a
\* new row beyond the capacity.
PrepareBatch(g, ops) ==
  /\ rows[g] = NoRow
  /\ Cardinality(Pending) < MaxGenerations
  /\ rows' = [rows EXCEPT ![g] = Inserted(ops)]
  /\ granted' = [granted EXCEPT ![g] = [k \in DOMAIN ops |-> 0]]

\* begin answers "execute" for a prepared entry only: an executing one is
\* uncertain and a completed one is answered from the stored result.
Begin(g, ops, k) ==
  /\ Current(rows[g], ops)
  /\ MayExecute(rows[g], k)
  /\ rows' = [rows EXCEPT ![g] = Begun(@, k)]
  /\ granted' = [granted EXCEPT ![g][k] = @ + 1]

\* complete of an executing entry; repeating it with the stored result is
\* accepted and with another one refused, neither changes the row.
Complete(g, ops, k, result) ==
  /\ Current(rows[g], ops)
  /\ MayComplete(rows[g], k)
  /\ rows' = [rows EXCEPT ![g] = Completed(@, k, result)]
  /\ UNCHANGED granted

\* Mutant of Suspend: a repeated suspension takes a second decision back.
SuspendTwice(g, ops, k) ==
  /\ Current(rows[g], ops)
  /\ MaySuspend(rows[g], k)
  /\ rows' = [rows EXCEPT ![g] = Suspended(@, k)]
  /\ granted' = [granted EXCEPT ![g][k] = @ - 1]

\* suspend takes the execute decision of an entry back; repeating it on an
\* entry that is prepared again changes nothing.
Suspend(g, ops, k) ==
  /\ Current(rows[g], ops)
  /\ MaySuspend(rows[g], k)
  /\ rows' = [rows EXCEPT ![g] = Suspended(@, k)]
  /\ granted' = [granted EXCEPT ![g][k] = IF rows[g][k].state = "executing" THEN @ - 1 ELSE @]

Forget(g) ==
  /\ rows' = [rows EXCEPT ![g] = NoRow]
  /\ granted' = [granted EXCEPT ![g] = << >>]

\* delivered deletes the row of exactly this batch once it is complete.
Delivered(g, ops) ==
  /\ Current(rows[g], ops)
  /\ Deliverable(rows[g])
  /\ Forget(g)

\* purge deletes whatever a destroyed generation left behind.
Purge(g) ==
  /\ rows[g] # NoRow
  /\ Forget(g)

Next ==
  \E g \in Generation :
    \/ \E ops \in Batch :
         \/ PrepareBatch(g, ops)
         \/ Delivered(g, ops)
         \/ \E k \in DOMAIN ops :
              \/ Begin(g, ops, k)
              \/ Suspend(g, ops, k)
              \/ \E result \in Result : Complete(g, ops, k, result)
    \/ Purge(g)

Spec == Init /\ [][Next]_vars

-----------------------------------------------------------------------------
Entry == [op : Operation, state : EntryState, result : Result \cup {NoResult}]

\* The type invariant of the journal tables.
TypeOK ==
  /\ rows \in [Generation -> Seq(Entry)]
  /\ granted \in [Generation -> Seq(Nat)]
  /\ \A g \in Generation : DOMAIN granted[g] = DOMAIN rows[g]

\* An entry without a decision is prepared; one decision is outstanding for
\* every entry that is executing or completed.
GrantsMatchStates ==
  \A g \in Generation : \A k \in DOMAIN rows[g] :
    granted[g][k] = IF rows[g][k].state = "prepared" THEN 0 ELSE 1

\* begin never tells two callers to run one operation unless the first run
\* was suspended in between, however handles are shared, kept or repeated
\* (power_journal.py:begin, "refusing a duplicate side effect").
NoDuplicateGrant ==
  \A g \in Generation : \A k \in DOMAIN granted[g] : granted[g][k] <= 1

\* The table never holds more generations than its capacity.
WithinCapacity == Cardinality(Pending) <= MaxGenerations

\* A pending batch is never exchanged for another one, however many callers
\* prepare batches of one generation: its row keeps its operations until it
\* disappears (prepare_batch: "another Power batch is pending for this
\* generation").
BatchIsNeverReplaced ==
  [][\A g \in Generation : rows[g] # NoRow =>
       rows'[g] = NoRow \/ Fingerprint(rows'[g]) = Fingerprint(rows[g])]_vars

\* A stored result is final: while its row exists, no step changes it or
\* makes its entry executable again.
StoredResultsAreFinal ==
  [][\A g \in Generation : \A k \in DOMAIN rows[g] :
       rows[g][k].state = "completed" /\ rows'[g] # NoRow
         => rows'[g][k] = rows[g][k]]_vars
=============================================================================
